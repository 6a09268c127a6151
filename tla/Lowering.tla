------------------------------- MODULE Lowering -------------------------------
(***************************************************************************)
(* ThirToMIR (src/src/thir_to_mir/mod.rs, lower_match.rs): the statements  *)
(* of a function are lowered into blocks, one builder call at a time.  The *)
(* recursion of the build_ functions is the sequence todo: statements to   *)
(* build, and what the functions do after them, namely Close (goto a block *)
(* unless the current one is terminated), Enter (switch to a block),       *)
(* Decide (branch, when the statements of a condition are built),          *)
(* Unreachable (diverge) and Arms (build the remaining arms of a match,    *)
(* whose blocks are body, body + 1, ...).                                  *)
(*                                                                         *)
(* The bodies are those of the typed IR (src/src/thir/stmt.rs): nested     *)
(* statements.  Expressions are labels.                                    *)
(*   Act(l)           a Let, Assign or Expr statement                      *)
(*   Called(l)        a call in the expression of the statement after it   *)
(*   Never(l)         an Expr statement that calls a function returning    *)
(*                    never                                                *)
(*   If, While, Match, Block, Return, Break, Continue                      *)
(* The setup statements of the condition of an If or the scrutinee of a    *)
(* Match run exactly once before it, so they are written as statements     *)
(* before it; the ones of a While run at every turn and stay with it.      *)
(* Setup statements are the Lets and calls an expression is taken apart    *)
(* into.                                                                   *)
(***************************************************************************)
EXTENDS Builder

CONSTANT Programs

VARIABLES
  program,
  todo,
  loops,     \* loop_begins and loop_ends, by the scope of the loop
  builder,
  status     \* "lowering", "done" or "panicked"

lowerVars == <<program, todo, loops, builder, status>>

Close(block) == [stmt |-> "Close", block |-> block]
Enter(block) == [stmt |-> "Enter", block |-> block]
Decide(l, then, else) == [stmt |-> "Decide", label |-> l, then |-> then, else |-> else]
Unreachable == [stmt |-> "Unreachable"]
Arms(arms, body, merge) == [stmt |-> "Arms", arms |-> arms, body |-> body, merge |-> merge]

LowerInit ==
  /\ program \in Programs
  /\ todo = program.root
  /\ loops = <<>>
  /\ builder = NewBuilder
  /\ status = "lowering"

-----------------------------------------------------------------------------
\* Bodies of the typed IR.
Act(l) == [stmt |-> "Act", label |-> l]
Called(l) == [stmt |-> "Call", label |-> l]
Never(l) == [stmt |-> "Never", label |-> l]
ReturnStmt(l) == [stmt |-> "Return", label |-> l]
Break(loop) == [stmt |-> "Break", loop |-> loop]
Continue(loop) == [stmt |-> "Continue", loop |-> loop]
Block(stmts) == [stmt |-> "Block", stmts |-> stmts]
If(l, then) == [stmt |-> "If", label |-> l, then |-> then]
IfElse(l, then, else) == [stmt |-> "IfElse", label |-> l, then |-> then, else |-> else]
While(l, loop, setup, body) ==
  [stmt |-> "While", label |-> l, loop |-> loop, setup |-> setup, body |-> body]
Match(tree, arms) == [stmt |-> "Match", tree |-> tree, arms |-> arms]

\* The decision tree of a match is the vector of its nodes in the order they are
\* lowered in, each before the trees below it.  A node is a leaf, which takes an
\* arm, fails, or tells cases apart: a way is the tree of a case, and the last may
\* be the one of the default.  Where there is no default the last is Uncovered.
Leaf(arm) == [node |-> "Leaf", arm |-> arm]
Fail == [node |-> "Fail"]
Cases(l, ways) == [node |-> "Cases", label |-> l, ways |-> ways]

Uncovered == 0

\* A program: does the function return void, and its statements.
Program(void, root) == [void |-> void, root |-> root]

-----------------------------------------------------------------------------
\* What the lowering relies on, and nothing before it checks: a break or continue
\* is in its loop and is the last statement of its block.  A list of statements
\* stands in the loops inside and may end with a jump, or not.
List(stmts, inside, end) == [stmts |-> stmts, inside |-> inside, end |-> end]

MayJump == "may jump"
GoesOn == "goes on"

\* The statements that do not branch.
Straight == {"Act", "Call", "Never"}

\* A decision tree over n arms.
IsTree(tree, n) ==
  /\ IsVec(tree) /\ tree # <<>>
  /\ \A at \in DOMAIN tree :
       \/ tree[at].node = "Leaf" /\ tree[at].arm \in 1 .. n
       \/ tree[at].node = "Fail"
       \/ /\ tree[at].node = "Cases"
          /\ IsVec(tree[at].ways)
          /\ ToSet(tree[at].ways) \subseteq {Uncovered} \cup ((at + 1) .. Len(tree))

\* A statement in the loops inside, lists being the lists of such statements.
IsScopedStmt(lists, s, inside, end) ==
  \/ s.stmt \in {"Act", "Call", "Never", "Return"}
  \/ s.stmt \in {"Break", "Continue"} /\ end = MayJump /\ s.loop \in inside
  \/ s.stmt = "Block" /\ List(s.stmts, inside, end) \in lists
  \/ s.stmt = "If" /\ List(s.then, inside, MayJump) \in lists
  \/ /\ s.stmt = "IfElse"
     /\ List(s.then, inside, MayJump) \in lists
     /\ List(s.else, inside, MayJump) \in lists
  \/ /\ s.stmt = "While"
     /\ s.loop \notin inside
     /\ \A x \in ToSet(s.setup) : x.stmt \in Straight
     /\ List(s.setup, inside \cup {s.loop}, GoesOn) \in lists
     /\ List(s.body, inside \cup {s.loop}, MayJump) \in lists
  \/ /\ s.stmt = "Match"
     /\ IsVec(s.arms) /\ IsTree(s.tree, Len(s.arms))
     /\ \A arm \in ToSet(s.arms) : List(arm, inside, MayJump) \in lists

AreScoped(lists) ==
  \A list \in lists :
    /\ IsVec(list.stmts)
    /\ \A i \in DOMAIN list.stmts :
         IsScopedStmt(lists, list.stmts[i], list.inside,
                      IF i = Len(list.stmts) THEN list.end ELSE GoesOn)

\* All lists of a program are of this kind.
IsScoped(p) == \E lists : AreScoped(lists) /\ List(p.root, {}, GoesOn) \in lists

-----------------------------------------------------------------------------
\* One step takes the first thing to do, of the kind kind, and leaves the
\* builder b; a builder that panicked ends the compilation.
Take(kind) == status = "lowering" /\ todo # <<>> /\ Head(todo).stmt = kind

Leave(b, before_the_rest) ==
  /\ builder' = b
  /\ todo' = before_the_rest \o Tail(todo)
  /\ status' = IF b.ok THEN "lowering" ELSE "panicked"
  /\ UNCHANGED program

\* loop_begins.insert and loop_ends.insert.
WithLoop(loop, begin, end) ==
  [l \in DOMAIN loops \cup {loop} |-> IF l = loop THEN [begin |-> begin, end |-> end] ELSE loops[l]]

NoDeadBlock(b) == b
DeadBlock(b) == SwitchToBlock(NewBlocks(b, 1), FreshBlock(b, 1))

\* Let, Assign and Expr: the rvalue goes into a place.
LowerAct ==
  /\ Take("Act")
  /\ Leave(EmitAll(builder, <<Stmt(Head(todo).label, <<>>)>>), <<>>)
  /\ UNCHANGED loops

\* build_call: what follows the call goes into a block of its own.
LowerCall ==
  /\ Take("Call")
  /\ LET next == FreshBlock(builder, 1)
     IN  Leave(SwitchToBlock(Terminate(NewBlocks(builder, 1), Call(Head(todo).label, next)), next), <<>>)
  /\ UNCHANGED loops

\* build_call of a function returning never.
LowerNever ==
  /\ Take("Never")
  /\ LET next == FreshBlock(builder, 1)
         called == Terminate(NewBlocks(builder, 1), Call(Head(todo).label, next))
     IN  Leave(DeadBlock(Terminate(SwitchToBlock(called, next), Diverge)), <<>>)
  /\ UNCHANGED loops

LowerReturn ==
  /\ Take("Return")
  /\ Leave(DeadBlock(Terminate(builder, Return(Head(todo).label))), <<>>)
  /\ UNCHANGED loops

LowerBreak ==
  /\ Take("Break")
  /\ Leave(Terminate(builder, Goto(loops[Head(todo).loop].end)), <<>>)
  /\ UNCHANGED loops

LowerContinueAsBreak ==
  /\ Take("Continue")
  /\ Leave(Terminate(builder, Goto(loops[Head(todo).loop].end)), <<>>)
  /\ UNCHANGED loops

LowerContinue ==
  /\ Take("Continue")
  /\ Leave(Terminate(builder, Goto(loops[Head(todo).loop].begin)), <<>>)
  /\ UNCHANGED loops

LowerBlock ==
  /\ Take("Block")
  /\ Leave(builder, Head(todo).stmts)
  /\ UNCHANGED loops

\* build_if_stmt: the else branch is built before the then branch.
LowerIf ==
  /\ Take("If")
  /\ LET then == FreshBlock(builder, 1)
         merge == FreshBlock(builder, 2)
     IN  Leave(Terminate(NewBlocks(builder, 2), Branch(Head(todo).label, then, merge)),
               <<Enter(then)>> \o Head(todo).then \o <<Close(merge), Enter(merge)>>)
  /\ UNCHANGED loops

LowerIfElse ==
  /\ Take("IfElse")
  /\ LET then == FreshBlock(builder, 1)
         merge == FreshBlock(builder, 2)
         else == FreshBlock(builder, 3)
     IN  Leave(Terminate(NewBlocks(builder, 3), Branch(Head(todo).label, then, else)),
               <<Enter(else)>> \o Head(todo).else \o <<Close(merge), Enter(then)>>
                 \o Head(todo).then \o <<Close(merge), Enter(merge)>>)
  /\ UNCHANGED loops

LowerWhileInPlace ==
  /\ Take("While")
  /\ LET w == Head(todo)
         cond == builder.current
         body == FreshBlock(builder, 1)
         merge == FreshBlock(builder, 2)
     IN  /\ loops' = WithLoop(w.loop, cond, merge)
         /\ Leave(NewBlocks(builder, 2),
                  w.setup \o <<Decide(w.label, body, merge), Enter(body)>> \o w.body
                    \o <<Close(cond), Enter(merge)>>)

\* build_while_stmt.
LowerWhile ==
  /\ Take("While")
  /\ LET w == Head(todo)
         cond == FreshBlock(builder, 1)
         body == FreshBlock(builder, 2)
         merge == FreshBlock(builder, 3)
     IN  /\ loops' = WithLoop(w.loop, cond, merge)
         /\ Leave(SwitchToBlock(Terminate(NewBlocks(builder, 3), Goto(cond)), cond),
                  w.setup \o <<Decide(w.label, body, merge), Enter(body)>> \o w.body
                    \o <<Close(cond), Enter(merge)>>)

\* lower_dt_aux: how the block of a node ends.  The blocks of the arms follow merge,
\* those of the second node and the others follow diverge.
EndOf(node, merge, diverge) ==
  CASE node.node = "Leaf" -> Goto(merge + node.arm)
    [] node.node = "Fail" -> Diverge
    [] node.node = "Cases" ->
         Switch(node.label, [i \in 1 .. Len(node.ways) |->
                               IF node.ways[i] = Uncovered THEN diverge ELSE diverge + (node.ways[i] - 1)])

\* build_match_stmt and lower_decision_tree: the first node is lowered where the
\* match stands, each other node in a block of its own.
LowerMatch ==
  /\ Take("Match")
  /\ LET arms == Head(todo).arms
         tree == Head(todo).tree
         n == Len(arms)
         merge == FreshBlock(builder, 1)
         diverge == FreshBlock(builder, n + 2)
         ends == [i \in 1 .. (Len(tree) - 1) |-> EndOf(tree[i + 1], merge, diverge)]
     IN  Leave(Terminate(NewEnds(NewBlocks(builder, n + 2), ends), EndOf(tree[1], merge, diverge)),
               <<Arms(arms, FreshBlock(builder, 2), merge), Enter(diverge), Unreachable, Enter(merge)>>)
  /\ UNCHANGED loops

\* The loop of lower_decision_tree over the branches.
NextArm ==
  /\ Take("Arms")
  /\ LET arms == Head(todo).arms
         body == Head(todo).body
         merge == Head(todo).merge
     IN  Leave(builder,
               IF arms = <<>> THEN <<>>
               ELSE <<Enter(body)>> \o Head(arms) \o <<Close(merge), Arms(Tail(arms), body + 1, merge)>>)
  /\ UNCHANGED loops

DoClose ==
  /\ Take("Close")
  /\ Leave(IF IsTerminated(builder) THEN builder ELSE Terminate(builder, Goto(Head(todo).block)), <<>>)
  /\ UNCHANGED loops

DoEnter ==
  /\ Take("Enter")
  /\ Leave(SwitchToBlock(builder, Head(todo).block), <<>>)
  /\ UNCHANGED loops

DoDecide ==
  /\ Take("Decide")
  /\ Leave(Terminate(builder, Branch(Head(todo).label, Head(todo).then, Head(todo).else)), <<>>)
  /\ UNCHANGED loops

DoUnreachable ==
  /\ Take("Unreachable")
  /\ Leave(Terminate(builder, Diverge), <<>>)
  /\ UNCHANGED loops

\* The end of lower: an implicit return in a void function, a Diverge in any
\* other, and finalize.
Finish ==
  /\ status = "lowering"
  /\ todo = <<>>
  /\ builder' = IF IsTerminated(builder) THEN builder
                ELSE Terminate(builder, IF program.void THEN Return("") ELSE Diverge)
  /\ status' = IF CanFinalize(builder') THEN "done" ELSE "panicked"
  /\ UNCHANGED <<program, todo, loops>>

LowerNext ==
  \/ LowerAct \/ LowerCall \/ LowerNever \/ LowerReturn \/ LowerBreak \/ LowerContinue
  \/ LowerBlock \/ LowerIf \/ LowerIfElse \/ LowerWhile \/ LowerMatch \/ NextArm
  \/ DoClose \/ DoEnter \/ DoDecide \/ DoUnreachable \/ Finish

LowerSpec == LowerInit /\ [][LowerNext]_lowerVars

-----------------------------------------------------------------------------
\* No statement is written into a finished block and no block finished twice:
\* neither the assertion of MIRBuilder::emit nor the expects of ThirToMIR fire.
LoweringNeverPanics == status # "panicked"
==============================================================================
