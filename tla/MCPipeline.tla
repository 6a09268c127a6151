------------------------------ MODULE MCPipeline ------------------------------
(***************************************************************************)
(* Programs of at most two statements at the top, of which one may be an   *)
(* if, a match, or a loop whose body holds a branch, a jump or an inner    *)
(* loop (statements with the same label are all reachable or all           *)
(* unreachable); and, for the pass alone, bodies of four                   *)
(* blocks in which, as in every body the compiler lowers, nothing jumps to *)
(* the entry and no cycle is made of gotos only.  The second and the third *)
(* block may be empty.                                                     *)
(***************************************************************************)
EXTENDS Compilation

\* A break leaves the innermost loop.  The typed IR has Continue too, and the
\* lowering handles it, though the language has no statement for it yet.
Jumps == {Break(1), Continue(1)}

Plain == {Act("a"), Called("f"), ReturnStmt("r"), Never("n")}

Short == {<<>>, <<Act("a")>>, <<ReturnStmt("r")>>, <<Called("f"), ReturnStmt("r")>>, <<Never("n")>>,
          <<ReturnStmt("r"), Act("b")>>}

InLoop == {<<>>, <<Called("f")>>, <<Break(1)>>, <<Act("a"), Continue(1)>>, <<ReturnStmt("r")>>}

\* Decision trees over two arms: one switch, a switch below another with two leaves
\* for an arm, one without a default below one, and a leaf where the first arm covers
\* everything.
OneSwitch == <<Cases("m", <<2, 3, Uncovered>>), Leaf(1), Leaf(2)>>
Shared == <<Cases("m", <<2, 5>>), Cases("k", <<3, 4>>), Leaf(1), Leaf(2), Leaf(2)>>
HalfCovered == <<Cases("m", <<2, 5>>), Cases("k", <<3, 4, Uncovered>>), Leaf(1), Fail, Leaf(2)>>
Covering == <<Leaf(1)>>

LoopBodies ==
  InLoop
    \cup {<<If("c", t), Act("b")>> : t \in InLoop}
    \cup {<<IfElse("c", t, e)>> : t, e \in InLoop}
    \cup {<<Act("b"), Match(OneSwitch, <<t, e>>)>> : t, e \in InLoop}
    \cup {<<While("d", 2, <<>>, t), Act("b")>> : t \in {<<>>, <<Break(2)>>, <<ReturnStmt("r")>>,
                                                              <<IfElse("c", <<Continue(2)>>, <<Break(2)>>)>>}}

Loops ==
  {While("w", 1, setup, body) : setup \in {<<>>, <<Called("s"), Act("s")>>, <<Act("e"), Never("n")>>}, body \in LoopBodies}

Branches ==
  {If("c", t) : t \in Short} \cup {IfElse("c", t, e) : t, e \in Short}
    \cup {Block(t) : t \in Short}

Matches ==
  {Match(OneSwitch, <<t, e>>) : t, e \in Short}
    \cup {Match(tree, <<t, e>>) : tree \in {Shared, HalfCovered, Covering},
                                t, e \in {<<>>, <<Act("a")>>, <<ReturnStmt("r")>>}}
    \cup {Match(<<Fail>>, <<>>)}

Afterwards == {<<>>, <<Act("z")>>, <<ReturnStmt("q")>>, <<If("e", <<ReturnStmt("q")>>), Act("z")>>}

\* Programs over the statements Compound, in a function that returns void or not.
ProgramsOver(Compound) ==
  {Program(void, <<first>> \o then) :
     void \in BOOLEAN, first \in Compound \cup Plain, then \in Afterwards}

MCPrograms == ProgramsOver(Loops \cup Branches \cup Matches)

RECURSIVE ListsOf(_, _, _)
\* The lists of a program, with the loops they are in.
ListsOf(stmts, inside, end) ==
  LET within(s) == inside \cup {s.loop}
      last(i) == IF i = Len(stmts) THEN end ELSE GoesOn
      of(s, at) ==
        CASE s.stmt = "Block" -> ListsOf(s.stmts, inside, at)
          [] s.stmt = "If" -> ListsOf(s.then, inside, MayJump)
          [] s.stmt = "IfElse" -> ListsOf(s.then, inside, MayJump) \cup ListsOf(s.else, inside, MayJump)
          [] s.stmt = "While" -> ListsOf(s.setup, within(s), GoesOn) \cup ListsOf(s.body, within(s), MayJump)
          [] s.stmt = "Match" -> UNION {ListsOf(arm, inside, MayJump) : arm \in ToSet(s.arms)}
          [] OTHER -> {}
  IN  {List(stmts, inside, end)} \cup UNION {of(stmts[i], last(i)) : i \in DOMAIN stmts}

\* The programs are those LoweringProofs is about.
ASSUME ProgramsAreScoped == \A p \in MCPrograms : AreScoped(ListsOf(p.root, {}, GoesOn))

\* Programs with a statement after a jump in the same block.
MCJumpedOver ==
  {Program(TRUE, <<While("w", 1, <<>>, <<jump, s>>)>>) : jump \in Jumps, s \in Plain}

NoBodies == {}

Others == 2 .. 4

Terms(i) ==
  {Goto(t) : t \in Others \ {i}}
    \cup {[Branch("c", s, t) EXCEPT !.locals = <<"y">>] : s, t \in Others}
    \cup {[Call("f", t) EXCEPT !.locals = <<"x", "y">>] : t \in Others}
    \cup {Diverge}

Body(t1, t2, t3, full) ==
  [ params |-> <<"y", "z">>,
    blocks |-> << [stmts |-> <<Stmt("s1", <<"x", "y">>)>>, term |-> t1],
                  [stmts |-> IF 2 \in full THEN <<Stmt("s2", <<"w">>)>> ELSE <<>>, term |-> t2],
                  [stmts |-> IF 3 \in full THEN <<Stmt("s3", <<"z", "x">>), Stmt("s4", <<"v">>)>> ELSE <<>>,
                   term |-> t3],
                  [stmts |-> <<>>, term |-> [Return("") EXCEPT !.locals = <<"w">>]] >> ]

OnlyGotos(body) ==
  LET step(i) == IF body.blocks[i].term.kind = "Goto" THEN body.blocks[i].term.targets[1] ELSE 4
  IN  step(step(step(2))) # 4 \/ step(step(step(3))) # 4

MCBodies ==
  {body \in {Body(t1, t2, t3, full) :
               t1 \in Terms(1), t2 \in Terms(2), t3 \in Terms(3), full \in SUBSET {2, 3}} :
     ~ OnlyGotos(body)}
==============================================================================
