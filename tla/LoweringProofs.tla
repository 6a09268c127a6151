----------------------------- MODULE LoweringProofs -----------------------------
(***************************************************************************)
(* The lowering never panics and hands over well-formed bodies, whatever   *)
(* the program, as long as its breaks and continues are in their loops and *)
(* last in their blocks (IsScoped); so the whole pipeline never panics and *)
(* its optimised bodies do what the lowered ones do.  And the lowered ones *)
(* do what the source does: every place of the body stands for what        *)
(* remains of the source, and keeps standing for it with every step.       *)
(***************************************************************************)
EXTENDS Pipeline, DceProofs

-----------------------------------------------------------------------------
\* What is to do, item by item.
Statements ==
  {"Act", "Call", "Never", "Return", "Break", "Continue", "Block", "If", "IfElse", "While", "Match"}

\* The blocks an item switches to.
Entered(x) ==
  IF x.stmt = "Enter" THEN {x.block}
  ELSE IF x.stmt = "Arms" THEN x.body .. (x.body + Len(x.arms) - 1)
  ELSE {}

EnteredIn(u) == UNION {Entered(u[i]) : i \in DOMAIN u}

\* Those the items of u after the i-th switch to.
EnteredAfter(u, i) == UNION {Entered(u[j]) : j \in {k \in DOMAIN u : k > i}}

\* The kind of the i-th item of u, or of what comes after u.
KindAt(u, i, next) == IF i \in DOMAIN u THEN u[i].stmt ELSE next

\* The loops whose ends are still to be switched to: those an item is inside.
LoopsInto(lps, after) == {l \in DOMAIN lps : lps[l].end \in after}

EndBefore(next) == IF next = "Close" THEN MayJump ELSE GoesOn

\* An item x before one of kind next, the blocks after being switched to later on;
\* begins are the blocks loops begin with.
ItemOK(lists, begins, lps, x, next, after) ==
  \/ /\ x.stmt \in Statements
     /\ next \notin {"Enter", "Arms"}
     /\ IsScopedStmt(lists, x, LoopsInto(lps, after), EndBefore(next))
  \/ /\ x.stmt = "Close"
     /\ next \in {"Enter", "Arms"}
     /\ x.block \in begins \cup after
  \/ /\ x.stmt = "Enter"
     /\ next \notin {"Enter", "Arms"}
     /\ x.block \notin after
  \/ /\ x.stmt = "Decide"
     /\ next = "Enter"
     /\ x.then \in after /\ x.else \in after
  \/ /\ x.stmt = "Unreachable"
     /\ next = "Enter"
  \/ /\ x.stmt = "Arms"
     /\ next = "Enter"
     /\ x.body \in Nat /\ x.merge \in after /\ IsVec(x.arms)
     /\ Entered(x) \cap after = {}
     /\ \A l \in DOMAIN lps : lps[l].end \notin Entered(x)
     /\ \A arm \in ToSet(x.arms) : List(arm, LoopsInto(lps, after), MayJump) \in lists

ItemsOK(lists, begins, lps, u, next, after) ==
  /\ IsVec(u)
  /\ \A i \in DOMAIN u :
       ItemOK(lists, begins, lps, u[i], KindAt(u, i + 1, next), EnteredAfter(u, i) \cup after)

-----------------------------------------------------------------------------
\* The blocks written so far.
StmtOK(stmt) == stmt = Stmt(stmt.label, stmt.locals) /\ IsVec(stmt.locals)

TermOK(blocks, term) ==
  /\ term = Terminator(term.kind, term.label, term.locals, term.targets)
  /\ IsVec(term.locals) /\ IsVec(term.targets)
  /\ ToSet(term.targets) \subseteq DOMAIN blocks \ {EntryBlock}
  /\ term.kind = "Goto" => Len(term.targets) = 1

BlockOK(blocks, block) ==
  /\ block = [stmts |-> block.stmts, term |-> block.term]
  /\ IsVec(block.stmts)
  /\ \A stmt \in ToSet(block.stmts) : StmtOK(stmt)
  /\ TermOK(blocks, block.term)

BlocksOK(bl) ==
  /\ IsBuilder(bl) /\ bl.ok
  /\ IsVec(bl.blocks)
  /\ EntryBlock \in DOMAIN bl.blocks
  /\ bl.current \in DOMAIN bl.blocks
  /\ bl.finalized \subseteq DOMAIN bl.blocks
  /\ \A i \in DOMAIN bl.blocks : BlockOK(bl.blocks, bl.blocks[i])

\* Among finished blocks, no circle of gotos.
NoCircle(blocks, finished) ==
  \A circle \in (SUBSET finished) \ {{}} :
    \E i \in circle : blocks[i].term.kind = "Goto" => blocks[i].term.targets[1] \notin circle

\* The block a loop begins with does not only jump.
BeginsOK(bl, begins) ==
  /\ begins \subseteq DOMAIN bl.blocks \ {EntryBlock}
  /\ \A i \in begins \cap bl.finalized : bl.blocks[i].term.kind # "Goto"

LoopsOK(lps, blocks, begins) ==
  \A l \in DOMAIN lps : lps[l].begin \in begins /\ lps[l].end \in DOMAIN blocks \ {EntryBlock}

\* What is still to be entered is unfinished, and all else but the current block is
\* finished.
PendingOK(bl, begins, pending) ==
  /\ pending \subseteq DOMAIN bl.blocks \ (bl.finalized \cup begins \cup {bl.current, EntryBlock})
  /\ DOMAIN bl.blocks \subseteq bl.finalized \cup pending \cup {bl.current}

Written(bl, begins, pending) ==
  BlocksOK(bl) /\ NoCircle(bl.blocks, bl.finalized) /\ BeginsOK(bl, begins) /\ PendingOK(bl, begins, pending)

\* The current block is finished exactly when the next thing to do does not write.
CurrentOK(bl, next) ==
  IF IsTerminated(bl) THEN next \in {"Enter", "Arms", "Close", "End"} ELSE next \notin {"Enter", "Arms"}

\* The setup of a condition, then its branch.
IsCondition(u) ==
  \E k \in DOMAIN u : u[k].stmt = "Decide" /\ \A j \in 1 .. (k - 1) : u[j].stmt \in Straight

\* While the block a loop begins with is written, its condition is not complete.
ConditionOK(bl, begins, u) == bl.current \in begins \ bl.finalized => IsCondition(u)

LowerOK(lists, begins, lps, bl, u) ==
  /\ Written(bl, begins, EnteredIn(u))
  /\ LoopsOK(lps, bl.blocks, begins)
  /\ CurrentOK(bl, KindAt(u, 1, "End"))
  /\ ConditionOK(bl, begins, u)
  /\ ItemsOK(lists, begins, lps, u, "End", {})

LowerInv ==
  \/ /\ status = "lowering"
     /\ \E lists, begins : AreScoped(lists) /\ LowerOK(lists, begins, loops, builder, todo)
  \/ status = "done" /\ IsWellFormed(builder.blocks)
  \/ status = "bypassed"
-----------------------------------------------------------------------------
\* Vectors.
LEMMA InSeq ==
  ASSUME NEW v, IsVec(v), NEW S, ToSet(v) \subseteq S
  PROVE  v \in Seq(S)
<1>1. Len(v) \in Nat /\ v \in [1 .. Len(v) -> S]
  BY VecProps
<1> QED
  BY <1>1, IsASeq

LEMMA FromSeq ==
  ASSUME NEW S, NEW v \in Seq(S)
  PROVE  IsVec(v)
<1>1. Len(v) \in Nat /\ v \in [1 .. Len(v) -> S]
  BY LenProperties
<1> QED
  BY <1>1, FunctionIsVec

LEMMA ConcatVec ==
  ASSUME NEW u, NEW v, IsVec(u), IsVec(v)
  PROVE  /\ IsVec(u \o v)
         /\ Len(u \o v) = Len(u) + Len(v)
         /\ \A i \in 1 .. Len(u) : (u \o v)[i] = u[i]
         /\ \A i \in 1 .. Len(v) : (u \o v)[Len(u) + i] = v[i]
<1> DEFINE S == ToSet(u) \cup ToSet(v)
<1>1. u \in Seq(S) /\ v \in Seq(S)
  BY InSeq
<1>2. Len(u) \in Nat /\ Len(v) \in Nat
  BY VecProps
<1> HIDE DEF S
<1>3. /\ u \o v \in Seq(S)
      /\ Len(u \o v) = Len(u) + Len(v)
      /\ \A i \in 1 .. Len(u) + Len(v) : (u \o v)[i] = IF i <= Len(u) THEN u[i] ELSE v[i - Len(u)]
  BY <1>1, ConcatProperties
<1>4. ASSUME NEW i \in 1 .. Len(u) PROVE (u \o v)[i] = u[i]
  BY <1>2, <1>3
<1>5. ASSUME NEW i \in 1 .. Len(v) PROVE (u \o v)[Len(u) + i] = v[i]
  <2>1. Len(u) + i \in 1 .. Len(u) + Len(v) /\ ~ (Len(u) + i <= Len(u)) /\ Len(u) + i - Len(u) = i
    BY <1>2
  <2> QED
    BY <2>1, <1>3
<1>6. IsVec(u \o v)
  BY <1>3, FromSeq
<1> QED
  BY <1>3, <1>4, <1>5, <1>6

LEMMA TailVec ==
  ASSUME NEW v, IsVec(v), v # <<>>
  PROVE  /\ IsVec(Tail(v))
         /\ Len(v) \in Nat \ {0}
         /\ Len(Tail(v)) = Len(v) - 1
         /\ Head(v) = v[1]
         /\ \A i \in 1 .. Len(Tail(v)) : Tail(v)[i] = v[i + 1]
<1> DEFINE S == ToSet(v)
<1>1. v \in Seq(S)
  BY DEF IsVec
<1> HIDE DEF S
<1>2. /\ Tail(v) \in Seq(S)
      /\ Len(Tail(v)) = Len(v) - 1
      /\ \A i \in 1 .. Len(Tail(v)) : Tail(v)[i] = v[i + 1]
  BY <1>1, HeadTailProperties
<1>3. Len(v) \in Nat \ {0}
  BY <1>1, EmptySeq
<1>4. IsVec(Tail(v))
  BY <1>2, FromSeq
<1> QED
  BY <1>2, <1>3, <1>4

LEMMA OneVec ==
  ASSUME NEW x
  PROVE  IsVec(<<x>>) /\ Len(<<x>>) = 1 /\ <<x>>[1] = x /\ DOMAIN <<x>> = {1}
<1>1. <<x>> \in Seq({x})
  OBVIOUS
<1>2. IsVec(<<x>>)
  BY <1>1, FromSeq
<1>3. Len(<<x>>) = 1 /\ <<x>>[1] = x /\ DOMAIN <<x>> = {1}
  OBVIOUS
<1> QED
  BY <1>2, <1>3

LEMMA TwoVec ==
  ASSUME NEW x, NEW y
  PROVE  <<x, y>> = <<x>> \o <<y>>
<1>1. ASSUME NEW u, NEW v, NEW w, IsVec(u), IsVec(v), IsVec(w), Len(u) = 1, Len(v) = 1, Len(w) = 2,
             w[1] = u[1], w[2] = v[1]
      PROVE  u \o v = w
  <2>1. /\ IsVec(u \o v) /\ Len(u \o v) = Len(u) + Len(v)
        /\ \A i \in 1 .. Len(u) : (u \o v)[i] = u[i]
        /\ \A i \in 1 .. Len(v) : (u \o v)[Len(u) + i] = v[i]
    BY <1>1, ConcatVec
  <2>2. Len(u \o v) = Len(w) /\ (u \o v)[1] = w[1] /\ (u \o v)[2] = w[2]
    BY <1>1, <2>1
  <2>3. \A i \in 1 .. Len(w) : (u \o v)[i] = w[i]
    BY <1>1, <2>2
  <2> QED
    BY <1>1, <2>1, <2>2, <2>3, SameVec
<1>2. IsVec(<<x, y>>)
  <2>1. <<x, y>> \in Seq({x, y})
    OBVIOUS
  <2> QED
    BY <2>1, FromSeq
<1>3. Len(<<x, y>>) = 2 /\ <<x, y>>[1] = <<x>>[1] /\ <<x, y>>[2] = <<y>>[1]
  OBVIOUS
<1>4. Len(<<x>>) = 1 /\ Len(<<y>>) = 1 /\ IsVec(<<x>>) /\ IsVec(<<y>>)
  BY OneVec
<1> QED
  BY <1>1, <1>2, <1>3, <1>4, Zenon

-----------------------------------------------------------------------------
\* Items one after the other.
LEMMA EnteredConcat ==
  ASSUME NEW u, NEW v, IsVec(u), IsVec(v)
  PROVE  EnteredIn(u \o v) = EnteredIn(u) \cup EnteredIn(v)
<1> DEFINE w == u \o v
<1>1. /\ IsVec(w) /\ Len(w) = Len(u) + Len(v)
      /\ \A i \in 1 .. Len(u) : w[i] = u[i]
      /\ \A i \in 1 .. Len(v) : w[Len(u) + i] = v[i]
  BY ConcatVec
<1>2. /\ Len(u) \in Nat /\ Len(v) \in Nat
      /\ DOMAIN u = 1 .. Len(u) /\ DOMAIN v = 1 .. Len(v) /\ DOMAIN w = 1 .. Len(w)
  BY <1>1, VecProps
<1> HIDE DEF w
<1>3. ASSUME NEW i \in DOMAIN w PROVE w[i] \in {u[j] : j \in DOMAIN u} \cup {v[j] : j \in DOMAIN v}
  <2>1. CASE i <= Len(u)
    BY <2>1, <1>1, <1>2
  <2>2. CASE ~ (i <= Len(u))
    <3>1. i - Len(u) \in 1 .. Len(v) /\ Len(u) + (i - Len(u)) = i
      BY <2>2, <1>1, <1>2
    <3>2. w[i] = v[i - Len(u)]
      BY <3>1, <1>1
    <3> QED
      BY <3>1, <3>2, <1>2
  <2> QED
    BY <2>1, <2>2
<1>4. ASSUME NEW i \in DOMAIN u PROVE i \in DOMAIN w /\ w[i] = u[i]
  BY <1>1, <1>2
<1>5. ASSUME NEW i \in DOMAIN v PROVE Len(u) + i \in DOMAIN w /\ w[Len(u) + i] = v[i]
  BY <1>1, <1>2
<1>6. EnteredIn(w) \subseteq EnteredIn(u) \cup EnteredIn(v)
  BY <1>3 DEF EnteredIn
<1>7. EnteredIn(u) \subseteq EnteredIn(w) /\ EnteredIn(v) \subseteq EnteredIn(w)
  BY <1>4, <1>5 DEF EnteredIn
<1> QED
  BY <1>6, <1>7 DEF w

LEMMA KindConcat ==
  ASSUME NEW u, NEW v, IsVec(u), IsVec(v), NEW next
  PROVE  KindAt(u \o v, 1, next) = KindAt(u, 1, KindAt(v, 1, next))
<1> DEFINE w == u \o v
<1>1. /\ IsVec(w) /\ Len(w) = Len(u) + Len(v)
      /\ \A i \in 1 .. Len(u) : w[i] = u[i]
      /\ \A i \in 1 .. Len(v) : w[Len(u) + i] = v[i]
  BY ConcatVec
<1>2. /\ Len(u) \in Nat /\ Len(v) \in Nat
      /\ DOMAIN u = 1 .. Len(u) /\ DOMAIN v = 1 .. Len(v) /\ DOMAIN w = 1 .. Len(w)
  BY <1>1, VecProps
<1> HIDE DEF w
<1>3. CASE Len(u) = 0
  <2>1. 1 \in DOMAIN w <=> 1 \in DOMAIN v
    BY <1>1, <1>2, <1>3
  <2>2. 1 \in DOMAIN v => w[1] = v[1]
    BY <1>1, <1>2, <1>3
  <2>3. 1 \notin DOMAIN u
    BY <1>2, <1>3
  <2> QED
    BY <2>1, <2>2, <2>3 DEF KindAt, w
<1>4. CASE Len(u) # 0
  <2>1. 1 \in DOMAIN w /\ 1 \in DOMAIN u /\ w[1] = u[1]
    BY <1>1, <1>2, <1>4
  <2> QED
    BY <2>1 DEF KindAt, w
<1> QED
  BY <1>3, <1>4

LEMMA ItemsConcat ==
  ASSUME NEW lists, NEW begins, NEW lps, NEW u, NEW v, NEW next, NEW after,
         ItemsOK(lists, begins, lps, u, KindAt(v, 1, next), EnteredIn(v) \cup after),
         ItemsOK(lists, begins, lps, v, next, after)
  PROVE  ItemsOK(lists, begins, lps, u \o v, next, after)
<1> DEFINE w == u \o v
           kind == KindAt(v, 1, next)
<1>1. IsVec(u) /\ IsVec(v)
  BY DEF ItemsOK
<1>2. /\ IsVec(w) /\ Len(w) = Len(u) + Len(v)
      /\ \A i \in 1 .. Len(u) : w[i] = u[i]
      /\ \A i \in 1 .. Len(v) : w[Len(u) + i] = v[i]
  BY <1>1, ConcatVec
<1>3. /\ Len(u) \in Nat /\ Len(v) \in Nat
      /\ DOMAIN u = 1 .. Len(u) /\ DOMAIN v = 1 .. Len(v) /\ DOMAIN w = 1 .. Len(w)
  BY <1>1, <1>2, VecProps
<1> HIDE DEF w
<1>4. ASSUME NEW i \in DOMAIN w, i > Len(u)
      PROVE  i - Len(u) \in DOMAIN v /\ w[i] = v[i - Len(u)]
  <2>1. i - Len(u) \in 1 .. Len(v) /\ Len(u) + (i - Len(u)) = i
    BY <1>2, <1>3, <1>4
  <2>2. w[i] = v[i - Len(u)]
    BY <2>1, <1>2
  <2> QED
    BY <2>1, <2>2, <1>3
<1>5. ASSUME NEW i \in DOMAIN v PROVE Len(u) + i \in DOMAIN w /\ w[Len(u) + i] = v[i]
  BY <1>2, <1>3
<1>6. ASSUME NEW i \in DOMAIN u
      PROVE  /\ w[i] = u[i]
             /\ KindAt(w, i + 1, next) = KindAt(u, i + 1, kind)
             /\ EnteredAfter(w, i) = EnteredAfter(u, i) \cup EnteredIn(v)
  <2>1. i \in Nat /\ i <= Len(u) /\ i >= 1 /\ w[i] = u[i]
    BY <1>2, <1>3
  <2>2. KindAt(w, i + 1, next) = KindAt(u, i + 1, kind)
    <3>1. CASE i < Len(u)
      <4>1. i + 1 \in DOMAIN u /\ i + 1 \in DOMAIN w /\ w[i + 1] = u[i + 1]
        BY <3>1, <2>1, <1>2, <1>3
      <4> QED
        BY <4>1 DEF KindAt
    <3>2. CASE i = Len(u)
      <4>1. i + 1 \notin DOMAIN u
        BY <3>2, <2>1, <1>3
      <4>2. i + 1 \in DOMAIN w <=> 1 \in DOMAIN v
        BY <3>2, <2>1, <1>2, <1>3
      <4>3. 1 \in DOMAIN v => w[i + 1] = v[1]
        BY <3>2, <1>5
      <4> QED
        BY <4>1, <4>2, <4>3 DEF KindAt
    <3> QED
      BY <3>1, <3>2, <2>1, <1>3
  <2>3. EnteredAfter(w, i) \subseteq EnteredAfter(u, i) \cup EnteredIn(v)
    <3> SUFFICES ASSUME NEW j \in DOMAIN w, j > i
                 PROVE  Entered(w[j]) \subseteq EnteredAfter(u, i) \cup EnteredIn(v)
      BY DEF EnteredAfter
    <3>1. CASE j <= Len(u)
      <4>1. j \in DOMAIN u /\ w[j] = u[j]
        BY <3>1, <1>2, <1>3
      <4> QED
        BY <4>1 DEF EnteredAfter
    <3>2. CASE j > Len(u)
      BY <3>2, <1>4 DEF EnteredIn
    <3> QED
      BY <3>1, <3>2, <1>3
  <2>4. EnteredAfter(u, i) \subseteq EnteredAfter(w, i)
    <3>1. \A j \in DOMAIN u : j \in DOMAIN w /\ w[j] = u[j]
      BY <1>2, <1>3
    <3> QED
      BY <3>1 DEF EnteredAfter
  <2>5. EnteredIn(v) \subseteq EnteredAfter(w, i)
    <3>1. \A j \in DOMAIN v : Len(u) + j > i
      BY <2>1, <1>3
    <3> QED
      BY <3>1, <1>5 DEF EnteredAfter, EnteredIn
  <2> QED
    BY <2>1, <2>2, <2>3, <2>4, <2>5
<1>7. ASSUME NEW i \in DOMAIN w, i > Len(u)
      PROVE  /\ w[i] = v[i - Len(u)]
             /\ KindAt(w, i + 1, next) = KindAt(v, i - Len(u) + 1, next)
             /\ EnteredAfter(w, i) = EnteredAfter(v, i - Len(u))
  <2> DEFINE k == i - Len(u)
  <2>1. k \in DOMAIN v /\ w[i] = v[k] /\ i \in Nat
    BY <1>3, <1>4, <1>7
  <2>2. KindAt(w, i + 1, next) = KindAt(v, k + 1, next)
    <3>1. i + 1 \in DOMAIN w <=> k + 1 \in DOMAIN v
      BY <2>1, <1>2, <1>3
    <3>2. ASSUME k + 1 \in DOMAIN v PROVE w[i + 1] = v[k + 1]
      <4>1. w[Len(u) + (k + 1)] = v[k + 1]
        BY <3>2, <1>5
      <4>2. Len(u) + (k + 1) = i + 1
        BY <2>1, <1>3
      <4> QED
        BY <4>1, <4>2
    <3> HIDE DEF k
    <3> QED
      BY <3>1, <3>2 DEF KindAt
  <2>3. EnteredAfter(w, i) \subseteq EnteredAfter(v, k)
    <3> SUFFICES ASSUME NEW j \in DOMAIN w, j > i PROVE Entered(w[j]) \subseteq EnteredAfter(v, k)
      BY DEF EnteredAfter
    <3>1. j > Len(u) /\ j - Len(u) > k
      BY <2>1, <1>3, <1>7
    <3>2. j - Len(u) \in DOMAIN v /\ w[j] = v[j - Len(u)]
      BY <3>1, <1>4
    <3> HIDE DEF k
    <3> QED
      BY <3>1, <3>2 DEF EnteredAfter
  <2>4. EnteredAfter(v, k) \subseteq EnteredAfter(w, i)
    <3> SUFFICES ASSUME NEW j \in DOMAIN v, j > k PROVE Entered(v[j]) \subseteq EnteredAfter(w, i)
      BY DEF EnteredAfter
    <3>1. Len(u) + j \in DOMAIN w /\ w[Len(u) + j] = v[j]
      BY <1>5
    <3>2. Len(u) + j > i
      BY <2>1, <1>3
    <3> QED
      BY <3>1, <3>2 DEF EnteredAfter
  <2> QED
    BY <2>1, <2>2, <2>3, <2>4
<1>8. ASSUME NEW i \in DOMAIN w
      PROVE  ItemOK(lists, begins, lps, w[i], KindAt(w, i + 1, next), EnteredAfter(w, i) \cup after)
  <2>1. CASE i <= Len(u)
    <3>1. i \in DOMAIN u
      BY <2>1, <1>2, <1>3
    <3>2. ItemOK(lists, begins, lps, u[i], KindAt(u, i + 1, kind), EnteredAfter(u, i) \cup (EnteredIn(v) \cup after))
      BY <3>1 DEF ItemsOK
    <3>3. EnteredAfter(u, i) \cup (EnteredIn(v) \cup after) = EnteredAfter(w, i) \cup after
      BY <3>1, <1>6
    <3> QED
      BY <3>1, <3>2, <3>3, <1>6
  <2>2. CASE i > Len(u)
    <3>1. i - Len(u) \in DOMAIN v
      BY <2>2, <1>4
    <3>2. ItemOK(lists, begins, lps, v[i - Len(u)], KindAt(v, i - Len(u) + 1, next),
                 EnteredAfter(v, i - Len(u)) \cup after)
      BY <3>1 DEF ItemsOK
    <3> QED
      BY <3>2, <2>2, <1>7
  <2> QED
    BY <2>1, <2>2, <1>3
<1> QED
  BY <1>2, <1>8 DEF ItemsOK, w

LEMMA ItemsOne ==
  ASSUME NEW lists, NEW begins, NEW lps, NEW x, NEW next, NEW after,
         ItemOK(lists, begins, lps, x, next, after)
  PROVE  ItemsOK(lists, begins, lps, <<x>>, next, after)
<1>1. IsVec(<<x>>) /\ <<x>>[1] = x /\ DOMAIN <<x>> = {1}
  BY OneVec
<1>2. KindAt(<<x>>, 1 + 1, next) = next
  BY <1>1 DEF KindAt
<1>3. EnteredAfter(<<x>>, 1) = {}
  BY <1>1 DEF EnteredAfter
<1>4. EnteredAfter(<<x>>, 1) \cup after = after
  BY <1>3
<1> QED
  BY <1>1, <1>2, <1>4 DEF ItemsOK

LEMMA OneItem ==
  ASSUME NEW x
  PROVE  EnteredIn(<<x>>) = Entered(x) /\ \A next : KindAt(<<x>>, 1, next) = x.stmt
<1>1. <<x>>[1] = x /\ DOMAIN <<x>> = {1}
  BY OneVec
<1> QED
  BY <1>1 DEF EnteredIn, KindAt

LEMMA ItemsSplit ==
  ASSUME NEW lists, NEW begins, NEW lps, NEW u, NEW next, NEW after, u # <<>>,
         ItemsOK(lists, begins, lps, u, next, after)
  PROVE  LET t == Tail(u)
         IN  /\ ItemOK(lists, begins, lps, Head(u), KindAt(t, 1, next), EnteredIn(t) \cup after)
             /\ ItemsOK(lists, begins, lps, t, next, after)
             /\ EnteredIn(u) = Entered(Head(u)) \cup EnteredIn(t)
             /\ KindAt(u, 1, next) = Head(u).stmt
<1> DEFINE t == Tail(u)
<1>1. /\ IsVec(u) /\ IsVec(t)
      /\ Len(u) \in Nat \ {0} /\ Len(t) = Len(u) - 1
      /\ Head(u) = u[1]
      /\ \A i \in 1 .. Len(t) : t[i] = u[i + 1]
  BY TailVec DEF ItemsOK
<1>2. DOMAIN u = 1 .. Len(u) /\ DOMAIN t = 1 .. Len(t)
  BY <1>1, VecProps
<1> HIDE DEF t
<1>3. ASSUME NEW i \in DOMAIN t PROVE i + 1 \in DOMAIN u /\ t[i] = u[i + 1]
  BY <1>1, <1>2
<1>4. ASSUME NEW i \in DOMAIN u, i > 1 PROVE i - 1 \in DOMAIN t /\ t[i - 1] = u[i]
  <2>1. i - 1 \in DOMAIN t /\ (i - 1) + 1 = i
    BY <1>1, <1>2, <1>4
  <2> QED
    BY <2>1, <1>3
<1>5. ASSUME NEW i \in 0 .. Len(t)
      PROVE  KindAt(u, (i + 1) + 1, next) = KindAt(t, i + 1, next)
  <2>1. (i + 1) + 1 \in DOMAIN u <=> i + 1 \in DOMAIN t
    BY <1>1, <1>2
  <2>2. i + 1 \in DOMAIN t => t[i + 1] = u[(i + 1) + 1]
    BY <1>3
  <2> QED
    BY <2>1, <2>2 DEF KindAt
<1>6. EnteredAfter(u, 1) = EnteredIn(t)
  <2>1. EnteredAfter(u, 1) \subseteq EnteredIn(t)
    BY <1>4 DEF EnteredAfter, EnteredIn
  <2>2. EnteredIn(t) \subseteq EnteredAfter(u, 1)
    <3>1. \A i \in DOMAIN t : i + 1 > 1
      BY <1>1, <1>2
    <3> QED
      BY <3>1, <1>3 DEF EnteredAfter, EnteredIn
  <2> QED
    BY <2>1, <2>2
<1>7. ASSUME NEW i \in DOMAIN t PROVE EnteredAfter(u, i + 1) = EnteredAfter(t, i)
  <2>1. EnteredAfter(u, i + 1) \subseteq EnteredAfter(t, i)
    <3> SUFFICES ASSUME NEW j \in DOMAIN u, j > i + 1 PROVE Entered(u[j]) \subseteq EnteredAfter(t, i)
      BY DEF EnteredAfter
    <3>1. j > 1 /\ j - 1 > i
      BY <1>1, <1>2
    <3> QED
      BY <3>1, <1>4 DEF EnteredAfter
  <2>2. EnteredAfter(t, i) \subseteq EnteredAfter(u, i + 1)
    <3> SUFFICES ASSUME NEW j \in DOMAIN t, j > i PROVE Entered(t[j]) \subseteq EnteredAfter(u, i + 1)
      BY DEF EnteredAfter
    <3>1. j + 1 > i + 1
      BY <1>1, <1>2
    <3> QED
      BY <3>1, <1>3 DEF EnteredAfter
  <2> QED
    BY <2>1, <2>2
<1>8. ItemOK(lists, begins, lps, Head(u), KindAt(t, 1, next), EnteredIn(t) \cup after)
  <2>1. 1 \in DOMAIN u
    BY <1>1, <1>2
  <2>2. ItemOK(lists, begins, lps, u[1], KindAt(u, 1 + 1, next), EnteredAfter(u, 1) \cup after)
    BY <2>1 DEF ItemsOK
  <2>3. KindAt(u, 1 + 1, next) = KindAt(t, 1, next)
    <3>1. 0 \in 0 .. Len(t) /\ (0 + 1) + 1 = 1 + 1 /\ 0 + 1 = 1
      BY <1>1
    <3> QED
      BY <3>1, <1>5
  <2> QED
    BY <2>2, <2>3, <1>1, <1>6
<1>9. ItemsOK(lists, begins, lps, t, next, after)
  <2> SUFFICES ASSUME NEW i \in DOMAIN t
               PROVE  ItemOK(lists, begins, lps, t[i], KindAt(t, i + 1, next), EnteredAfter(t, i) \cup after)
    BY <1>1 DEF ItemsOK
  <2>1. i + 1 \in DOMAIN u /\ t[i] = u[i + 1] /\ i \in 0 .. Len(t)
    BY <1>2, <1>3
  <2>2. ItemOK(lists, begins, lps, u[i + 1], KindAt(u, (i + 1) + 1, next), EnteredAfter(u, i + 1) \cup after)
    BY <2>1 DEF ItemsOK
  <2> QED
    BY <2>1, <2>2, <1>5, <1>7
<1>10. EnteredIn(u) = Entered(Head(u)) \cup EnteredIn(t)
  <2>1. 1 \in DOMAIN u
    BY <1>1, <1>2
  <2>2. EnteredIn(u) = Entered(u[1]) \cup EnteredAfter(u, 1)
    <3>1. \A i \in DOMAIN u : i = 1 \/ i > 1
      BY <1>1, <1>2
    <3> QED
      BY <2>1, <3>1 DEF EnteredIn, EnteredAfter
  <2> QED
    BY <2>2, <1>1, <1>6
<1>11. KindAt(u, 1, next) = Head(u).stmt
  BY <1>1, <1>2 DEF KindAt
<1> QED
  BY <1>8, <1>9, <1>10, <1>11 DEF t

LEMMA EnteredByItem ==
  ASSUME NEW u, NEW i \in DOMAIN u
  PROVE  Entered(u[i]) \subseteq EnteredIn(u) /\ EnteredAfter(u, i) \subseteq EnteredIn(u)
BY DEF EnteredIn, EnteredAfter

LEMMA ScopedStmt ==
  ASSUME NEW lists, NEW s, NEW inside, NEW end, IsScopedStmt(lists, s, inside, end)
  PROVE  s.stmt \in Statements /\ Entered(s) = {}
<1>1. s.stmt \in Statements
  BY DEF IsScopedStmt, Statements
<1>2. s.stmt # "Enter" /\ s.stmt # "Arms"
  BY <1>1 DEF Statements
<1> QED
  BY <1>1, <1>2 DEF Entered

\* The statements of a list, in front of something that does not switch blocks.
LEMMA ListItems ==
  ASSUME NEW lists, AreScoped(lists), NEW begins, NEW lps, NEW stmts, NEW next, NEW after,
         next \notin {"Enter", "Arms"},
         List(stmts, LoopsInto(lps, after), EndBefore(next)) \in lists
  PROVE  /\ ItemsOK(lists, begins, lps, stmts, next, after)
         /\ EnteredIn(stmts) = {}
         /\ \A i \in DOMAIN stmts : stmts[i].stmt \in Statements
         /\ KindAt(stmts, 1, next) \in Statements \cup {next}
<1> DEFINE inside == LoopsInto(lps, after)
           end == EndBefore(next)
           list == List(stmts, inside, end)
           endOf(i) == IF i = Len(stmts) THEN end ELSE GoesOn
<1>1. list.stmts = stmts /\ list.inside = inside /\ list.end = end
  BY DEF List
<1>2. IsVec(stmts) /\ \A i \in DOMAIN stmts : IsScopedStmt(lists, stmts[i], inside, endOf(i))
  <2>1. list \in lists
    OBVIOUS
  <2> HIDE DEF list, inside, end
  <2>2. IsVec(list.stmts) /\ \A i \in DOMAIN list.stmts :
          IsScopedStmt(lists, list.stmts[i], list.inside, IF i = Len(list.stmts) THEN list.end ELSE GoesOn)
    BY <2>1 DEF AreScoped
  <2> QED
    BY <1>1, <2>2
<1>3. DOMAIN stmts = 1 .. Len(stmts) /\ Len(stmts) \in Nat
  BY <1>2, VecProps
<1> HIDE DEF inside, list
<1>4. \A i \in DOMAIN stmts : stmts[i].stmt \in Statements /\ Entered(stmts[i]) = {}
  BY <1>2, ScopedStmt
<1>5. EnteredIn(stmts) = {} /\ \A i \in DOMAIN stmts : EnteredAfter(stmts, i) = {}
  BY <1>4 DEF EnteredIn, EnteredAfter
<1>6. ASSUME NEW i \in DOMAIN stmts
      PROVE  ItemOK(lists, begins, lps, stmts[i], KindAt(stmts, i + 1, next), EnteredAfter(stmts, i) \cup after)
  <2> DEFINE kind == KindAt(stmts, i + 1, next)
  <2>1. kind \notin {"Enter", "Arms"} /\ EndBefore(kind) = endOf(i)
    <3>1. CASE i = Len(stmts)
      <4>1. i + 1 \notin DOMAIN stmts
        BY <3>1, <1>3
      <4> QED
        BY <3>1, <4>1 DEF KindAt
    <3>2. CASE i # Len(stmts)
      <4>1. i + 1 \in DOMAIN stmts
        BY <3>2, <1>3
      <4>2. kind \in Statements
        BY <4>1, <1>4 DEF KindAt
      <4>3. kind \notin {"Enter", "Arms", "Close"}
        BY <4>2 DEF Statements
      <4> HIDE DEF kind
      <4> QED
        BY <3>2, <4>3 DEF EndBefore
    <3> QED
      BY <3>1, <3>2
  <2>2. EnteredAfter(stmts, i) \cup after = after
    BY <1>5
  <2>3. IsScopedStmt(lists, stmts[i], LoopsInto(lps, after), EndBefore(kind))
    BY <2>1, <1>2 DEF inside
  <2>4. stmts[i].stmt \in Statements
    BY <1>4
  <2> HIDE DEF kind
  <2>5. ItemOK(lists, begins, lps, stmts[i], kind, after)
    BY <2>1, <2>3, <2>4 DEF ItemOK
  <2> QED
    BY <2>2, <2>5 DEF kind
<1>7. KindAt(stmts, 1, next) \in Statements \cup {next}
  BY <1>4 DEF KindAt
<1> QED
  BY <1>2, <1>4, <1>5, <1>6, <1>7 DEF ItemsOK

\* Blocks that loops begin with are added, a loop is entered.
LEMMA ItemsKept ==
  ASSUME NEW lists, NEW begins, NEW lps, NEW u, NEW next, NEW after,
         ItemsOK(lists, begins, lps, u, next, after),
         NEW more, begins \subseteq more, NEW lps2,
         \A A \in SUBSET (EnteredIn(u) \cup after) : LoopsInto(lps2, A) = LoopsInto(lps, A),
         \A l \in DOMAIN lps2 : \/ l \in DOMAIN lps /\ lps2[l].end = lps[l].end
                                \/ lps2[l].end \notin EnteredIn(u)
  PROVE  ItemsOK(lists, more, lps2, u, next, after)
<1> SUFFICES ASSUME NEW i \in DOMAIN u
             PROVE  ItemOK(lists, more, lps2, u[i], KindAt(u, i + 1, next), EnteredAfter(u, i) \cup after)
  BY DEF ItemsOK
<1> DEFINE x == u[i]
           kind == KindAt(u, i + 1, next)
           A == EnteredAfter(u, i) \cup after
<1>1. ItemOK(lists, begins, lps, x, kind, A)
  BY DEF ItemsOK
<1>2. Entered(x) \subseteq EnteredIn(u) /\ LoopsInto(lps2, A) = LoopsInto(lps, A)
  BY EnteredByItem
<1>3. (\A l \in DOMAIN lps : lps[l].end \notin Entered(x)) => \A l \in DOMAIN lps2 : lps2[l].end \notin Entered(x)
  BY <1>2
<1> HIDE DEF x, kind, A
<1>4. ItemOK(lists, more, lps2, x, kind, A)
  BY <1>1, <1>2, <1>3 DEF ItemOK
<1> QED
  BY <1>4 DEF x, kind, A

LEMMA LoopsIntoMore ==
  ASSUME NEW lps, NEW A, NEW B, \A l \in DOMAIN lps : lps[l].end \notin B
  PROVE  LoopsInto(lps, B \cup A) = LoopsInto(lps, A)
BY DEF LoopsInto

-----------------------------------------------------------------------------
\* Circles of gotos.
\* What is finished jumps to what is not.
LEMMA NoCircleForward ==
  ASSUME NEW blocks, NEW done, NoCircle(blocks, done), NEW now, NEW more, done \subseteq more,
         \A i \in done : now[i].term = blocks[i].term,
         \A i \in more \ done : now[i].term.kind = "Goto" => now[i].term.targets[1] \notin more
  PROVE  NoCircle(now, more)
<1> SUFFICES ASSUME NEW circle \in (SUBSET more) \ {{}}
             PROVE  \E i \in circle : now[i].term.kind = "Goto" => now[i].term.targets[1] \notin circle
  BY DEF NoCircle
<1>1. CASE circle \subseteq done
  <2>1. PICK i \in circle : blocks[i].term.kind = "Goto" => blocks[i].term.targets[1] \notin circle
    BY <1>1 DEF NoCircle
  <2> QED
    BY <2>1, <1>1
<1>2. CASE ~ (circle \subseteq done)
  <2>1. PICK i \in circle : i \in more \ done
    BY <1>2
  <2> QED
    BY <2>1
<1> QED
  BY <1>1, <1>2

\* A block that is finished jumps to where a loop begins.
LEMMA NoCircleBack ==
  ASSUME NEW blocks, NEW done, NoCircle(blocks, done), NEW now, NEW i, i \notin done,
         \A j \in done : now[j].term = blocks[j].term,
         NEW begins, i \notin begins, \A j \in begins \cap done : blocks[j].term.kind # "Goto",
         now[i].term.targets[1] \in begins
  PROVE  NoCircle(now, done \cup {i})
<1> SUFFICES ASSUME NEW circle \in (SUBSET (done \cup {i})) \ {{}},
                    \A j \in circle : now[j].term.kind = "Goto" /\ now[j].term.targets[1] \in circle
             PROVE  FALSE
  BY DEF NoCircle
<1>1. CASE i \notin circle
  <2>1. circle \in (SUBSET done) \ {{}}
    BY <1>1
  <2> QED
    BY <2>1 DEF NoCircle
<1>2. CASE i \in circle
  <2> DEFINE m == now[i].term.targets[1]
  <2>1. m \in circle /\ m \in begins \cap done
    BY <1>2
  <2> QED
    BY <2>1
<1> QED
  BY <1>1, <1>2

-----------------------------------------------------------------------------
\* What the operations of the builder do.
LEMMA WithBlocks ==
  ASSUME NEW r, IsBuilder(r), NEW x
  PROVE  LET s == [r EXCEPT !.blocks = x]
         IN  /\ IsBuilder(s) /\ s.blocks = x /\ s.current = r.current
             /\ s.finalized = r.finalized /\ s.ok = r.ok
<1> DEFINE blocks == r.blocks
           current == r.current
           finalized == r.finalized
           ok == r.ok
           s == [[blocks |-> blocks, current |-> current, finalized |-> finalized, ok |-> ok]
                   EXCEPT !.blocks = x]
<1>1. [r EXCEPT !.blocks = x] = s
  BY DEF IsBuilder
<1> HIDE DEF blocks, current, finalized, ok
<1>2. s = [blocks |-> x, current |-> current, finalized |-> finalized, ok |-> ok]
  OBVIOUS
<1>3. /\ IsBuilder(s) /\ s.blocks = x /\ s.current = current
      /\ s.finalized = finalized /\ s.ok = ok
  BY <1>2 DEF IsBuilder
<1> QED
  BY <1>1, <1>3 DEF current, finalized, ok

LEMMA WithFinalized ==
  ASSUME NEW r, IsBuilder(r), NEW x
  PROVE  LET s == [r EXCEPT !.finalized = x]
         IN  /\ IsBuilder(s) /\ s.blocks = r.blocks /\ s.current = r.current
             /\ s.finalized = x /\ s.ok = r.ok
<1> DEFINE blocks == r.blocks
           current == r.current
           finalized == r.finalized
           ok == r.ok
           s == [[blocks |-> blocks, current |-> current, finalized |-> finalized, ok |-> ok]
                   EXCEPT !.finalized = x]
<1>1. [r EXCEPT !.finalized = x] = s
  BY DEF IsBuilder
<1> HIDE DEF blocks, current, finalized, ok
<1>2. s = [blocks |-> blocks, current |-> current, finalized |-> x, ok |-> ok]
  OBVIOUS
<1>3. /\ IsBuilder(s) /\ s.blocks = blocks /\ s.current = current
      /\ s.finalized = x /\ s.ok = ok
  BY <1>2 DEF IsBuilder
<1> QED
  BY <1>1, <1>3 DEF current, blocks, ok

\* A builder with n more blocks.
Allocates(r, s, n) ==
  /\ IsBuilder(s) /\ s.current = r.current /\ s.ok = r.ok
  /\ IsVec(s.blocks) /\ Len(s.blocks) = Len(r.blocks) + n
  /\ \A i \in 1 .. Len(r.blocks) : s.blocks[i] = r.blocks[i]

LEMMA Allocated ==
  ASSUME NEW r, IsBuilder(r), IsVec(r.blocks), NEW n \in Nat
  PROVE  LET s == NewBlocks(r, n)
         IN  /\ Allocates(r, s, n)
             /\ s.finalized = r.finalized
             /\ \A i \in 1 .. n : s.blocks[Len(r.blocks) + i] = EmptyBlock
<1> DEFINE more == [i \in 1 .. n |-> EmptyBlock]
           blocks == r.blocks \o more
           s == NewBlocks(r, n)
<1>1. more \in [1 .. n -> {EmptyBlock}] /\ \A i \in 1 .. n : more[i] = EmptyBlock
  OBVIOUS
<1> HIDE DEF more
<1>2. IsVec(more) /\ Len(more) = n
  BY <1>1, FunctionIsVec
<1>3. /\ IsVec(blocks) /\ Len(blocks) = Len(r.blocks) + Len(more)
      /\ \A i \in 1 .. Len(r.blocks) : blocks[i] = r.blocks[i]
      /\ \A i \in 1 .. Len(more) : blocks[Len(r.blocks) + i] = more[i]
  BY <1>2, ConcatVec
<1>4. s = [r EXCEPT !.blocks = blocks]
  BY DEF NewBlocks, more
<1> HIDE DEF blocks, s
<1>5. IsBuilder(s) /\ s.blocks = blocks /\ s.current = r.current /\ s.finalized = r.finalized /\ s.ok = r.ok
  BY <1>4, WithBlocks
<1>6. \A i \in 1 .. n : s.blocks[Len(r.blocks) + i] = EmptyBlock
  BY <1>1, <1>2, <1>3, <1>5
<1>7. Allocates(r, s, n)
  BY <1>2, <1>3, <1>5 DEF Allocates
<1> QED
  BY <1>5, <1>6, <1>7 DEF s

LEMMA EndsAllocated ==
  ASSUME NEW r, IsBuilder(r), IsVec(r.blocks), NEW terms, IsVec(terms)
  PROVE  LET s == NewEnds(r, terms)
             n == Len(terms)
         IN  /\ Allocates(r, s, n)
             /\ s.finalized = r.finalized \cup {Len(r.blocks) + i : i \in 1 .. n}
             /\ \A i \in 1 .. n : s.blocks[Len(r.blocks) + i] = [stmts |-> <<>>, term |-> terms[i]]
<1> DEFINE n == Len(terms)
           jump(i) == [stmts |-> <<>>, term |-> terms[i]]
           more == [i \in 1 .. n |-> [EmptyBlock EXCEPT !.term = terms[i]]]
           blocks == r.blocks \o more
           done == r.finalized \cup {FreshBlock(r, i) : i \in 1 .. n}
           s == NewEnds(r, terms)
<1>1. n \in Nat
  BY VecProps
<1>2. \A t : [EmptyBlock EXCEPT !.term = t] = [stmts |-> <<>>, term |-> t]
  BY DEF EmptyBlock
<1>3. more \in [1 .. n -> {jump(i) : i \in 1 .. n}] /\ \A i \in 1 .. n : more[i] = jump(i)
  BY <1>2
<1> HIDE DEF more, n
<1>4. IsVec(more) /\ Len(more) = n
  BY <1>1, <1>3, FunctionIsVec
<1>5. /\ IsVec(blocks) /\ Len(blocks) = Len(r.blocks) + Len(more)
      /\ \A i \in 1 .. Len(r.blocks) : blocks[i] = r.blocks[i]
      /\ \A i \in 1 .. Len(more) : blocks[Len(r.blocks) + i] = more[i]
  BY <1>4, ConcatVec
<1> DEFINE m == [r EXCEPT !.blocks = blocks]
<1> HIDE DEF blocks
<1>6. IsBuilder(m) /\ m.blocks = blocks /\ m.current = r.current /\ m.finalized = r.finalized /\ m.ok = r.ok
  BY WithBlocks
<1>7. IsBuilder(s) /\ s.blocks = blocks /\ s.current = r.current /\ s.finalized = done /\ s.ok = r.ok
  <2>1. s = [m EXCEPT !.finalized = m.finalized \cup {FreshBlock(r, i) : i \in 1 .. n}]
    BY DEF NewEnds, more, n, blocks, m
  <2>2. s = [m EXCEPT !.finalized = done]
    BY <2>1, <1>6
  <2> HIDE DEF m, s, done
  <2>3. /\ IsBuilder(s) /\ s.blocks = m.blocks /\ s.current = m.current
        /\ s.finalized = done /\ s.ok = m.ok
    BY <2>2, <1>6, WithFinalized
  <2> QED
    BY <2>3, <1>6
<1> HIDE DEF done, s
<1>8. done = r.finalized \cup {Len(r.blocks) + i : i \in 1 .. n}
  BY DEF done, FreshBlock
<1>9. \A i \in 1 .. n : s.blocks[Len(r.blocks) + i] = jump(i)
  BY <1>3, <1>4, <1>5, <1>7
<1>10. Allocates(r, s, n)
  BY <1>4, <1>5, <1>7 DEF Allocates
<1> QED
  BY <1>7, <1>8, <1>9, <1>10 DEF s, n

-----------------------------------------------------------------------------
\* What has been written stays so.
LEMMA WrittenProps ==
  ASSUME NEW r, NEW begins, NEW pending, Written(r, begins, pending)
  PROVE  /\ IsBuilder(r) /\ r.ok /\ IsVec(r.blocks)
         /\ Len(r.blocks) \in Nat \ {0} /\ DOMAIN r.blocks = 1 .. Len(r.blocks)
         /\ r.current \in 1 .. Len(r.blocks)
         /\ r.finalized \subseteq 1 .. Len(r.blocks)
         /\ begins \subseteq 2 .. Len(r.blocks)
         /\ pending \subseteq 2 .. Len(r.blocks)
         /\ pending \cap (r.finalized \cup begins \cup {r.current}) = {}
         /\ IsBlock(r.blocks[r.current], Len(r.blocks))
<1>1. BlocksOK(r) /\ IsVec(r.blocks)
  BY DEF Written, BlocksOK
<1>2. Len(r.blocks) \in Nat /\ DOMAIN r.blocks = 1 .. Len(r.blocks)
  BY <1>1, VecProps
<1>3. EntryBlock \in 1 .. Len(r.blocks) /\ r.current \in 1 .. Len(r.blocks) /\ r.finalized \subseteq 1 .. Len(r.blocks)
  BY <1>1, <1>2 DEF BlocksOK
<1>4. \A x \in 1 .. Len(r.blocks) : x # EntryBlock => x \in 2 .. Len(r.blocks)
  BY <1>2 DEF EntryBlock
<1>5. begins \subseteq 2 .. Len(r.blocks) /\ pending \subseteq 2 .. Len(r.blocks)
  <2>1. begins \cup pending \subseteq DOMAIN r.blocks \ {EntryBlock}
    BY DEF Written, BeginsOK, PendingOK
  <2> QED
    BY <2>1, <1>2, <1>4
<1>6. pending \cap (r.finalized \cup begins \cup {r.current}) = {}
  BY DEF Written, PendingOK
<1>7. IsBlock(r.blocks[r.current], Len(r.blocks))
  <2> DEFINE block == r.blocks[r.current]
  <2>1. BlockOK(r.blocks, block)
    BY <1>1 DEF BlocksOK
  <2> HIDE DEF block
  <2>2. IsVec(block.term.targets) /\ ToSet(block.term.targets) \subseteq 1 .. Len(r.blocks)
    BY <2>1, <1>2 DEF BlockOK, TermOK
  <2>3. block.term.kind = "Goto" => block.term.targets[1] \in 1 .. Len(r.blocks)
    <3>1. Len(block.term.targets) = 1 => block.term.targets[1] \in ToSet(block.term.targets)
      BY <2>2, VecProps
    <3> QED
      BY <2>1, <2>2, <3>1 DEF BlockOK, TermOK
  <2> QED
    BY <2>1, <2>3 DEF BlockOK, IsBlock, block
<1>8. Len(r.blocks) # 0
  BY <1>2, <1>3
<1> QED
  BY <1>1, <1>2, <1>3, <1>5, <1>6, <1>7, <1>8 DEF BlocksOK

LEMMA BlockStaysOK ==
  ASSUME NEW blocks, NEW now, DOMAIN blocks \subseteq DOMAIN now, NEW block, BlockOK(blocks, block)
  PROVE  BlockOK(now, block)
BY DEF BlockOK, TermOK

\* New blocks, some of them jumps to what is not finished.
LEMMA WrittenMore ==
  ASSUME NEW r, NEW begins, NEW pending, Written(r, begins, pending),
         NEW n \in Nat, NEW s, Allocates(r, s, n),
         NEW done, done \subseteq (Len(r.blocks) + 1) .. (Len(r.blocks) + n),
         s.finalized = r.finalized \cup done,
         \A i \in 1 .. n : BlockOK(s.blocks, s.blocks[Len(r.blocks) + i]),
         \A i \in done : s.blocks[i].term.kind = "Goto" =>
           s.blocks[i].term.targets[1] \notin r.finalized \cup done
  PROVE  /\ Written(s, begins, pending \cup (((Len(r.blocks) + 1) .. (Len(r.blocks) + n)) \ done))
         /\ s.current = r.current
         /\ Len(s.blocks) = Len(r.blocks) + n
<1> DEFINE l == Len(r.blocks)
           fresh == (l + 1) .. (l + n)
<1>1. /\ l \in Nat \ {0} /\ DOMAIN r.blocks = 1 .. l
      /\ r.current \in 1 .. l /\ r.finalized \subseteq 1 .. l /\ begins \subseteq 2 .. l /\ pending \subseteq 2 .. l
      /\ pending \cap (r.finalized \cup begins \cup {r.current}) = {}
      /\ r.ok
  BY WrittenProps
<1>2. /\ IsBuilder(s) /\ s.current = r.current /\ s.ok
      /\ IsVec(s.blocks) /\ Len(s.blocks) = l + n
      /\ \A i \in 1 .. l : s.blocks[i] = r.blocks[i]
  BY <1>1 DEF Allocates
<1>3. DOMAIN s.blocks = 1 .. (l + n)
  BY <1>2, VecProps
<1>4. \A i \in 1 .. n : BlockOK(s.blocks, s.blocks[l + i])
  OBVIOUS
<1> HIDE DEF l
<1>5. 1 .. (l + n) = 1 .. l \cup fresh /\ 1 .. l \cap fresh = {} /\ EntryBlock \in 1 .. l
  BY <1>1 DEF EntryBlock
<1>6. ASSUME NEW i \in DOMAIN s.blocks PROVE BlockOK(s.blocks, s.blocks[i])
  <2>1. CASE i \in 1 .. l
    <3>1. BlockOK(r.blocks, r.blocks[i])
      BY <2>1, <1>1 DEF Written, BlocksOK
    <3>2. DOMAIN r.blocks \subseteq DOMAIN s.blocks
      BY <1>1, <1>3, <1>5
    <3>3. BlockOK(s.blocks, r.blocks[i])
      BY <3>1, <3>2, BlockStaysOK
    <3> QED
      BY <2>1, <3>3, <1>2
  <2>2. CASE i \in fresh
    <3>1. i - l \in 1 .. n /\ l + (i - l) = i
      BY <2>2, <1>1
    <3> QED
      BY <3>1, <1>4
  <2> QED
    BY <2>1, <2>2, <1>3, <1>5
<1>7. BlocksOK(s)
  <2>1. s.finalized \subseteq DOMAIN s.blocks
    BY <1>1, <1>3, <1>5 DEF l
  <2> QED
    BY <2>1, <1>1, <1>2, <1>3, <1>5, <1>6 DEF BlocksOK
<1>8. NoCircle(s.blocks, s.finalized)
  <2>1. NoCircle(r.blocks, r.finalized)
    BY DEF Written
  <2>2. \A i \in r.finalized : s.blocks[i].term = r.blocks[i].term
    BY <1>1, <1>2
  <2>3. \A i \in s.finalized \ r.finalized :
          s.blocks[i].term.kind = "Goto" => s.blocks[i].term.targets[1] \notin s.finalized
    OBVIOUS
  <2>4. r.finalized \subseteq s.finalized
    OBVIOUS
  <2> QED
    BY <2>1, <2>2, <2>3, <2>4, NoCircleForward
<1>9. BeginsOK(s, begins)
  <2>1. begins \cap s.finalized = begins \cap r.finalized
    <3>1. done \subseteq fresh /\ begins \subseteq 1 .. l
      BY <1>1 DEF l
    <3> HIDE DEF fresh
    <3> QED
      BY <3>1, <1>5
  <2>2. \A i \in begins : s.blocks[i] = r.blocks[i]
    BY <1>1, <1>2
  <2>3. begins \subseteq DOMAIN s.blocks \ {EntryBlock}
    BY <1>1, <1>3 DEF EntryBlock
  <2> QED
    BY <2>1, <2>2, <2>3 DEF Written, BeginsOK
<1>10. PendingOK(s, begins, pending \cup (fresh \ done))
  <2>1. done \subseteq fresh
    BY DEF l
  <2>2. DOMAIN r.blocks \subseteq r.finalized \cup pending \cup {r.current}
    BY DEF Written, PendingOK
  <2>3. EntryBlock \notin pending /\ pending \subseteq 1 .. l
    BY <1>1 DEF EntryBlock
  <2>4. pending \cup (fresh \ done) \subseteq DOMAIN s.blocks \ (s.finalized \cup begins \cup {s.current, EntryBlock})
    <3> HIDE DEF fresh
    <3>1. begins \subseteq 1 .. l
      BY <1>1
    <3> QED
      BY <2>1, <2>3, <3>1, <1>1, <1>2, <1>3, <1>5
  <2>5. DOMAIN s.blocks \subseteq s.finalized \cup (pending \cup (fresh \ done)) \cup {s.current}
    <3> HIDE DEF fresh
    <3> QED
      BY <2>1, <2>2, <1>1, <1>2, <1>3, <1>5
  <2> QED
    BY <2>4, <2>5 DEF PendingOK
<1> QED
  BY <1>2, <1>7, <1>8, <1>9, <1>10 DEF Written, l

LEMMA WrittenNew ==
  ASSUME NEW r, NEW begins, NEW pending, Written(r, begins, pending), NEW n \in Nat
  PROVE  LET s == NewBlocks(r, n)
         IN  /\ Written(s, begins, pending \cup ((Len(r.blocks) + 1) .. (Len(r.blocks) + n)))
             /\ s.current = r.current /\ s.finalized = r.finalized
             /\ Len(s.blocks) = Len(r.blocks) + n
<1> DEFINE s == NewBlocks(r, n)
           l == Len(r.blocks)
<1>1. IsBuilder(r) /\ IsVec(r.blocks)
  BY WrittenProps
<1>2. Allocates(r, s, n) /\ s.finalized = r.finalized /\ \A i \in 1 .. n : s.blocks[l + i] = EmptyBlock
  BY <1>1, Allocated
<1>3. \A blocks : BlockOK(blocks, EmptyBlock)
  <2>1. ToSet(<<>>) = {}
    BY DEF ToSet
  <2> QED
    BY <2>1, EmptyIsVec DEF BlockOK, TermOK, EmptyBlock, Diverge, Terminator
<1> HIDE DEF s
<1>4. \A i \in 1 .. n : BlockOK(s.blocks, s.blocks[l + i])
  BY <1>2, <1>3
<1>5. ASSUME NEW done, done = {}
      PROVE  /\ Written(s, begins, pending \cup (((l + 1) .. (l + n)) \ done))
             /\ s.current = r.current
             /\ Len(s.blocks) = l + n
  <2>1. s.finalized = r.finalized \cup done /\ done \subseteq (l + 1) .. (l + n)
    BY <1>2, <1>5
  <2>2. \A i \in done : s.blocks[i].term.kind = "Goto" => s.blocks[i].term.targets[1] \notin r.finalized \cup done
    BY <1>5
  <2> QED
    BY <2>1, <2>2, <1>2, <1>4, WrittenMore
<1>6. ((l + 1) .. (l + n)) \ {} = (l + 1) .. (l + n)
  OBVIOUS
<1> QED
  BY <1>2, <1>5, <1>6 DEF s

\* The current block is written in place.
LEMMA BlocksKept ==
  ASSUME NEW r, BlocksOK(r), NEW s, NEW n, WritesInPlace(r, s, n),
         BlockOK(r.blocks, s.blocks[r.current]), s.finalized \subseteq DOMAIN r.blocks
  PROVE  BlocksOK(s) /\ DOMAIN s.blocks = DOMAIN r.blocks /\ Len(s.blocks) = Len(r.blocks)
<1>1. /\ IsBuilder(s) /\ s.current = r.current /\ s.ok
      /\ IsVec(s.blocks) /\ Len(s.blocks) = Len(r.blocks)
      /\ \A i \in 1 .. Len(r.blocks) : i # r.current => s.blocks[i] = r.blocks[i]
  BY DEF WritesInPlace, BlocksOK
<1>2. DOMAIN s.blocks = DOMAIN r.blocks /\ DOMAIN r.blocks = 1 .. Len(r.blocks)
  BY <1>1, VecProps DEF BlocksOK
<1>3. ASSUME NEW i \in DOMAIN s.blocks PROVE BlockOK(s.blocks, s.blocks[i])
  <2>1. BlockOK(r.blocks, s.blocks[i])
    BY <1>1, <1>2 DEF BlocksOK
  <2> QED
    BY <2>1, <1>2, BlockStaysOK
<1> QED
  BY <1>1, <1>2, <1>3 DEF BlocksOK

LEMMA WrittenEmit ==
  ASSUME NEW r, NEW begins, NEW pending, Written(r, begins, pending), ~ IsTerminated(r),
         NEW x, StmtOK(x)
  PROVE  LET s == EmitAll(r, <<x>>)
         IN  /\ Written(s, begins, pending)
             /\ s.current = r.current /\ s.finalized = r.finalized
             /\ Len(s.blocks) = Len(r.blocks)
<1> DEFINE s == EmitAll(r, <<x>>)
           n == Len(r.blocks)
           old == r.blocks[r.current]
           new == s.blocks[r.current]
<1>1. /\ IsBuilder(r) /\ IsVec(r.blocks) /\ r.current \in 1 .. n /\ DOMAIN r.blocks = 1 .. n
      /\ r.finalized \subseteq 1 .. n /\ IsBlock(old, n) /\ begins \subseteq 2 .. n
      /\ r.current \notin r.finalized
  BY WrittenProps DEF IsTerminated
<1>2. WritesInPlace(r, s, n) /\ EmitsOne(r, s, x)
  BY <1>1, Emitted
<1> HIDE DEF s
<1>3. /\ s.finalized = r.finalized /\ s.current = r.current
      /\ new = [stmts |-> new.stmts, term |-> new.term] /\ IsVec(new.stmts)
      /\ new.term = old.term
      /\ Len(new.stmts) = Len(old.stmts) + 1
      /\ \A i \in 1 .. Len(old.stmts) : new.stmts[i] = old.stmts[i]
      /\ new.stmts[Len(old.stmts) + 1] = x
  BY <1>2 DEF WritesInPlace, EmitsOne, IsBlock
<1>4. \A i \in 1 .. n : s.blocks[i].term = r.blocks[i].term
  BY <1>2, <1>3 DEF WritesInPlace
<1>5. BlockOK(r.blocks, old)
  BY <1>1 DEF Written, BlocksOK
<1>6. BlockOK(r.blocks, new)
  <2> HIDE DEF old, new
  <2>1. IsVec(old.stmts) /\ \A stmt \in ToSet(old.stmts) : StmtOK(stmt)
    BY <1>5 DEF BlockOK
  <2>2. Len(old.stmts) \in Nat /\ DOMAIN old.stmts = 1 .. Len(old.stmts) /\ DOMAIN new.stmts = 1 .. Len(new.stmts)
    BY <2>1, <1>3, VecProps
  <2>3. ASSUME NEW i \in DOMAIN new.stmts PROVE StmtOK(new.stmts[i])
    <3>1. CASE i <= Len(old.stmts)
      <4>1. i \in DOMAIN old.stmts /\ new.stmts[i] = old.stmts[i]
        BY <3>1, <2>2, <1>3
      <4> QED
        BY <4>1, <2>1 DEF ToSet
    <3>2. CASE ~ (i <= Len(old.stmts))
      <4>1. i = Len(old.stmts) + 1
        BY <3>2, <2>2, <1>3
      <4> QED
        BY <4>1, <1>3
    <3> QED
      BY <3>1, <3>2
  <2>4. \A stmt \in ToSet(new.stmts) : StmtOK(stmt)
    BY <2>3 DEF ToSet
  <2> QED
    BY <2>4, <1>3, <1>5 DEF BlockOK
<1>7. BlocksOK(s) /\ DOMAIN s.blocks = DOMAIN r.blocks /\ Len(s.blocks) = n
  <2>1. BlocksOK(r)
    BY DEF Written
  <2> QED
    BY <2>1, <1>1, <1>2, <1>3, <1>6, BlocksKept
<1>8. NoCircle(s.blocks, s.finalized)
  <2>1. NoCircle(r.blocks, r.finalized)
    BY DEF Written
  <2>2. \A i \in r.finalized : s.blocks[i].term = r.blocks[i].term
    BY <1>1, <1>4
  <2> QED
    BY <2>1, <2>2, <1>3, NoCircleForward, SMTT(30)
<1>9. BeginsOK(s, begins)
  <2>1. begins \subseteq 1 .. n
    BY <1>1
  <2> QED
    BY <2>1, <1>3, <1>4, <1>7 DEF Written, BeginsOK
<1>10. PendingOK(s, begins, pending)
  BY <1>3, <1>7 DEF Written, PendingOK
<1> QED
  BY <1>3, <1>7, <1>8, <1>9, <1>10 DEF Written, s

\* A jump goes to where a loop begins or where something is still to be written.
LEMMA TerminatedBlocks ==
  ASSUME NEW r, NEW begins, NEW pending, Written(r, begins, pending), ~ IsTerminated(r),
         NEW term, TermOK(r.blocks, term)
  PROVE  LET s == Terminate(r, term)
         IN  /\ BlocksOK(s)
             /\ s.current = r.current /\ s.finalized = r.finalized \cup {r.current}
             /\ DOMAIN s.blocks = DOMAIN r.blocks /\ Len(s.blocks) = Len(r.blocks)
             /\ s.blocks[r.current].term = term
             /\ \A i \in DOMAIN r.blocks : i # r.current => s.blocks[i] = r.blocks[i]
<1> DEFINE s == Terminate(r, term)
           n == Len(r.blocks)
           old == r.blocks[r.current]
           new == s.blocks[r.current]
<1>1. /\ IsBuilder(r) /\ IsVec(r.blocks) /\ r.current \in 1 .. n /\ DOMAIN r.blocks = 1 .. n
      /\ r.finalized \subseteq 1 .. n /\ IsBlock(old, n)
      /\ r.current \notin r.finalized
  BY WrittenProps DEF IsTerminated
<1>2. term.kind = "Goto" => term.targets[1] \in 1 .. n
  <2>1. IsVec(term.targets) /\ ToSet(term.targets) \subseteq 1 .. n
    BY <1>1 DEF TermOK
  <2>2. Len(term.targets) = 1 => term.targets[1] \in ToSet(term.targets)
    BY <2>1, VecProps
  <2> QED
    BY <2>1, <2>2 DEF TermOK
<1>3. WritesInPlace(r, s, n) /\ EndsBlock(r, s, term)
  BY <1>1, <1>2, Terminated
<1> HIDE DEF s
<1>4. /\ s.finalized = r.finalized \cup {r.current} /\ s.current = r.current
      /\ new = [stmts |-> new.stmts, term |-> new.term]
      /\ new.stmts = old.stmts /\ new.term = term
      /\ \A i \in DOMAIN r.blocks : i # r.current => s.blocks[i] = r.blocks[i]
  BY <1>1, <1>3 DEF WritesInPlace, EndsBlock, IsBlock
<1>5. BlockOK(r.blocks, old) /\ BlocksOK(r)
  BY <1>1 DEF Written, BlocksOK
<1>6. BlockOK(r.blocks, new)
  BY <1>4, <1>5 DEF BlockOK
<1>7. s.finalized \subseteq DOMAIN r.blocks
  BY <1>1, <1>4
<1>8. BlocksOK(s) /\ DOMAIN s.blocks = DOMAIN r.blocks /\ Len(s.blocks) = Len(r.blocks)
  BY <1>3, <1>5, <1>6, <1>7, BlocksKept
<1> QED
  BY <1>4, <1>8 DEF s

LEMMA WrittenTerm ==
  ASSUME NEW r, NEW begins, NEW pending, Written(r, begins, pending), ~ IsTerminated(r),
         NEW term, TermOK(r.blocks, term),
         term.kind = "Goto" => r.current \notin begins /\ term.targets[1] \in begins \cup pending
  PROVE  LET s == Terminate(r, term)
         IN  /\ Written(s, begins, pending)
             /\ s.current = r.current /\ s.finalized = r.finalized \cup {r.current}
             /\ Len(s.blocks) = Len(r.blocks)
<1> DEFINE s == Terminate(r, term)
           n == Len(r.blocks)
<1>1. /\ n \in Nat /\ DOMAIN r.blocks = 1 .. n /\ r.current \in 1 .. n
      /\ r.finalized \subseteq 1 .. n /\ begins \subseteq 2 .. n
      /\ pending \cap (r.finalized \cup begins \cup {r.current}) = {}
      /\ r.current \notin r.finalized
  BY WrittenProps DEF IsTerminated
<1>2. /\ BlocksOK(s)
      /\ s.current = r.current /\ s.finalized = r.finalized \cup {r.current}
      /\ DOMAIN s.blocks = DOMAIN r.blocks /\ Len(s.blocks) = Len(r.blocks)
      /\ s.blocks[r.current].term = term
      /\ \A i \in DOMAIN r.blocks : i # r.current => s.blocks[i] = r.blocks[i]
  BY TerminatedBlocks
<1> HIDE DEF s
<1>3. NoCircle(r.blocks, r.finalized) /\ \A i \in r.finalized : s.blocks[i].term = r.blocks[i].term
  BY <1>1, <1>2 DEF Written
<1>4. NoCircle(s.blocks, s.finalized)
  <2>1. CASE term.kind = "Goto" => term.targets[1] \notin s.finalized
    <3>1. \A i \in s.finalized \ r.finalized :
            s.blocks[i].term.kind = "Goto" => s.blocks[i].term.targets[1] \notin s.finalized
      BY <2>1, <1>2
    <3>2. r.finalized \subseteq s.finalized
      BY <1>2
    <3> QED
      BY <3>1, <3>2, <1>3, NoCircleForward
  <2>2. CASE ~ (term.kind = "Goto" => term.targets[1] \notin s.finalized)
    <3>1. term.targets[1] \in begins /\ r.current \notin begins
      BY <2>2, <1>1, <1>2
    <3>2. \A j \in begins \cap r.finalized : r.blocks[j].term.kind # "Goto"
      BY DEF Written, BeginsOK
    <3>3. s.blocks[r.current].term.targets[1] \in begins
      BY <3>1, <1>2
    <3>4. NoCircle(s.blocks, r.finalized \cup {r.current})
      BY <3>1, <3>2, <3>3, <1>1, <1>3, NoCircleBack
    <3> QED
      BY <3>4, <1>2
  <2> QED
    BY <2>1, <2>2
<1>5. BeginsOK(s, begins)
  <2>1. \A i \in begins : s.blocks[i].term.kind = "Goto" => s.blocks[i].term = r.blocks[i].term /\ i # r.current
    BY <1>1, <1>2
  <2>2. begins \subseteq DOMAIN s.blocks \ {EntryBlock}
    BY <1>2 DEF Written, BeginsOK
  <2>3. ASSUME NEW i \in begins \cap s.finalized, s.blocks[i].term.kind = "Goto"
        PROVE  FALSE
    <3>1. s.blocks[i].term = r.blocks[i].term /\ i \in r.finalized
      BY <2>1, <2>3, <1>2
    <3> QED
      BY <3>1, <2>3 DEF Written, BeginsOK
  <2> QED
    BY <2>2, <2>3 DEF BeginsOK
<1>6. PendingOK(s, begins, pending)
  BY <1>2 DEF Written, PendingOK
<1> QED
  BY <1>2, <1>4, <1>5, <1>6 DEF Written, s

\* The builder goes on with a block that is still to be written.
LEMMA WrittenSwitch ==
  ASSUME NEW r, NEW begins, NEW pending, Written(r, begins, pending), IsTerminated(r),
         NEW c \in pending
  PROVE  LET s == SwitchToBlock(r, c)
         IN  /\ Written(s, begins, pending \ {c})
             /\ s.current = c /\ s.finalized = r.finalized /\ s.blocks = r.blocks
             /\ ~ IsTerminated(s) /\ c \notin begins
<1> DEFINE s == SwitchToBlock(r, c)
<1>1. /\ IsBuilder(r) /\ r.ok /\ c \in DOMAIN r.blocks /\ c # EntryBlock
      /\ c \notin r.finalized /\ c \notin begins
  BY DEF Written, PendingOK, BlocksOK
<1>2. IsBuilder(s) /\ s.blocks = r.blocks /\ s.current = c /\ s.finalized = r.finalized /\ s.ok = r.ok
  <2>1. s = [r EXCEPT !.current = c]
    BY <1>1 DEF SwitchToBlock
  <2> HIDE DEF s
  <2> QED
    BY <2>1, <1>1, BuilderChanged, ZenonT(60)
<1> HIDE DEF s
<1>3. BlocksOK(s)
  BY <1>1, <1>2 DEF Written, BlocksOK
<1>4. BeginsOK(s, begins)
  BY <1>2 DEF Written, BeginsOK
<1>5. PendingOK(s, begins, pending \ {c})
  <2>1. r.current \in r.finalized
    BY DEF IsTerminated
  <2> QED
    BY <2>1, <1>2 DEF Written, PendingOK
<1>6. ~ IsTerminated(s)
  BY <1>1, <1>2 DEF IsTerminated
<1> QED
  BY <1>1, <1>2, <1>3, <1>4, <1>5, <1>6 DEF Written, s

\* The builder ends its block with a jump into the block a loop begins with.
LEMMA WrittenInto ==
  ASSUME NEW r, NEW begins, NEW pending, Written(r, begins, pending), ~ IsTerminated(r),
         r.current \notin begins, NEW c \in pending
  PROVE  LET s == SwitchToBlock(Terminate(r, Goto(c)), c)
         IN  /\ Written(s, begins \cup {c}, pending \ {c})
             /\ s.current = c /\ Len(s.blocks) = Len(r.blocks)
             /\ ~ IsTerminated(s)
<1> DEFINE t == Terminate(r, Goto(c))
           s == SwitchToBlock(t, c)
           n == Len(r.blocks)
<1>1. /\ n \in Nat /\ DOMAIN r.blocks = 1 .. n /\ r.current \in 1 .. n
      /\ r.finalized \subseteq 1 .. n /\ begins \subseteq 2 .. n
      /\ c \in DOMAIN r.blocks /\ c # EntryBlock /\ c \notin r.finalized /\ c \notin begins /\ c # r.current
      /\ r.current \notin r.finalized
  BY WrittenProps DEF IsTerminated, Written, PendingOK
<1>2. /\ TermOK(r.blocks, Goto(c)) /\ Goto(c).kind = "Goto" /\ Goto(c).targets[1] = c
  <2>1. IsVec(<<c>>) /\ Len(<<c>>) = 1 /\ <<c>>[1] = c /\ DOMAIN <<c>> = {1}
    BY OneVec
  <2>2. ToSet(<<c>>) = {c}
    BY <2>1 DEF ToSet
  <2> QED
    BY <2>1, <2>2, <1>1, EmptyIsVec DEF TermOK, Goto, Terminator
<1>3. /\ BlocksOK(t)
      /\ t.current = r.current /\ t.finalized = r.finalized \cup {r.current}
      /\ DOMAIN t.blocks = DOMAIN r.blocks /\ Len(t.blocks) = Len(r.blocks)
      /\ t.blocks[r.current].term = Goto(c)
      /\ \A i \in DOMAIN r.blocks : i # r.current => t.blocks[i] = r.blocks[i]
  BY <1>2, TerminatedBlocks
<1>4. s = [t EXCEPT !.current = c]
  BY <1>1, <1>3 DEF SwitchToBlock
<1> HIDE DEF t
<1>5. IsBuilder(s) /\ s.blocks = t.blocks /\ s.current = c /\ s.finalized = t.finalized /\ s.ok = t.ok
  <2>1. IsBuilder(t)
    BY <1>3 DEF BlocksOK
  <2> HIDE DEF s
  <2> QED
    BY <2>1, <1>4, BuilderChanged
<1> HIDE DEF s
<1>6. BlocksOK(s)
  BY <1>1, <1>3, <1>5 DEF BlocksOK
<1>7. NoCircle(s.blocks, s.finalized)
  <2>1. NoCircle(r.blocks, r.finalized) /\ r.finalized \subseteq s.finalized
    BY <1>3, <1>5 DEF Written
  <2>2. \A i \in r.finalized : s.blocks[i].term = r.blocks[i].term
    BY <1>1, <1>3, <1>5
  <2>3. \A i \in s.finalized \ r.finalized :
          s.blocks[i].term.kind = "Goto" => s.blocks[i].term.targets[1] \notin s.finalized
    BY <1>1, <1>2, <1>3, <1>5
  <2> QED
    BY <2>1, <2>2, <2>3, NoCircleForward
<1>8. BeginsOK(s, begins \cup {c})
  <2>1. begins \cup {c} \subseteq DOMAIN s.blocks \ {EntryBlock}
    BY <1>1, <1>3, <1>5 DEF Written, BeginsOK
  <2>2. ASSUME NEW i \in (begins \cup {c}) \cap s.finalized, s.blocks[i].term.kind = "Goto"
        PROVE  FALSE
    <3>1. CASE i = r.current
      BY <3>1, <2>2, <1>1
    <3>2. CASE i # r.current
      <4>1. i \in begins \cap r.finalized /\ s.blocks[i] = r.blocks[i]
        BY <2>2, <3>2, <1>1, <1>3, <1>5
      <4> QED
        BY <4>1, <2>2 DEF Written, BeginsOK
    <3> QED
      BY <3>1, <3>2
  <2> QED
    BY <2>1, <2>2 DEF BeginsOK
<1>9. PendingOK(s, begins \cup {c}, pending \ {c})
  BY <1>3, <1>5 DEF Written, PendingOK
<1>10. ~ IsTerminated(s)
  BY <1>1, <1>3, <1>5 DEF IsTerminated
<1> QED
  BY <1>3, <1>5, <1>6, <1>7, <1>8, <1>9, <1>10 DEF Written, s, t

\* New blocks that jump, if they do, to blocks that are still to be written.
LEMMA WrittenEnds ==
  ASSUME NEW r, NEW begins, NEW pending, Written(r, begins, pending),
         NEW terms, IsVec(terms),
         \A i \in 1 .. Len(terms) : terms[i].kind = "Goto" => terms[i].targets[1] \in pending,
         \A blocks : DOMAIN blocks = 1 .. (Len(r.blocks) + Len(terms))
                       => \A i \in 1 .. Len(terms) : TermOK(blocks, terms[i])
  PROVE  LET s == NewEnds(r, terms)
         IN  /\ Written(s, begins, pending)
             /\ s.current = r.current
             /\ s.finalized = r.finalized \cup ((Len(r.blocks) + 1) .. (Len(r.blocks) + Len(terms)))
             /\ Len(s.blocks) = Len(r.blocks) + Len(terms)
<1> DEFINE s == NewEnds(r, terms)
           l == Len(r.blocks)
           n == Len(terms)
           done == (l + 1) .. (l + n)
<1>1. /\ IsBuilder(r) /\ IsVec(r.blocks) /\ l \in Nat /\ n \in Nat /\ r.finalized \subseteq 1 .. l
      /\ pending \subseteq 2 .. l /\ pending \cap r.finalized = {}
      /\ DOMAIN r.blocks = 1 .. l
  BY WrittenProps, VecProps
<1>2. /\ Allocates(r, s, n)
      /\ s.finalized = r.finalized \cup {l + i : i \in 1 .. n}
      /\ \A i \in 1 .. n : s.blocks[l + i] = [stmts |-> <<>>, term |-> terms[i]]
  BY <1>1, EndsAllocated
<1> HIDE DEF s
<1>3. ASSUME NEW i \in 1 .. n
      PROVE  /\ s.blocks[l + i].term.kind = "Goto" => s.blocks[l + i].term.targets[1] \in pending
             /\ BlockOK(s.blocks, s.blocks[l + i])
  <2> DEFINE x == terms[i]
             block == [stmts |-> <<>>, term |-> x]
  <2>1. TermOK(s.blocks, x)
    <3>1. IsVec(s.blocks) /\ Len(s.blocks) = l + n
      BY <1>2 DEF Allocates
    <3>2. DOMAIN s.blocks = 1 .. (l + n)
      BY <3>1, VecProps
    <3> QED
      BY <3>2
  <2>2. x.kind = "Goto" => x.targets[1] \in pending
    OBVIOUS
  <2> HIDE DEF x
  <2>3. block = [stmts |-> block.stmts, term |-> block.term] /\ block.stmts = <<>> /\ block.term = x
    OBVIOUS
  <2>4. s.blocks[l + i] = block
    BY <1>2 DEF x
  <2> HIDE DEF block
  <2>5. ToSet(<<>>) = {}
    BY DEF ToSet
  <2> QED
    BY <2>1, <2>2, <2>3, <2>4, <2>5, EmptyIsVec DEF BlockOK
<1>4. {l + i : i \in 1 .. n} = done
  <2> HIDE DEF l, n
  <2>1. \A x \in done : x - l \in 1 .. n /\ x = l + (x - l)
    BY <1>1
  <2>2. \A i \in 1 .. n : l + i \in done
    BY <1>1
  <2> QED
    BY <2>1, <2>2
<1>5. s.finalized = r.finalized \cup done
  BY <1>2, <1>4
<1>6. \A i \in done : s.blocks[i].term.kind = "Goto" => s.blocks[i].term.targets[1] \notin r.finalized \cup done
  <2> HIDE DEF l, n
  <2>1. \A x \in done : x - l \in 1 .. n /\ x = l + (x - l)
    BY <1>1
  <2>2. \A x \in done : s.blocks[x].term.kind = "Goto" => s.blocks[x].term.targets[1] \in pending
    BY <2>1, <1>3
  <2>3. pending \cap done = {}
    BY <1>1
  <2> QED
    BY <2>2, <2>3, <1>1
<1>7. \A i \in 1 .. n : BlockOK(s.blocks, s.blocks[l + i])
  BY <1>3
<1>8. ASSUME NEW d, d = done
      PROVE  /\ Written(s, begins, pending \cup (((l + 1) .. (l + n)) \ d))
             /\ s.current = r.current
             /\ Len(s.blocks) = l + n
  <2>1. /\ s.finalized = r.finalized \cup d /\ d \subseteq (l + 1) .. (l + n)
        /\ \A i \in d : s.blocks[i].term.kind = "Goto" => s.blocks[i].term.targets[1] \notin r.finalized \cup d
    BY <1>5, <1>6, <1>8
  <2> HIDE DEF n, done
  <2> QED
    BY <2>1, <1>1, <1>2, <1>7, WrittenMore, ZenonT(60)
<1>9. pending \cup (done \ done) = pending
  OBVIOUS
<1> QED
  BY <1>5, <1>8, <1>9 DEF s

-----------------------------------------------------------------------------
\* What is to do, taken and given back.
LEMMA AssocVec ==
  ASSUME NEW u, NEW v, NEW w, IsVec(u), IsVec(v), IsVec(w)
  PROVE  (u \o v) \o w = u \o (v \o w)
<1> DEFINE S == ToSet(u) \cup ToSet(v) \cup ToSet(w)
<1>1. u \in Seq(S) /\ v \in Seq(S) /\ w \in Seq(S)
  BY InSeq
<1> HIDE DEF S
<1> QED
  BY <1>1, ConcatAssociative

LEMMA NothingBefore ==
  ASSUME NEW v, IsVec(v)
  PROVE  <<>> \o v = v
<1> DEFINE S == ToSet(v)
<1>1. v \in Seq(S)
  BY DEF IsVec
<1> HIDE DEF S
<1> QED
  BY <1>1, ConcatEmptySeq

LEMMA ConditionGoesOn ==
  ASSUME NEW u, IsVec(u), u # <<>>, IsCondition(u)
  PROVE  Head(u).stmt = "Decide" \/ (Head(u).stmt \in Straight /\ IsCondition(Tail(u)))
<1> DEFINE t == Tail(u)
<1>1. /\ IsVec(t) /\ Len(u) \in Nat \ {0} /\ Len(t) = Len(u) - 1 /\ Head(u) = u[1]
      /\ \A i \in 1 .. Len(t) : t[i] = u[i + 1]
  BY TailVec
<1>2. DOMAIN u = 1 .. Len(u) /\ DOMAIN t = 1 .. Len(t)
  BY <1>1, VecProps
<1>3. PICK k \in DOMAIN u : u[k].stmt = "Decide" /\ \A j \in 1 .. (k - 1) : u[j].stmt \in Straight
  BY DEF IsCondition
<1> HIDE DEF t
<1>4. CASE k = 1
  <2>1. Head(u) = u[k]
    BY <1>1, <1>4
  <2> QED
    BY <2>1, <1>3, Zenon
<1>5. CASE k # 1
  <2>1. k - 1 \in DOMAIN t /\ t[k - 1] = u[k] /\ 1 \in 1 .. (k - 1)
    <3>1. k - 1 \in 1 .. Len(t) /\ (k - 1) + 1 = k /\ 1 \in 1 .. (k - 1)
      BY <1>1, <1>2, <1>5
    <3> QED
      BY <3>1, <1>1, <1>2
  <2>2. ASSUME NEW j \in 1 .. ((k - 1) - 1) PROVE t[j].stmt \in Straight
    <3>1. j + 1 \in 1 .. (k - 1) /\ j \in 1 .. Len(t)
      BY <1>1, <1>2
    <3> QED
      BY <3>1, <1>1, <1>3
  <2> QED
    BY <2>1, <2>2, <1>1, <1>3 DEF IsCondition, t
<1> QED
  BY <1>4, <1>5

LEMMA ConditionBefore ==
  ASSUME NEW u, NEW v, IsVec(u), IsVec(v), \A i \in DOMAIN u : u[i].stmt \in Straight, IsCondition(v)
  PROVE  IsCondition(u \o v)
<1> DEFINE w == u \o v
<1>1. /\ IsVec(w) /\ Len(w) = Len(u) + Len(v)
      /\ \A i \in 1 .. Len(u) : w[i] = u[i]
      /\ \A i \in 1 .. Len(v) : w[Len(u) + i] = v[i]
  BY ConcatVec
<1>2. /\ Len(u) \in Nat /\ Len(v) \in Nat
      /\ DOMAIN u = 1 .. Len(u) /\ DOMAIN v = 1 .. Len(v) /\ DOMAIN w = 1 .. Len(w)
  BY <1>1, VecProps
<1>3. PICK k \in DOMAIN v : v[k].stmt = "Decide" /\ \A j \in 1 .. (k - 1) : v[j].stmt \in Straight
  BY DEF IsCondition
<1> HIDE DEF w
<1>4. Len(u) + k \in DOMAIN w /\ w[Len(u) + k].stmt = "Decide"
  BY <1>1, <1>2, <1>3
<1>5. ASSUME NEW j \in 1 .. (Len(u) + k - 1) PROVE w[j].stmt \in Straight
  <2>1. CASE j <= Len(u)
    BY <2>1, <1>1, <1>2
  <2>2. CASE ~ (j <= Len(u))
    <3>1. j - Len(u) \in 1 .. (k - 1) /\ j - Len(u) \in 1 .. Len(v) /\ Len(u) + (j - Len(u)) = j
      BY <2>2, <1>2
    <3>2. w[j] = v[j - Len(u)]
      BY <3>1, <1>1
    <3> QED
      BY <3>1, <3>2, <1>3
  <2> QED
    BY <2>1, <2>2
<1>6. IsCondition(w)
  BY <1>4, <1>5, SMTT(30) DEF IsCondition
<1> QED
  BY <1>6 DEF w

\* The thing to do and what comes after it.
Taken(lists, begins, lps, bl, u, x, next, after) ==
  LET t == Tail(u)
  IN  /\ x = Head(u) /\ next = KindAt(t, 1, "End") /\ after = EnteredIn(t)
      /\ ItemOK(lists, begins, lps, x, next, after)
      /\ ItemsOK(lists, begins, lps, t, "End", {})
      /\ Written(bl, begins, Entered(x) \cup after)
      /\ LoopsOK(lps, bl.blocks, begins)
      /\ IF IsTerminated(bl) THEN x.stmt \in {"Enter", "Arms", "Close"} ELSE x.stmt \notin {"Enter", "Arms"}
      /\ bl.current \in begins \ bl.finalized =>
           x.stmt = "Decide" \/ (x.stmt \in Straight /\ IsCondition(t))

LEMMA TakenProps ==
  ASSUME NEW lists, NEW begins, NEW lps, NEW bl, NEW u, LowerOK(lists, begins, lps, bl, u), u # <<>>
  PROVE  LET t == Tail(u)
         IN  Taken(lists, begins, lps, bl, u, Head(u), KindAt(t, 1, "End"), EnteredIn(t))
<1> DEFINE t == Tail(u)
           x == Head(u)
           next == KindAt(t, 1, "End")
           after == EnteredIn(t)
<1>1. /\ ItemOK(lists, begins, lps, x, next, after \cup {})
      /\ ItemsOK(lists, begins, lps, t, "End", {})
      /\ EnteredIn(u) = Entered(x) \cup after
      /\ KindAt(u, 1, "End") = x.stmt
  BY ItemsSplit DEF LowerOK
<1>2. after \cup {} = after
  OBVIOUS
<1>3. /\ Written(bl, begins, EnteredIn(u)) /\ LoopsOK(lps, bl.blocks, begins)
      /\ CurrentOK(bl, KindAt(u, 1, "End")) /\ ConditionOK(bl, begins, u) /\ IsVec(u)
  BY DEF LowerOK, ItemsOK
<1>4. 1 \in DOMAIN u /\ x = u[1]
  <2>1. Len(u) \in Nat \ {0} /\ Head(u) = u[1]
    BY <1>3, TailVec
  <2> QED
    BY <2>1, <1>3, VecProps
<1>5. x.stmt # "End"
  BY <1>1 DEF ItemOK, Statements
<1>6. bl.current \in begins \ bl.finalized => x.stmt = "Decide" \/ (x.stmt \in Straight /\ IsCondition(t))
  BY <1>3, ConditionGoesOn DEF ConditionOK
<1> HIDE DEF x, next, after, t
<1>7. IF IsTerminated(bl) THEN x.stmt \in {"Enter", "Arms", "Close"} ELSE x.stmt \notin {"Enter", "Arms"}
  BY <1>1, <1>3, <1>5 DEF CurrentOK
<1> QED
  BY <1>1, <1>2, <1>3, <1>6, <1>7 DEF Taken, x, next, after, t

\* Something to do first, and then the rest.
LEMMA GivesBack ==
  ASSUME NEW lists, NEW begins, NEW lps, NEW bl, NEW v, NEW t,
         ItemsOK(lists, begins, lps, v, KindAt(t, 1, "End"), EnteredIn(t)),
         ItemsOK(lists, begins, lps, t, "End", {}),
         Written(bl, begins, EnteredIn(v) \cup EnteredIn(t)),
         LoopsOK(lps, bl.blocks, begins),
         CurrentOK(bl, KindAt(v, 1, KindAt(t, 1, "End"))),
         ConditionOK(bl, begins, v \o t)
  PROVE  LowerOK(lists, begins, lps, bl, v \o t)
<1>1. IsVec(v) /\ IsVec(t)
  BY DEF ItemsOK
<1>2. EnteredIn(v \o t) = EnteredIn(v) \cup EnteredIn(t)
  BY <1>1, EnteredConcat
<1>3. KindAt(v \o t, 1, "End") = KindAt(v, 1, KindAt(t, 1, "End"))
  BY <1>1, KindConcat
<1>4. ItemsOK(lists, begins, lps, v \o t, "End", {})
  <2>1. EnteredIn(t) \cup {} = EnteredIn(t)
    OBVIOUS
  <2>2. ItemsOK(lists, begins, lps, v, KindAt(t, 1, "End"), EnteredIn(t) \cup {})
    BY <2>1
  <2> QED
    BY <2>2, ItemsConcat
<1> QED
  BY <1>2, <1>3, <1>4 DEF LowerOK

LEMMA GoesBack ==
  ASSUME NEW lists, NEW begins, NEW lps, NEW bl, NEW t,
         ItemsOK(lists, begins, lps, t, "End", {}),
         Written(bl, begins, EnteredIn(t)),
         LoopsOK(lps, bl.blocks, begins),
         CurrentOK(bl, KindAt(t, 1, "End")),
         ConditionOK(bl, begins, t)
  PROVE  LowerOK(lists, begins, lps, bl, <<>> \o t)
<1>1. <<>> \o t = t
  BY NothingBefore DEF ItemsOK
<1> QED
  BY <1>1 DEF LowerOK

LEMMA LoopsKept ==
  ASSUME NEW begins, NEW lps, NEW r, NEW s, NEW pending, NEW waiting, NEW more,
         LoopsOK(lps, r.blocks, begins),
         Written(r, begins, pending), Written(s, more, waiting), Len(s.blocks) >= Len(r.blocks)
  PROVE  LoopsOK(lps, s.blocks, begins)
<1>1. /\ DOMAIN r.blocks = 1 .. Len(r.blocks) /\ Len(r.blocks) \in Nat
      /\ DOMAIN s.blocks = 1 .. Len(s.blocks) /\ Len(s.blocks) \in Nat
  BY WrittenProps
<1>2. DOMAIN r.blocks \subseteq DOMAIN s.blocks
  BY <1>1
<1> QED
  BY <1>2 DEF LoopsOK

LEMMA LoopsSame ==
  ASSUME NEW begins, NEW lps, NEW r, NEW s, NEW pending, NEW waiting, LoopsOK(lps, r.blocks, begins),
         Written(r, begins, pending), Written(s, begins, waiting), Len(s.blocks) = Len(r.blocks)
  PROVE  LoopsOK(lps, s.blocks, begins)
<1>1. Len(r.blocks) \in Nat
  BY WrittenProps
<1>2. Len(s.blocks) >= Len(r.blocks)
  BY <1>1
<1> QED
  BY <1>2, LoopsKept

-----------------------------------------------------------------------------
\* Each step keeps what is written and what is to do in order.
LEMMA LowerOKProps ==
  ASSUME NEW lists, NEW begins, NEW lps, NEW bl, NEW u, LowerOK(lists, begins, lps, bl, u)
  PROVE  bl.ok
BY DEF LowerOK, Written, BlocksOK

LEMMA ActKeeps ==
  ASSUME NEW lists, NEW begins, NEW lps, NEW bl, NEW u, LowerOK(lists, begins, lps, bl, u),
         u # <<>>, Head(u).stmt = "Act"
  PROVE  LowerOK(lists, begins, lps, EmitAll(bl, <<Stmt(Head(u).label, <<>>)>>), <<>> \o Tail(u))
<1> DEFINE t == Tail(u)
           stmt == Stmt(Head(u).label, <<>>)
           s == EmitAll(bl, <<stmt>>)
<1>1. PICK x, next, after : Taken(lists, begins, lps, bl, u, x, next, after)
  BY TakenProps
<1>2. /\ ItemsOK(lists, begins, lps, t, "End", {}) /\ next = KindAt(t, 1, "End") /\ after = EnteredIn(t)
      /\ x = Head(u) /\ x.stmt = "Act"
  BY <1>1 DEF Taken
<1>3. ~ IsTerminated(bl) /\ Entered(x) = {} /\ next \notin {"Enter", "Arms"}
  BY <1>1, <1>2 DEF Taken, ItemOK, Entered
<1>4. Written(bl, begins, after) /\ LoopsOK(lps, bl.blocks, begins)
  <2>1. Entered(x) \cup after = after
    BY <1>3
  <2> QED
    BY <2>1, <1>1 DEF Taken
<1>5. StmtOK(stmt)
  BY EmptyIsVec DEF StmtOK, Stmt
<1> HIDE DEF stmt
<1>6. /\ Written(s, begins, after) /\ s.current = bl.current /\ s.finalized = bl.finalized
      /\ Len(s.blocks) = Len(bl.blocks)
  BY <1>3, <1>4, <1>5, WrittenEmit
<1>7. ConditionOK(s, begins, t)
  BY <1>1, <1>2, <1>6 DEF Taken, ConditionOK
<1>8. CurrentOK(s, next)
  BY <1>3, <1>6 DEF CurrentOK, IsTerminated
<1>9. LoopsOK(lps, s.blocks, begins)
  BY <1>4, <1>6, LoopsSame
<1> HIDE DEF s, t
<1>10. LowerOK(lists, begins, lps, s, <<>> \o t)
  BY <1>2, <1>6, <1>7, <1>8, <1>9, GoesBack
<1> QED
  BY <1>10 DEF s, t, stmt

LEMMA TakenStatement ==
  ASSUME NEW lists, NEW begins, NEW lps, NEW bl, NEW u, NEW x, NEW next, NEW after,
         Taken(lists, begins, lps, bl, u, x, next, after), x.stmt \in Statements
  PROVE  /\ ~ IsTerminated(bl) /\ next \notin {"Enter", "Arms"}
         /\ IsScopedStmt(lists, x, LoopsInto(lps, after), EndBefore(next))
         /\ Written(bl, begins, after) /\ LoopsOK(lps, bl.blocks, begins)
         /\ x.stmt \notin Straight => bl.current \notin begins
<1>1. x.stmt \notin {"Enter", "Arms", "Close", "Decide", "Unreachable"}
  BY DEF Statements
<1>2. Entered(x) \cup after = after
  BY <1>1 DEF Entered
<1>3. ~ IsTerminated(bl) /\ Written(bl, begins, after) /\ LoopsOK(lps, bl.blocks, begins)
  BY <1>1, <1>2 DEF Taken
<1>4. next \notin {"Enter", "Arms"} /\ IsScopedStmt(lists, x, LoopsInto(lps, after), EndBefore(next))
  <2>1. ItemOK(lists, begins, lps, x, next, after)
    BY DEF Taken
  <2> QED
    BY <2>1, <1>1 DEF ItemOK
<1>5. x.stmt \notin Straight => bl.current \notin begins
  <2>1. bl.current \in begins \ bl.finalized => x.stmt \in Straight
    BY <1>1 DEF Taken
  <2> QED
    BY <2>1, <1>3 DEF IsTerminated
<1> QED
  BY <1>3, <1>4, <1>5

LEMMA TermsOK ==
  ASSUME NEW blocks, NEW label, NEW c \in DOMAIN blocks \ {EntryBlock}
  PROVE  /\ TermOK(blocks, Goto(c)) /\ Goto(c).kind = "Goto" /\ Goto(c).targets[1] = c
         /\ TermOK(blocks, Call(label, c)) /\ Call(label, c).kind # "Goto"
<1>1. IsVec(<<c>>) /\ Len(<<c>>) = 1 /\ <<c>>[1] = c /\ ToSet(<<c>>) = {c}
  <2>1. IsVec(<<c>>) /\ Len(<<c>>) = 1 /\ <<c>>[1] = c /\ DOMAIN <<c>> = {1}
    BY OneVec
  <2> QED
    BY <2>1 DEF ToSet
<1>2. TermOK(blocks, Goto(c)) /\ Goto(c).kind = "Goto" /\ Goto(c).targets[1] = c
  BY <1>1, EmptyIsVec DEF TermOK, Goto, Terminator
<1>3. TermOK(blocks, Call(label, c)) /\ Call(label, c).kind # "Goto"
  BY <1>1, EmptyIsVec DEF TermOK, Call, Terminator
<1> QED
  BY <1>2, <1>3

\* A terminator with any targets.
LEMMA WaysOK ==
  ASSUME NEW blocks, NEW targets, IsVec(targets), ToSet(targets) \subseteq DOMAIN blocks \ {EntryBlock},
         NEW kind, kind # "Goto", NEW label
  PROVE  LET term == Terminator(kind, label, <<>>, targets)
         IN  TermOK(blocks, term) /\ term.kind # "Goto"
BY EmptyIsVec DEF TermOK, Terminator

LEMMA BranchOK ==
  ASSUME NEW blocks, NEW label, NEW c \in DOMAIN blocks \ {EntryBlock}, NEW d \in DOMAIN blocks \ {EntryBlock}
  PROVE  TermOK(blocks, Branch(label, c, d)) /\ Branch(label, c, d).kind # "Goto"
<1>1. <<c, d>> \in Seq({c, d})
  OBVIOUS
<1>2. IsVec(<<c, d>>)
  BY <1>1, FromSeq
<1>3. ToSet(<<c, d>>) = {c, d}
  BY DEF ToSet
<1> QED
  BY <1>2, <1>3, WaysOK DEF Branch

LEMMA EndsOK ==
  ASSUME NEW blocks, NEW label
  PROVE  /\ TermOK(blocks, Return(label)) /\ Return(label).kind # "Goto"
         /\ TermOK(blocks, Diverge) /\ Diverge.kind # "Goto"
<1>1. IsVec(<<>>) /\ ToSet(<<>>) = {}
  BY EmptyIsVec DEF ToSet
<1>2. TermOK(blocks, Return(label)) /\ Return(label).kind # "Goto"
  BY <1>1 DEF TermOK, Return, Terminator
<1>3. TermOK(blocks, Diverge) /\ Diverge.kind # "Goto"
  BY <1>1 DEF TermOK, Diverge, Terminator
<1> QED
  BY <1>2, <1>3

\* The block nothing jumps to, after a statement that does not go on.
LEMMA WrittenDead ==
  ASSUME NEW r, NEW begins, NEW pending, Written(r, begins, pending), IsTerminated(r)
  PROVE  LET s == DeadBlock(r)
         IN  /\ Written(s, begins, pending) /\ ~ IsTerminated(s) /\ s.current \notin begins
             /\ Len(s.blocks) = Len(r.blocks) + 1
<1> DEFINE l == Len(r.blocks)
           t == NewBlocks(r, 1)
           c == l + 1
           s == SwitchToBlock(t, c)
<1>1. l \in Nat /\ pending \subseteq 2 .. l
  BY WrittenProps
<1>2. (l + 1) .. (l + 1) = {c} /\ c \notin pending
  <2> HIDE DEF l
  <2> QED
    BY <1>1
<1>3. /\ Written(t, begins, pending \cup ((l + 1) .. (l + 1)))
      /\ t.current = r.current /\ t.finalized = r.finalized /\ Len(t.blocks) = l + 1
  BY WrittenNew
<1> HIDE DEF c, t
<1>4. Written(t, begins, pending \cup {c}) /\ IsTerminated(t)
  BY <1>2, <1>3 DEF IsTerminated
<1>5. /\ Written(s, begins, (pending \cup {c}) \ {c}) /\ s.current = c /\ s.blocks = t.blocks
      /\ ~ IsTerminated(s) /\ c \notin begins
  BY <1>4, WrittenSwitch
<1>6. (pending \cup {c}) \ {c} = pending
  BY <1>2
<1>7. DeadBlock(r) = s
  BY DEF DeadBlock, FreshBlock, t, c
<1> HIDE DEF s
<1> QED
  BY <1>3, <1>5, <1>6, <1>7

\* The builder has ended one block and is in another, where no loop begins.
LEMMA ElsewhereKeeps ==
  ASSUME NEW lists, NEW begins, NEW lps, NEW bl, NEW u, NEW x, NEW next, NEW after,
         Taken(lists, begins, lps, bl, u, x, next, after), x.stmt \in Statements,
         NEW s, Written(s, begins, after), ~ IsTerminated(s), s.current \notin begins,
         Len(s.blocks) >= Len(bl.blocks)
  PROVE  LowerOK(lists, begins, lps, s, <<>> \o Tail(u))
<1> DEFINE t == Tail(u)
<1>1. ItemsOK(lists, begins, lps, t, "End", {}) /\ next = KindAt(t, 1, "End") /\ after = EnteredIn(t)
  BY DEF Taken
<1>2. next \notin {"Enter", "Arms"} /\ Written(bl, begins, after) /\ LoopsOK(lps, bl.blocks, begins)
  BY TakenStatement
<1> HIDE DEF t
<1>3. LoopsOK(lps, s.blocks, begins)
  BY <1>2, LoopsKept
<1>4. CurrentOK(s, next) /\ ConditionOK(s, begins, t)
  BY <1>2 DEF CurrentOK, ConditionOK
<1>5. LowerOK(lists, begins, lps, s, <<>> \o t)
  BY <1>1, <1>3, <1>4, GoesBack
<1> QED
  BY <1>5 DEF t

LEMMA ReturnKeeps ==
  ASSUME NEW lists, NEW begins, NEW lps, NEW bl, NEW u, LowerOK(lists, begins, lps, bl, u),
         u # <<>>, Head(u).stmt = "Return"
  PROVE  LowerOK(lists, begins, lps, DeadBlock(Terminate(bl, Return(Head(u).label))), <<>> \o Tail(u))
<1> DEFINE term == Return(Head(u).label)
           r == Terminate(bl, term)
           s == DeadBlock(r)
<1>1. PICK x, next, after : Taken(lists, begins, lps, bl, u, x, next, after)
  BY TakenProps
<1>2. x.stmt \in Statements
  BY <1>1 DEF Taken, Statements
<1>3. ~ IsTerminated(bl) /\ Written(bl, begins, after)
  BY <1>1, <1>2, TakenStatement
<1>4. TermOK(bl.blocks, term) /\ term.kind # "Goto"
  BY EndsOK
<1> HIDE DEF term
<1>5. /\ Written(r, begins, after) /\ r.current = bl.current
      /\ r.finalized = bl.finalized \cup {bl.current} /\ Len(r.blocks) = Len(bl.blocks)
  BY <1>3, <1>4, WrittenTerm
<1> HIDE DEF r
<1>6. IsTerminated(r)
  BY <1>5 DEF IsTerminated
<1>7. Written(s, begins, after) /\ ~ IsTerminated(s) /\ s.current \notin begins /\ Len(s.blocks) = Len(r.blocks) + 1
  BY <1>5, <1>6, WrittenDead
<1>8. Len(bl.blocks) \in Nat
  BY <1>3, WrittenProps
<1> HIDE DEF s
<1>9. LowerOK(lists, begins, lps, s, <<>> \o Tail(u))
  BY <1>1, <1>2, <1>5, <1>7, <1>8, ElsewhereKeeps
<1> QED
  BY <1>9 DEF s, r, term

\* What follows a call goes into a block of its own.
LEMMA WrittenCall ==
  ASSUME NEW bl, NEW begins, NEW pending, Written(bl, begins, pending), ~ IsTerminated(bl), NEW label
  PROVE  LET next == FreshBlock(bl, 1)
             there == SwitchToBlock(Terminate(NewBlocks(bl, 1), Call(label, next)), next)
         IN  /\ Written(there, begins, pending) /\ ~ IsTerminated(there) /\ there.current \notin begins
             /\ Len(there.blocks) = Len(bl.blocks) + 1
<1> DEFINE l == Len(bl.blocks)
           c == FreshBlock(bl, 1)
           r == NewBlocks(bl, 1)
           term == Call(label, c)
           called == Terminate(r, term)
           there == SwitchToBlock(called, c)
<1>1. l \in Nat /\ pending \subseteq 2 .. l /\ c = l + 1
  BY WrittenProps DEF FreshBlock
<1>2. (l + 1) .. (l + 1) = {c} /\ (pending \cup {c}) \ {c} = pending
  <2> HIDE DEF l, c
  <2> QED
    BY <1>1
<1>3. /\ Written(r, begins, pending \cup ((l + 1) .. (l + 1)))
      /\ r.current = bl.current /\ r.finalized = bl.finalized /\ Len(r.blocks) = l + 1
  BY WrittenNew
<1> HIDE DEF c, r
<1>4. Written(r, begins, pending \cup {c}) /\ ~ IsTerminated(r)
  BY <1>2, <1>3 DEF IsTerminated
<1>5. c \in DOMAIN r.blocks \ {EntryBlock} /\ c \notin begins
  BY <1>4 DEF Written, PendingOK
<1>6. TermOK(r.blocks, term) /\ term.kind # "Goto"
  BY <1>5, TermsOK
<1> HIDE DEF term
<1>7. /\ Written(called, begins, pending \cup {c}) /\ called.current = r.current
      /\ called.finalized = r.finalized \cup {r.current} /\ Len(called.blocks) = Len(r.blocks)
  BY <1>4, <1>6, WrittenTerm
<1> HIDE DEF called
<1>8. IsTerminated(called) /\ c \in pending \cup {c}
  BY <1>7 DEF IsTerminated
<1>9. /\ Written(there, begins, (pending \cup {c}) \ {c})
      /\ there.current = c /\ there.finalized = called.finalized /\ there.blocks = called.blocks
      /\ ~ IsTerminated(there) /\ c \notin begins
  BY <1>7, <1>8, WrittenSwitch
<1> HIDE DEF there
<1>10. Written(there, begins, pending) /\ Len(there.blocks) = l + 1
  BY <1>2, <1>3, <1>7, <1>9
<1> QED
  BY <1>5, <1>9, <1>10 DEF there, called, term, r, c

LEMMA CallKeeps ==
  ASSUME NEW lists, NEW begins, NEW lps, NEW bl, NEW u, LowerOK(lists, begins, lps, bl, u),
         u # <<>>, Head(u).stmt = "Call"
  PROVE  LET next == FreshBlock(bl, 1)
             there == SwitchToBlock(Terminate(NewBlocks(bl, 1), Call(Head(u).label, next)), next)
         IN  LowerOK(lists, begins, lps, there, <<>> \o Tail(u))
<1> DEFINE next == FreshBlock(bl, 1)
           there == SwitchToBlock(Terminate(NewBlocks(bl, 1), Call(Head(u).label, next)), next)
<1>1. PICK x, kind, after : Taken(lists, begins, lps, bl, u, x, kind, after)
  BY TakenProps
<1>2. x.stmt \in Statements
  BY <1>1 DEF Taken, Statements
<1>3. ~ IsTerminated(bl) /\ Written(bl, begins, after)
  BY <1>1, <1>2, TakenStatement
<1>4. /\ Written(there, begins, after) /\ ~ IsTerminated(there) /\ there.current \notin begins
      /\ Len(there.blocks) = Len(bl.blocks) + 1
  BY <1>3, WrittenCall
<1>5. Len(bl.blocks) \in Nat
  BY <1>3, WrittenProps
<1> HIDE DEF there
<1>6. Len(there.blocks) >= Len(bl.blocks)
  BY <1>4, <1>5
<1>7. LowerOK(lists, begins, lps, there, <<>> \o Tail(u))
  BY <1>1, <1>2, <1>4, <1>6, ElsewhereKeeps
<1> QED
  BY <1>7 DEF there

LEMMA NeverKeeps ==
  ASSUME NEW lists, NEW begins, NEW lps, NEW bl, NEW u, LowerOK(lists, begins, lps, bl, u),
         u # <<>>, Head(u).stmt = "Never"
  PROVE  LET next == FreshBlock(bl, 1)
             called == Terminate(NewBlocks(bl, 1), Call(Head(u).label, next))
             s == DeadBlock(Terminate(SwitchToBlock(called, next), Diverge))
         IN  LowerOK(lists, begins, lps, s, <<>> \o Tail(u))
<1> DEFINE next == FreshBlock(bl, 1)
           there == SwitchToBlock(Terminate(NewBlocks(bl, 1), Call(Head(u).label, next)), next)
           over == Terminate(there, Diverge)
           s == DeadBlock(over)
<1>1. PICK x, kind, after : Taken(lists, begins, lps, bl, u, x, kind, after)
  BY TakenProps
<1>2. x.stmt \in Statements
  BY <1>1 DEF Taken, Statements
<1>3. ~ IsTerminated(bl) /\ Written(bl, begins, after)
  BY <1>1, <1>2, TakenStatement
<1>4. Written(there, begins, after) /\ ~ IsTerminated(there) /\ Len(there.blocks) = Len(bl.blocks) + 1
  BY <1>3, WrittenCall
<1>5. Len(bl.blocks) \in Nat
  BY <1>3, WrittenProps
<1> HIDE DEF there
<1>6. /\ Written(over, begins, after) /\ over.current = there.current
      /\ over.finalized = there.finalized \cup {there.current} /\ Len(over.blocks) = Len(there.blocks)
  BY <1>4, EndsOK, WrittenTerm
<1> HIDE DEF over
<1>7. IsTerminated(over)
  BY <1>6 DEF IsTerminated
<1>8. Written(s, begins, after) /\ ~ IsTerminated(s) /\ s.current \notin begins /\ Len(s.blocks) = Len(over.blocks) + 1
  BY <1>6, <1>7, WrittenDead
<1> HIDE DEF s
<1>9. Len(s.blocks) >= Len(bl.blocks)
  BY <1>4, <1>5, <1>6, <1>8
<1>10. LowerOK(lists, begins, lps, s, <<>> \o Tail(u))
  BY <1>1, <1>2, <1>8, <1>9, ElsewhereKeeps
<1> QED
  BY <1>10 DEF s, over, there

\* The builder ends its block, and the next thing to do is not to write.
LEMMA EndKeeps ==
  ASSUME NEW lists, NEW begins, NEW lps, NEW bl, NEW t, NEW after,
         ItemsOK(lists, begins, lps, t, "End", {}), after = EnteredIn(t),
         Written(bl, begins, after), LoopsOK(lps, bl.blocks, begins), ~ IsTerminated(bl),
         KindAt(t, 1, "End") \in {"Enter", "Arms", "Close"},
         NEW term, TermOK(bl.blocks, term),
         term.kind = "Goto" => bl.current \notin begins /\ term.targets[1] \in begins \cup after
  PROVE  LowerOK(lists, begins, lps, Terminate(bl, term), <<>> \o t)
<1> DEFINE s == Terminate(bl, term)
<1>1. /\ Written(s, begins, after)
      /\ s.current = bl.current /\ s.finalized = bl.finalized \cup {bl.current}
      /\ Len(s.blocks) = Len(bl.blocks)
  BY WrittenTerm
<1> HIDE DEF s
<1>2. IsTerminated(s)
  BY <1>1 DEF IsTerminated
<1>3. CurrentOK(s, KindAt(t, 1, "End")) /\ ConditionOK(s, begins, t)
  BY <1>2 DEF CurrentOK, ConditionOK, IsTerminated
<1>4. LoopsOK(lps, s.blocks, begins)
  BY <1>1, LoopsSame
<1>5. LowerOK(lists, begins, lps, s, <<>> \o t)
  BY <1>1, <1>3, <1>4, GoesBack
<1> QED
  BY <1>5 DEF s

LEMMA JumpKeeps ==
  ASSUME NEW lists, NEW begins, NEW lps, NEW bl, NEW u, LowerOK(lists, begins, lps, bl, u),
         u # <<>>, Head(u).stmt \in {"Break", "Continue"}
  PROVE  LET loop == lps[Head(u).loop]
         IN  /\ LowerOK(lists, begins, lps, Terminate(bl, Goto(loop.end)), <<>> \o Tail(u))
             /\ LowerOK(lists, begins, lps, Terminate(bl, Goto(loop.begin)), <<>> \o Tail(u))
<1> DEFINE t == Tail(u)
           loop == lps[Head(u).loop]
<1>1. PICK x, next, after : Taken(lists, begins, lps, bl, u, x, next, after)
  BY TakenProps
<1>2. /\ ItemsOK(lists, begins, lps, t, "End", {}) /\ next = KindAt(t, 1, "End") /\ after = EnteredIn(t)
      /\ x = Head(u) /\ x.stmt \in {"Break", "Continue"} /\ x.stmt \in Statements
  BY <1>1 DEF Taken, Statements
<1>3. /\ ~ IsTerminated(bl) /\ Written(bl, begins, after) /\ LoopsOK(lps, bl.blocks, begins)
      /\ IsScopedStmt(lists, x, LoopsInto(lps, after), EndBefore(next))
  BY <1>1, <1>2, TakenStatement
<1>4. EndBefore(next) = MayJump /\ x.loop \in LoopsInto(lps, after)
  BY <1>2, <1>3 DEF IsScopedStmt
<1>5. next = "Close"
  BY <1>4 DEF EndBefore, MayJump, GoesOn
<1>6. loop.end \in after /\ loop.begin \in begins
  BY <1>2, <1>3, <1>4 DEF LoopsInto, LoopsOK
<1>7. begins \cup after \subseteq DOMAIN bl.blocks \ {EntryBlock}
  BY <1>3 DEF Written, BeginsOK, PendingOK
<1>8. bl.current \notin begins
  BY <1>1, <1>2, TakenStatement DEF Straight
<1> HIDE DEF t, loop
<1>9. ASSUME NEW c \in begins \cup after
      PROVE  LowerOK(lists, begins, lps, Terminate(bl, Goto(c)), <<>> \o t)
  <2>1. TermOK(bl.blocks, Goto(c)) /\ Goto(c).targets[1] = c
    <3>1. c \in DOMAIN bl.blocks \ {EntryBlock}
      BY <1>7
    <3> QED
      BY <3>1, TermsOK
  <2> QED
    BY <2>1, <1>2, <1>3, <1>5, <1>8, EndKeeps
<1> QED
  BY <1>6, <1>9 DEF loop, t

LEMMA CloseKeeps ==
  ASSUME NEW lists, NEW begins, NEW lps, NEW bl, NEW u, LowerOK(lists, begins, lps, bl, u),
         u # <<>>, Head(u).stmt = "Close"
  PROVE  LowerOK(lists, begins, lps,
                 IF IsTerminated(bl) THEN bl ELSE Terminate(bl, Goto(Head(u).block)), <<>> \o Tail(u))
<1> DEFINE t == Tail(u)
           c == Head(u).block
<1>1. PICK x, next, after : Taken(lists, begins, lps, bl, u, x, next, after)
  BY TakenProps
<1>2. /\ ItemsOK(lists, begins, lps, t, "End", {}) /\ next = KindAt(t, 1, "End") /\ after = EnteredIn(t)
      /\ x = Head(u) /\ x.stmt = "Close"
      /\ ItemOK(lists, begins, lps, x, next, after) /\ LoopsOK(lps, bl.blocks, begins)
  BY <1>1 DEF Taken
<1>3. next \in {"Enter", "Arms"} /\ x.block \in begins \cup after
  BY <1>2 DEF ItemOK, Statements
<1>4. Written(bl, begins, after)
  <2>1. Entered(x) \cup after = after
    BY <1>2 DEF Entered
  <2> QED
    BY <2>1, <1>1 DEF Taken
<1>5. begins \cup after \subseteq DOMAIN bl.blocks \ {EntryBlock}
  BY <1>4 DEF Written, BeginsOK, PendingOK
<1>6. CASE IsTerminated(bl)
  <2>1. CurrentOK(bl, next) /\ ConditionOK(bl, begins, t)
    BY <1>3, <1>6 DEF CurrentOK, ConditionOK, IsTerminated
  <2> HIDE DEF t
  <2>2. LowerOK(lists, begins, lps, bl, <<>> \o t)
    BY <2>1, <1>2, <1>4, GoesBack
  <2> QED
    BY <2>2, <1>6 DEF t
<1>7. CASE ~ IsTerminated(bl)
  <2>1. bl.current \notin begins
    <3>1. x.stmt # "Decide" /\ x.stmt \notin Straight /\ bl.current \notin bl.finalized
      BY <1>2, <1>7 DEF Straight, IsTerminated
    <3> QED
      BY <3>1, <1>1 DEF Taken
  <2>2. c \in begins \cup after
    BY <1>2, <1>3
  <2> HIDE DEF c, t
  <2>3. TermOK(bl.blocks, Goto(c)) /\ Goto(c).targets[1] = c /\ Goto(c).kind = "Goto"
    BY <2>2, <1>5, TermsOK
  <2>4. LowerOK(lists, begins, lps, Terminate(bl, Goto(c)), <<>> \o t)
    BY <2>1, <2>2, <2>3, <1>2, <1>3, <1>4, <1>7, EndKeeps
  <2> QED
    BY <2>4, <1>7 DEF c, t
<1> QED
  BY <1>6, <1>7

LEMMA EnterKeeps ==
  ASSUME NEW lists, NEW begins, NEW lps, NEW bl, NEW u, LowerOK(lists, begins, lps, bl, u),
         u # <<>>, Head(u).stmt = "Enter"
  PROVE  LowerOK(lists, begins, lps, SwitchToBlock(bl, Head(u).block), <<>> \o Tail(u))
<1> DEFINE t == Tail(u)
           c == Head(u).block
           s == SwitchToBlock(bl, c)
<1>1. PICK x, next, after : Taken(lists, begins, lps, bl, u, x, next, after)
  BY TakenProps
<1>2. /\ ItemsOK(lists, begins, lps, t, "End", {}) /\ next = KindAt(t, 1, "End") /\ after = EnteredIn(t)
      /\ x = Head(u) /\ x.stmt = "Enter"
      /\ ItemOK(lists, begins, lps, x, next, after) /\ LoopsOK(lps, bl.blocks, begins)
      /\ Written(bl, begins, Entered(x) \cup after)
      /\ IsTerminated(bl)
  BY <1>1 DEF Taken
<1>3. next \notin {"Enter", "Arms"} /\ c \notin after
  BY <1>2 DEF ItemOK, Statements
<1>4. Entered(x) = {c}
  BY <1>2 DEF Entered
<1> HIDE DEF c
<1>5. ASSUME NEW pending, pending = {c} \cup after
      PROVE  /\ Written(s, begins, pending \ {c}) /\ s.current = c /\ s.blocks = bl.blocks
             /\ ~ IsTerminated(s) /\ c \notin begins
  <2>1. Written(bl, begins, pending) /\ c \in pending
    BY <1>2, <1>4, <1>5
  <2> QED
    BY <2>1, <1>2, WrittenSwitch
<1>6. ({c} \cup after) \ {c} = after
  BY <1>3 DEF c
<1>7. /\ Written(s, begins, after) /\ s.current = c /\ s.blocks = bl.blocks
      /\ ~ IsTerminated(s) /\ c \notin begins
  <2> HIDE DEF s
  <2> QED
    BY <1>5, <1>6
<1> HIDE DEF s, t
<1>8. CurrentOK(s, next) /\ ConditionOK(s, begins, t)
  BY <1>3, <1>7 DEF CurrentOK, ConditionOK
<1>9. LowerOK(lists, begins, lps, s, <<>> \o t)
  BY <1>2, <1>7, <1>8, GoesBack
<1> QED
  BY <1>9 DEF s, t, c

LEMMA DecideKeeps ==
  ASSUME NEW lists, NEW begins, NEW lps, NEW bl, NEW u, LowerOK(lists, begins, lps, bl, u),
         u # <<>>, Head(u).stmt = "Decide"
  PROVE  LowerOK(lists, begins, lps,
                 Terminate(bl, Branch(Head(u).label, Head(u).then, Head(u).else)), <<>> \o Tail(u))
<1> DEFINE t == Tail(u)
           then == Head(u).then
           else == Head(u).else
           label == Head(u).label
           term == Branch(label, then, else)
<1>1. PICK x, next, after : Taken(lists, begins, lps, bl, u, x, next, after)
  BY TakenProps
<1>2. /\ ItemsOK(lists, begins, lps, t, "End", {}) /\ next = KindAt(t, 1, "End") /\ after = EnteredIn(t)
      /\ x = Head(u) /\ x.stmt = "Decide"
      /\ ItemOK(lists, begins, lps, x, next, after) /\ LoopsOK(lps, bl.blocks, begins)
      /\ ~ IsTerminated(bl)
  BY <1>1 DEF Taken
<1>3. next = "Enter" /\ then \in after /\ else \in after
  BY <1>2 DEF ItemOK, Statements
<1>4. Written(bl, begins, after)
  <2>1. Entered(x) \cup after = after
    BY <1>2 DEF Entered
  <2> QED
    BY <2>1, <1>1 DEF Taken
<1>5. then \in DOMAIN bl.blocks \ {EntryBlock} /\ else \in DOMAIN bl.blocks \ {EntryBlock}
  BY <1>3, <1>4 DEF Written, PendingOK
<1>6. TermOK(bl.blocks, term) /\ term.kind # "Goto"
  <2> HIDE DEF then, else, label
  <2> QED
    BY <1>5, BranchOK
<1> HIDE DEF term, t
<1>7. LowerOK(lists, begins, lps, Terminate(bl, term), <<>> \o t)
  BY <1>2, <1>3, <1>4, <1>6, EndKeeps
<1> QED
  BY <1>7 DEF term, t

LEMMA UnreachableKeeps ==
  ASSUME NEW lists, NEW begins, NEW lps, NEW bl, NEW u, LowerOK(lists, begins, lps, bl, u),
         u # <<>>, Head(u).stmt = "Unreachable"
  PROVE  LowerOK(lists, begins, lps, Terminate(bl, Diverge), <<>> \o Tail(u))
<1> DEFINE t == Tail(u)
<1>1. PICK x, next, after : Taken(lists, begins, lps, bl, u, x, next, after)
  BY TakenProps
<1>2. /\ ItemsOK(lists, begins, lps, t, "End", {}) /\ next = KindAt(t, 1, "End") /\ after = EnteredIn(t)
      /\ x.stmt = "Unreachable"
      /\ ItemOK(lists, begins, lps, x, next, after) /\ LoopsOK(lps, bl.blocks, begins)
      /\ ~ IsTerminated(bl)
  BY <1>1 DEF Taken
<1>3. next = "Enter"
  BY <1>2 DEF ItemOK, Statements
<1>4. Written(bl, begins, after)
  <2>1. Entered(x) \cup after = after
    BY <1>2 DEF Entered
  <2> QED
    BY <2>1, <1>1 DEF Taken
<1> HIDE DEF t
<1>5. LowerOK(lists, begins, lps, Terminate(bl, Diverge), <<>> \o t)
  BY <1>2, <1>3, <1>4, EndsOK, EndKeeps
<1> QED
  BY <1>5 DEF t

LEMMA BlockKeeps ==
  ASSUME NEW lists, AreScoped(lists), NEW begins, NEW lps, NEW bl, NEW u, LowerOK(lists, begins, lps, bl, u),
         u # <<>>, Head(u).stmt = "Block"
  PROVE  LowerOK(lists, begins, lps, bl, Head(u).stmts \o Tail(u))
<1> DEFINE t == Tail(u)
           v == Head(u).stmts
<1>1. PICK x, next, after : Taken(lists, begins, lps, bl, u, x, next, after)
  BY TakenProps
<1>2. /\ ItemsOK(lists, begins, lps, t, "End", {}) /\ next = KindAt(t, 1, "End") /\ after = EnteredIn(t)
      /\ x = Head(u) /\ x.stmt = "Block" /\ x.stmt \in Statements
  BY <1>1 DEF Taken, Statements
<1>3. /\ ~ IsTerminated(bl) /\ Written(bl, begins, after) /\ LoopsOK(lps, bl.blocks, begins)
      /\ IsScopedStmt(lists, x, LoopsInto(lps, after), EndBefore(next)) /\ next \notin {"Enter", "Arms"}
  BY <1>1, <1>2, TakenStatement
<1>4. List(v, LoopsInto(lps, after), EndBefore(next)) \in lists
  BY <1>2, <1>3 DEF IsScopedStmt
<1> HIDE DEF t, v
<1>5. /\ ItemsOK(lists, begins, lps, v, next, after)
      /\ EnteredIn(v) = {}
      /\ \A i \in DOMAIN v : v[i].stmt \in Statements
      /\ KindAt(v, 1, next) \in Statements \cup {next}
  BY <1>3, <1>4, ListItems
<1>6. IsVec(v) /\ IsVec(t)
  BY <1>2, <1>5 DEF ItemsOK
<1>7. ConditionOK(bl, begins, v \o t)
  <2>1. bl.current \notin begins \ bl.finalized
    BY <1>1, <1>2 DEF Taken, Straight
  <2> QED
    BY <2>1 DEF ConditionOK
<1>8. CurrentOK(bl, KindAt(v, 1, next))
  BY <1>3, <1>5 DEF CurrentOK, Statements
<1>9. Written(bl, begins, EnteredIn(v) \cup EnteredIn(t))
  <2>1. EnteredIn(v) \cup EnteredIn(t) = after
    BY <1>2, <1>5
  <2> QED
    BY <2>1, <1>3
<1>10. LowerOK(lists, begins, lps, bl, v \o t)
  BY <1>2, <1>3, <1>5, <1>7, <1>8, <1>9, GivesBack
<1> QED
  BY <1>10 DEF t, v

-----------------------------------------------------------------------------
\* A part of a statement, in blocks of its own.
Section(c, stmts, m) == (<<Enter(c)>> \o stmts) \o <<Close(m)>>

LEMMA ItemFields ==
  ASSUME NEW c
  PROVE  /\ Enter(c).stmt = "Enter" /\ Enter(c).block = c /\ Entered(Enter(c)) = {c}
         /\ Close(c).stmt = "Close" /\ Close(c).block = c /\ Entered(Close(c)) = {}
BY DEF Enter, Close, Entered

\* The items u, then one.
LEMMA ItemsThen ==
  ASSUME NEW lists, NEW begins, NEW lps, NEW u, NEW v, NEW x, v = <<x>>, NEW next, NEW after,
         NEW kind, kind = x.stmt, NEW both, both = Entered(x) \cup after,
         ItemsOK(lists, begins, lps, u, kind, both),
         ItemOK(lists, begins, lps, x, next, after)
  PROVE  ItemsOK(lists, begins, lps, u \o v, next, after)
<1>1. /\ ItemsOK(lists, begins, lps, v, next, after)
      /\ EnteredIn(v) = Entered(x) /\ \A k : KindAt(v, 1, k) = x.stmt
  BY ItemsOne, OneItem
<1>2. ItemsOK(lists, begins, lps, u, KindAt(v, 1, next), EnteredIn(v) \cup after)
  BY <1>1
<1> QED
  BY <1>1, <1>2, ItemsConcat

LEMMA EnteredThen ==
  ASSUME NEW u, IsVec(u), NEW v, NEW x, v = <<x>>
  PROVE  /\ IsVec(v) /\ IsVec(u \o v)
         /\ EnteredIn(u \o v) = EnteredIn(u) \cup Entered(x)
         /\ \A k : KindAt(u \o v, 1, k) = KindAt(u, 1, x.stmt)
<1>1. EnteredIn(v) = Entered(x) /\ \A k : KindAt(v, 1, k) = x.stmt
  BY OneItem
<1>2. IsVec(v)
  BY OneVec
<1>3. IsVec(u \o v)
  BY <1>2, ConcatVec
<1>4. EnteredIn(u \o v) = EnteredIn(u) \cup Entered(x)
  BY <1>1, <1>2, EnteredConcat
<1>5. ASSUME NEW k PROVE KindAt(u \o v, 1, k) = KindAt(u, 1, x.stmt)
  BY <1>1, <1>2, KindConcat
<1> QED
  BY <1>2, <1>3, <1>4, <1>5

LEMMA ListStmts ==
  ASSUME NEW lists, AreScoped(lists), NEW stmts, NEW inside, NEW end, List(stmts, inside, end) \in lists
  PROVE  /\ IsVec(stmts) /\ EnteredIn(stmts) = {}
         /\ \A i \in DOMAIN stmts : stmts[i].stmt \in Statements
<1> DEFINE list == List(stmts, inside, end)
<1>1. list.stmts = stmts /\ list \in lists
  BY DEF List
<1> HIDE DEF list
<1>2. IsVec(stmts) /\ \A i \in DOMAIN stmts : \E end2 : IsScopedStmt(lists, stmts[i], list.inside, end2)
  BY <1>1 DEF AreScoped
<1>3. \A i \in DOMAIN stmts : stmts[i].stmt \in Statements /\ Entered(stmts[i]) = {}
  BY <1>2, ScopedStmt
<1> QED
  BY <1>2, <1>3 DEF EnteredIn

LEMMA SectionEntered ==
  ASSUME NEW c, NEW stmts, IsVec(stmts), EnteredIn(stmts) = {}, NEW m
  PROVE  /\ IsVec(Section(c, stmts, m))
         /\ EnteredIn(Section(c, stmts, m)) = {c}
         /\ \A k : KindAt(Section(c, stmts, m), 1, k) = "Enter"
<1> DEFINE e == Enter(c)
           x == Close(m)
           v == <<e>>
           w == <<x>>
<1>1. e.stmt = "Enter" /\ Entered(e) = {c} /\ Entered(x) = {}
  BY ItemFields
<1> HIDE DEF e, x
<1>2. IsVec(v) /\ EnteredIn(v) = {c} /\ \A k : KindAt(v, 1, k) = "Enter"
  BY <1>1, OneItem, OneVec
<1>3. w = <<x>>
  OBVIOUS
<1> HIDE DEF v, w
<1>4. IsVec(v \o stmts)
  BY <1>2, ConcatVec
<1>5. EnteredIn(v \o stmts) = {c}
  BY <1>2, EnteredConcat
<1>6. ASSUME NEW k PROVE KindAt(v \o stmts, 1, k) = "Enter"
  BY <1>2, KindConcat
<1> DEFINE u == v \o stmts
<1> HIDE DEF u
<1>7. /\ IsVec(u \o w) /\ EnteredIn(u \o w) = EnteredIn(u) \cup Entered(x)
      /\ \A k : KindAt(u \o w, 1, k) = KindAt(u, 1, x.stmt)
  BY <1>3, <1>4, EnteredThen DEF u
<1>8. u \o w = Section(c, stmts, m)
  BY DEF Section, u, v, w, e, x
<1> QED
  BY <1>1, <1>5, <1>6, <1>7, <1>8 DEF u

LEMMA SectionKind ==
  ASSUME NEW c, NEW stmts, IsVec(stmts), EnteredIn(stmts) = {}, NEW m, NEW k
  PROVE  KindAt(Section(c, stmts, m), 1, k) = "Enter"
<1>1. \A next : KindAt(Section(c, stmts, m), 1, next) = "Enter"
  BY SectionEntered
<1> QED
  BY <1>1

LEMMA SectionItems ==
  ASSUME NEW lists, AreScoped(lists), NEW begins, NEW lps, NEW next \in {"Enter", "Arms"}, NEW after,
         NEW c, c \notin after, NEW m \in begins \cup after,
         NEW stmts, List(stmts, LoopsInto(lps, after), MayJump) \in lists
  PROVE  ItemsOK(lists, begins, lps, Section(c, stmts, m), next, after)
<1> DEFINE e == Enter(c)
           x == Close(m)
           v == <<e>>
           w == <<x>>
           u == v \o stmts
<1>1. /\ e.stmt = "Enter" /\ e.block = c /\ Entered(e) = {c}
      /\ x.stmt = "Close" /\ x.block = m /\ Entered(x) = {}
  BY ItemFields
<1> HIDE DEF e, x
<1>2. ItemOK(lists, begins, lps, x, next, after)
  BY <1>1 DEF ItemOK
<1>3. ASSUME NEW kind, kind = "Close"
      PROVE  /\ ItemsOK(lists, begins, lps, stmts, kind, after)
             /\ EnteredIn(stmts) = {}
             /\ KindAt(stmts, 1, kind) \in Statements \cup {kind}
  <2>1. kind \notin {"Enter", "Arms"} /\ List(stmts, LoopsInto(lps, after), EndBefore(kind)) \in lists
    BY <1>3 DEF EndBefore
  <2> QED
    BY <2>1, ListItems
<1>4. /\ ItemsOK(lists, begins, lps, stmts, "Close", after)
      /\ EnteredIn(stmts) = {}
      /\ KindAt(stmts, 1, "Close") \in Statements \cup {"Close"}
  BY <1>3
<1>5. ItemOK(lists, begins, lps, e, KindAt(stmts, 1, "Close"), after)
  BY <1>1, <1>4 DEF ItemOK, Statements
<1>6. ItemsOK(lists, begins, lps, v, KindAt(stmts, 1, "Close"), EnteredIn(stmts) \cup after)
  <2>1. EnteredIn(stmts) \cup after = after
    BY <1>4
  <2> QED
    BY <2>1, <1>5, ItemsOne
<1>7. w = <<x>> /\ Entered(x) \cup after = after /\ "Close" = x.stmt
  BY <1>1
<1> HIDE DEF v, w
<1>8. ItemsOK(lists, begins, lps, u, "Close", after)
  BY <1>4, <1>6, ItemsConcat
<1> HIDE DEF u
<1>9. ItemsOK(lists, begins, lps, u \o w, next, after)
  BY <1>2, <1>7, <1>8, ItemsThen
<1>10. u \o w = Section(c, stmts, m)
  BY DEF Section, u, v, w, e, x
<1> QED
  BY <1>9, <1>10

\* Two items after u, one by one.
LEMMA TwoMore ==
  ASSUME NEW u, IsVec(u), NEW x, NEW y
  PROVE  u \o <<x, y>> = (u \o <<x>>) \o <<y>>
<1> DEFINE v == <<x>>
           w == <<y>>
<1>1. IsVec(v) /\ IsVec(w)
  BY OneVec
<1>2. <<x, y>> = v \o w
  BY TwoVec
<1> HIDE DEF v, w
<1>3. (u \o v) \o w = u \o (v \o w)
  BY <1>1, AssocVec
<1> QED
  BY <1>2, <1>3 DEF v, w

\* The end of a statement with blocks of its own: the builder has ended its block.
LEMMA OpensKeeps ==
  ASSUME NEW lists, NEW begins, NEW lps, NEW bl, NEW t, NEW v, NEW after,
         ItemsOK(lists, begins, lps, t, "End", {}), after = EnteredIn(t),
         ItemsOK(lists, begins, lps, v, KindAt(t, 1, "End"), after),
         Written(bl, begins, EnteredIn(v) \cup after), LoopsOK(lps, bl.blocks, begins),
         KindAt(v, 1, KindAt(t, 1, "End")) \in {"Enter", "Arms"}, IsTerminated(bl)
  PROVE  LowerOK(lists, begins, lps, bl, v \o t)
<1>1. CurrentOK(bl, KindAt(v, 1, KindAt(t, 1, "End"))) /\ ConditionOK(bl, begins, v \o t)
  BY DEF CurrentOK, ConditionOK, IsTerminated
<1> QED
  BY <1>1, GivesBack

\* The new blocks of a statement are none of those there are to come.
LEMMA FreshBlocks ==
  ASSUME NEW bl, NEW begins, NEW after, Written(bl, begins, after), ~ IsTerminated(bl),
         NEW n \in Nat, NEW lps, LoopsOK(lps, bl.blocks, begins)
  PROVE  LET l == Len(bl.blocks)
             fresh == (l + 1) .. (l + n)
             r == NewBlocks(bl, n)
         IN  /\ l \in Nat
             /\ Written(r, begins, fresh \cup after) /\ LoopsOK(lps, r.blocks, begins)
             /\ r.current = bl.current /\ ~ IsTerminated(r) /\ Len(r.blocks) = l + n
             /\ r.current \in 1 .. l
             /\ fresh \cap after = {} /\ fresh \subseteq DOMAIN r.blocks \ {EntryBlock}
             /\ \A i \in DOMAIN lps : lps[i].end \notin fresh
<1> DEFINE l == Len(bl.blocks)
           fresh == (l + 1) .. (l + n)
           r == NewBlocks(bl, n)
<1>1. l \in Nat /\ after \subseteq 2 .. l /\ DOMAIN bl.blocks = 1 .. l /\ bl.current \in 1 .. l
  BY WrittenProps
<1>2. fresh \cap after = {} /\ fresh \cap 1 .. l = {}
  <2> HIDE DEF l
  <2> QED
    BY <1>1
<1>3. /\ Written(r, begins, after \cup fresh) /\ r.current = bl.current /\ r.finalized = bl.finalized
      /\ Len(r.blocks) = l + n
  BY WrittenNew
<1> HIDE DEF r
<1>4. after \cup fresh = fresh \cup after
  OBVIOUS
<1>5. ~ IsTerminated(r)
  BY <1>3 DEF IsTerminated
<1>6. LoopsOK(lps, r.blocks, begins)
  <2>1. Len(r.blocks) >= Len(bl.blocks)
    BY <1>1, <1>3
  <2> QED
    BY <2>1, <1>3, LoopsKept
<1>7. \A i \in DOMAIN lps : lps[i].end \notin fresh
  BY <1>1, <1>2 DEF LoopsOK
<1>8. fresh \subseteq DOMAIN r.blocks \ {EntryBlock}
  BY <1>3 DEF Written, PendingOK
<1> QED
  BY <1>1, <1>2, <1>3, <1>4, <1>5, <1>6, <1>7, <1>8 DEF r

LEMMA IfKeeps ==
  ASSUME NEW lists, AreScoped(lists), NEW begins, NEW lps, NEW bl, NEW u, LowerOK(lists, begins, lps, bl, u),
         u # <<>>, Head(u).stmt = "If"
  PROVE  LET then == FreshBlock(bl, 1)
             merge == FreshBlock(bl, 2)
         IN  LowerOK(lists, begins, lps,
                     Terminate(NewBlocks(bl, 2), Branch(Head(u).label, then, merge)),
                     (<<Enter(then)>> \o Head(u).then \o <<Close(merge), Enter(merge)>>) \o Tail(u))
<1> DEFINE t == Tail(u)
           stmts == Head(u).then
           label == Head(u).label
           l == Len(bl.blocks)
           then == FreshBlock(bl, 1)
           merge == FreshBlock(bl, 2)
           n == 2
           fresh == (l + 1) .. (l + n)
           r == NewBlocks(bl, n)
           s == Terminate(r, Branch(label, then, merge))
           section == Section(then, stmts, merge)
           e == Enter(merge)
           w == <<e>>
           v == <<Enter(then)>> \o stmts \o <<Close(merge), e>>
<1>1. PICK x, next, after : Taken(lists, begins, lps, bl, u, x, next, after)
  BY TakenProps
<1>2. /\ ItemsOK(lists, begins, lps, t, "End", {}) /\ next = KindAt(t, 1, "End") /\ after = EnteredIn(t)
      /\ x = Head(u) /\ x.stmt = "If" /\ x.stmt \in Statements
  BY <1>1 DEF Taken, Statements
<1>3. /\ IsScopedStmt(lists, x, LoopsInto(lps, after), EndBefore(next)) /\ next \notin {"Enter", "Arms"}
      /\ ~ IsTerminated(bl) /\ Written(bl, begins, after) /\ LoopsOK(lps, bl.blocks, begins)
  BY <1>1, <1>2, TakenStatement
<1>4. List(stmts, LoopsInto(lps, after), MayJump) \in lists
  BY <1>2, <1>3 DEF IsScopedStmt
<1>5. /\ l \in Nat
      /\ Written(r, begins, fresh \cup after) /\ LoopsOK(lps, r.blocks, begins)
      /\ ~ IsTerminated(r)
      /\ fresh \cap after = {} /\ fresh \subseteq DOMAIN r.blocks \ {EntryBlock}
      /\ \A i \in DOMAIN lps : lps[i].end \notin fresh
  <2>1. n \in Nat
    OBVIOUS
  <2> HIDE DEF n
  <2> QED
    BY <2>1, <1>3, FreshBlocks
<1>6. fresh = {then, merge} /\ then # merge
  <2>1. then = l + 1 /\ merge = l + 2
    BY DEF FreshBlock
  <2> HIDE DEF then, merge, l
  <2> QED
    BY <2>1, <1>5
<1> HIDE DEF t, stmts, label, l, then, merge, fresh, r, n
<1>7. TermOK(r.blocks, Branch(label, then, merge)) /\ Branch(label, then, merge).kind # "Goto"
  <2>1. then \in DOMAIN r.blocks \ {EntryBlock} /\ merge \in DOMAIN r.blocks \ {EntryBlock}
    BY <1>5, <1>6
  <2> QED
    BY <2>1, BranchOK
<1>8. /\ Written(s, begins, fresh \cup after) /\ s.current = r.current
      /\ s.finalized = r.finalized \cup {r.current} /\ Len(s.blocks) = Len(r.blocks)
  BY <1>5, <1>7, WrittenTerm
<1> HIDE DEF s
<1>9. LoopsOK(lps, s.blocks, begins) /\ IsTerminated(s)
  BY <1>5, <1>8, LoopsSame DEF IsTerminated
<1>10. /\ e.stmt = "Enter" /\ e.block = merge /\ Entered(e) = {merge}
  BY ItemFields
<1> HIDE DEF e
<1>11. ItemOK(lists, begins, lps, e, next, after)
  BY <1>3, <1>5, <1>6, <1>10 DEF ItemOK
<1> DEFINE both == Entered(e) \cup after
<1>12. LoopsInto(lps, both) = LoopsInto(lps, after) /\ merge \in both /\ then \notin both
  <2>1. \A i \in DOMAIN lps : lps[i].end \notin Entered(e)
    BY <1>5, <1>6, <1>10
  <2>2. LoopsInto(lps, Entered(e) \cup after) = LoopsInto(lps, after)
    BY <2>1, LoopsIntoMore
  <2> QED
    BY <2>2, <1>5, <1>6, <1>10
<1> HIDE DEF both
<1>13. /\ ItemsOK(lists, begins, lps, section, "Enter", both)
       /\ EnteredIn(section) = {then} /\ \A k : KindAt(section, 1, k) = "Enter"
  <2>1. List(stmts, LoopsInto(lps, both), MayJump) \in lists /\ merge \in begins \cup both
    BY <1>4, <1>12
  <2>2. IsVec(stmts) /\ EnteredIn(stmts) = {}
    BY <1>4, ListStmts
  <2>3. EnteredIn(section) = {then} /\ \A k : KindAt(section, 1, k) = "Enter"
    <3>1. EnteredIn(section) = {then}
      BY <2>2, SectionEntered
    <3>2. ASSUME NEW k PROVE KindAt(section, 1, k) = "Enter"
      BY <2>2, SectionKind
    <3> QED
      BY <3>1, <3>2
  <2>4. ASSUME NEW kind, kind = "Enter" PROVE ItemsOK(lists, begins, lps, section, kind, both)
    <3>1. kind \in {"Enter", "Arms"} /\ then \notin both
      BY <2>4, <1>12
    <3> QED
      BY <3>1, <2>1, SectionItems
  <2> QED
    BY <2>3, <2>4
<1> HIDE DEF section
<1>14. IsVec(section) /\ w = <<e>> /\ both = Entered(e) \cup after
  BY <1>13 DEF ItemsOK, both
<1> HIDE DEF w
<1>15. ItemsOK(lists, begins, lps, section \o w, next, after)
  BY <1>10, <1>11, <1>13, <1>14, ItemsThen
<1>16. EnteredIn(section \o w) = EnteredIn(section) \cup Entered(e)
       /\ \A k : KindAt(section \o w, 1, k) = KindAt(section, 1, e.stmt)
  BY <1>14, EnteredThen
<1>17. v = section \o w
  <2> DEFINE p == <<Enter(then)>> \o stmts
             c == Close(merge)
  <2>1. IsVec(stmts) /\ IsVec(<<Enter(then)>>)
    <3>1. IsVec(List(stmts, LoopsInto(lps, after), MayJump).stmts)
      BY <1>4 DEF AreScoped
    <3> QED
      BY <3>1, OneVec DEF List
  <2>2. IsVec(p)
    <3> DEFINE q == <<Enter(then)>>
    <3>1. IsVec(q)
      BY <2>1
    <3> HIDE DEF q
    <3>2. IsVec(q \o stmts)
      BY <3>1, <2>1, ConcatVec
    <3> QED
      BY <3>2 DEF q
  <2> HIDE DEF p, c
  <2>3. p \o <<c, e>> = (p \o <<c>>) \o <<e>>
    BY <2>2, TwoMore
  <2> QED
    BY <2>3 DEF p, c, section, w, Section
<1> HIDE DEF v
<1>18. Written(s, begins, EnteredIn(v) \cup after) /\ KindAt(v, 1, next) = "Enter"
  <2>1. EnteredIn(v) \cup after = fresh \cup after
    BY <1>6, <1>10, <1>13, <1>16, <1>17
  <2>2. KindAt(v, 1, next) = "Enter"
    BY <1>13, <1>16, <1>17
  <2> QED
    BY <2>1, <2>2, <1>8
<1>19. LowerOK(lists, begins, lps, s, v \o t)
  BY <1>2, <1>9, <1>15, <1>17, <1>18, OpensKeeps
<1> QED
  BY <1>19 DEF s, v, t, r, n, label, then, merge, stmts, e

\* Items, a section, and the block where the statement ends.
LEMMA SectionAfter ==
  ASSUME NEW q, NEW e, NEW stmts, NEW v, NEW w, NEW r
  PROVE  IsVec(q) /\ IsVec(e) /\ IsVec(stmts) /\ IsVec(v) /\ IsVec(w) /\ r = v \o w =>
           ((q \o e) \o stmts) \o r = (q \o ((e \o stmts) \o v)) \o w
<1> DEFINE u == (q \o e) \o stmts
           z == e \o stmts
<1>1. HAVE IsVec(q) /\ IsVec(e) /\ IsVec(stmts) /\ IsVec(v) /\ IsVec(w) /\ r = v \o w
<1>2. IsVec(q)
  BY <1>1
<1>3. IsVec(v)
  BY <1>1
<1>4. IsVec(w)
  BY <1>1
<1>5. IsVec(q \o e) /\ IsVec(z)
  BY <1>1, ConcatVec
<1>6. IsVec(z)
  BY <1>5
<1>7. IsVec(u)
  BY <1>1, <1>5, ConcatVec
<1>8. u = q \o z
  BY <1>1, AssocVec, SMTT(30)
<1> HIDE DEF u, z
<1>9. u \o (v \o w) = (u \o v) \o w
  BY <1>3, <1>4, <1>7, AssocVec
<1>10. (q \o z) \o v = q \o (z \o v)
  BY <1>2, <1>3, <1>6, AssocVec
<1> QED
  BY <1>1, <1>8, <1>9, <1>10 DEF u, z

LEMMA EndsWithSection ==
  ASSUME NEW lists, AreScoped(lists), NEW begins, NEW lps, NEW next, NEW after,
         next \notin {"Enter", "Arms"},
         NEW merge, merge \notin after, NEW both, both = {merge} \cup after,
         NEW c, c \notin both, NEW m \in begins \cup both,
         NEW stmts, List(stmts, LoopsInto(lps, both), MayJump) \in lists,
         NEW q, NEW all, all = {c} \cup both, NEW kind, kind = "Enter",
         ItemsOK(lists, begins, lps, q, kind, all)
  PROVE  ItemsOK(lists, begins, lps, (q \o Section(c, stmts, m)) \o <<Enter(merge)>>, next, after)
<1> DEFINE section == Section(c, stmts, m)
           e == Enter(merge)
           w == <<e>>
<1>1. IsVec(stmts) /\ EnteredIn(stmts) = {}
  BY ListStmts
<1>2. EnteredIn(section) = {c}
  BY <1>1, SectionEntered
<1>3. KindAt(section, 1, kind) = "Enter"
  BY <1>1, SectionKind
<1>4. ItemsOK(lists, begins, lps, section, kind, both)
  <2>1. kind \in {"Enter", "Arms"}
    OBVIOUS
  <2> QED
    BY <2>1, SectionItems
<1> HIDE DEF section
<1>5. ItemsOK(lists, begins, lps, q, KindAt(section, 1, kind), EnteredIn(section) \cup both)
  BY <1>2, <1>3
<1> DEFINE u == q \o section
<1>6. ItemsOK(lists, begins, lps, u, kind, both)
  BY <1>4, <1>5, ItemsConcat
<1>7. e.stmt = "Enter" /\ e.block = merge /\ Entered(e) = {merge}
  BY ItemFields
<1> HIDE DEF e, u
<1>8. ItemOK(lists, begins, lps, e, next, after)
  BY <1>7 DEF ItemOK
<1>9. w = <<e>> /\ kind = e.stmt /\ both = Entered(e) \cup after
  BY <1>7
<1> HIDE DEF w
<1>10. ItemsOK(lists, begins, lps, u \o w, next, after)
  BY <1>6, <1>8, <1>9, ItemsThen
<1> QED
  BY <1>10 DEF u, w, e, section

LEMMA EndsEntered ==
  ASSUME NEW q, IsVec(q), NEW section, IsVec(section), KindAt(section, 1, "Enter") = "Enter",
         NEW e, NEW w, w = <<e>>, e.stmt = "Enter"
  PROVE  /\ EnteredIn((q \o section) \o w) = EnteredIn(q) \cup EnteredIn(section) \cup Entered(e)
         /\ \A k : KindAt((q \o section) \o w, 1, k) = KindAt(q, 1, "Enter")
<1> DEFINE u == q \o section
<1>1. IsVec(u) /\ EnteredIn(u) = EnteredIn(q) \cup EnteredIn(section)
  BY ConcatVec, EnteredConcat
<1>2. KindAt(u, 1, "Enter") = KindAt(q, 1, "Enter")
  BY KindConcat
<1> HIDE DEF u
<1>3. EnteredIn(u \o w) = EnteredIn(u) \cup Entered(e) /\ \A k : KindAt(u \o w, 1, k) = KindAt(u, 1, "Enter")
  BY <1>1, EnteredThen
<1> QED
  BY <1>1, <1>2, <1>3 DEF u

\* A statement that ends the current block and goes on in new blocks.
LEMMA BranchesKeep ==
  ASSUME NEW lists, NEW begins, NEW lps, NEW t, NEW after,
         ItemsOK(lists, begins, lps, t, "End", {}), after = EnteredIn(t),
         NEW r, NEW fresh, Written(r, begins, fresh \cup after), LoopsOK(lps, r.blocks, begins), ~ IsTerminated(r),
         NEW term, TermOK(r.blocks, term),
         term.kind = "Goto" => r.current \notin begins /\ term.targets[1] \in fresh \cup after,
         NEW v, ItemsOK(lists, begins, lps, v, KindAt(t, 1, "End"), after),
         EnteredIn(v) = fresh, KindAt(v, 1, KindAt(t, 1, "End")) \in {"Enter", "Arms"}
  PROVE  LowerOK(lists, begins, lps, Terminate(r, term), v \o t)
<1> DEFINE s == Terminate(r, term)
<1>1. /\ Written(s, begins, fresh \cup after) /\ s.current = r.current
      /\ s.finalized = r.finalized \cup {r.current} /\ Len(s.blocks) = Len(r.blocks)
  BY WrittenTerm
<1> HIDE DEF s
<1>2. LoopsOK(lps, s.blocks, begins) /\ IsTerminated(s)
  BY <1>1, LoopsSame DEF IsTerminated
<1>3. LowerOK(lists, begins, lps, s, v \o t)
  BY <1>1, <1>2, OpensKeeps
<1> QED
  BY <1>3 DEF s

LEMMA IfElseKeeps ==
  ASSUME NEW lists, AreScoped(lists), NEW begins, NEW lps, NEW bl, NEW u, LowerOK(lists, begins, lps, bl, u),
         u # <<>>, Head(u).stmt = "IfElse"
  PROVE  LET then == FreshBlock(bl, 1)
             merge == FreshBlock(bl, 2)
             else == FreshBlock(bl, 3)
         IN  LowerOK(lists, begins, lps,
                     Terminate(NewBlocks(bl, 3), Branch(Head(u).label, then, else)),
                     (<<Enter(else)>> \o Head(u).else \o <<Close(merge), Enter(then)>>
                        \o Head(u).then \o <<Close(merge), Enter(merge)>>) \o Tail(u))
<1> DEFINE t == Tail(u)
           stmts == Head(u).then
           others == Head(u).else
           label == Head(u).label
           l == Len(bl.blocks)
           then == FreshBlock(bl, 1)
           merge == FreshBlock(bl, 2)
           else == FreshBlock(bl, 3)
           n == 3
           fresh == (l + 1) .. (l + n)
           r == NewBlocks(bl, n)
           term == Branch(label, then, else)
           first == Section(else, others, merge)
           v == (first \o Section(then, stmts, merge)) \o <<Enter(merge)>>
           w == <<Enter(else)>> \o others \o <<Close(merge), Enter(then)>> \o stmts \o <<Close(merge), Enter(merge)>>
<1>1. PICK x, next, after : Taken(lists, begins, lps, bl, u, x, next, after)
  BY TakenProps
<1>2. /\ ItemsOK(lists, begins, lps, t, "End", {}) /\ next = KindAt(t, 1, "End") /\ after = EnteredIn(t)
      /\ x = Head(u) /\ x.stmt = "IfElse" /\ x.stmt \in Statements
  BY <1>1 DEF Taken, Statements
<1>3. /\ IsScopedStmt(lists, x, LoopsInto(lps, after), EndBefore(next)) /\ next \notin {"Enter", "Arms"}
      /\ ~ IsTerminated(bl) /\ Written(bl, begins, after) /\ LoopsOK(lps, bl.blocks, begins)
  BY <1>1, <1>2, TakenStatement
<1>4. /\ List(stmts, LoopsInto(lps, after), MayJump) \in lists
      /\ List(others, LoopsInto(lps, after), MayJump) \in lists
  BY <1>2, <1>3 DEF IsScopedStmt
<1>5. /\ l \in Nat
      /\ Written(r, begins, fresh \cup after) /\ LoopsOK(lps, r.blocks, begins)
      /\ ~ IsTerminated(r)
      /\ fresh \cap after = {} /\ fresh \subseteq DOMAIN r.blocks \ {EntryBlock}
      /\ \A i \in DOMAIN lps : lps[i].end \notin fresh
  <2>1. n \in Nat
    OBVIOUS
  <2> HIDE DEF n
  <2> QED
    BY <2>1, <1>3, FreshBlocks
<1>6. fresh = {then, merge, else} /\ then # merge /\ else # merge /\ else # then
  <2>1. then = l + 1 /\ merge = l + 2 /\ else = l + 3
    BY DEF FreshBlock
  <2> HIDE DEF then, merge, else, l
  <2> QED
    BY <2>1, <1>5
<1> DEFINE both == {merge} \cup after
           all == {then} \cup both
<1> HIDE DEF t, stmts, others, label, l, then, merge, else, fresh, r, n
<1>7. TermOK(r.blocks, term) /\ term.kind # "Goto"
  <2>1. then \in DOMAIN r.blocks \ {EntryBlock} /\ else \in DOMAIN r.blocks \ {EntryBlock}
    BY <1>5, <1>6
  <2> QED
    BY <2>1, BranchOK
<1>8. LoopsInto(lps, both) = LoopsInto(lps, after) /\ LoopsInto(lps, all) = LoopsInto(lps, after)
  BY <1>5, <1>6 DEF LoopsInto
<1>9. /\ merge \notin after /\ then \notin both /\ else \notin all
      /\ merge \in begins \cup both /\ merge \in begins \cup all
  BY <1>5, <1>6
<1>10. /\ IsVec(stmts) /\ EnteredIn(stmts) = {}
       /\ IsVec(others) /\ EnteredIn(others) = {}
  BY <1>4, ListStmts
<1>11. IsVec(first) /\ EnteredIn(first) = {else}
  BY <1>10, SectionEntered
<1>12. ASSUME NEW k PROVE KindAt(first, 1, k) = "Enter"
  BY <1>10, SectionKind
<1> HIDE DEF both, all
<1>13. ASSUME NEW kind, kind = "Enter" PROVE ItemsOK(lists, begins, lps, first, kind, all)
  <2>1. kind \in {"Enter", "Arms"} /\ List(others, LoopsInto(lps, all), MayJump) \in lists
    BY <1>4, <1>8, <1>13
  <2> QED
    BY <2>1, <1>9, SectionItems
<1> HIDE DEF first
<1>14. ItemsOK(lists, begins, lps, v, next, after)
  <2>1. both = {merge} \cup after /\ all = {then} \cup both
    BY DEF both, all
  <2>2. List(stmts, LoopsInto(lps, both), MayJump) \in lists
    BY <1>4, <1>8
  <2>3. PICK kind : kind = "Enter"
    OBVIOUS
  <2>4. ItemsOK(lists, begins, lps, first, kind, all)
    BY <2>3, <1>13
  <2> QED
    BY <2>1, <2>2, <2>3, <2>4, <1>3, <1>9, EndsWithSection
<1>15. EnteredIn(v) = fresh /\ KindAt(v, 1, next) = "Enter"
  <2> DEFINE second == Section(then, stmts, merge)
             e == Enter(merge)
             end == <<e>>
  <2>1. IsVec(second) /\ EnteredIn(second) = {then}
    BY <1>10, SectionEntered
  <2>2. KindAt(second, 1, "Enter") = "Enter"
    BY <1>10, SectionKind
  <2>3. e.stmt = "Enter" /\ Entered(e) = {merge}
    BY ItemFields
  <2> HIDE DEF second, e
  <2>4. end = <<e>>
    OBVIOUS
  <2> HIDE DEF end
  <2>5. /\ EnteredIn((first \o second) \o end) = EnteredIn(first) \cup EnteredIn(second) \cup Entered(e)
        /\ \A k : KindAt((first \o second) \o end, 1, k) = KindAt(first, 1, "Enter")
    BY <1>11, <2>1, <2>2, <2>3, <2>4, EndsEntered
  <2>6. v = (first \o second) \o end
    BY DEF second, end, e
  <2> HIDE DEF v
  <2> QED
    BY <2>1, <2>3, <2>5, <2>6, <1>6, <1>11, <1>12
<1>16. v = w
  <2> DEFINE e == <<Enter(else)>>
             p == e \o others
             y == Enter(merge)
             c == Close(merge)
             f == <<Enter(then)>>
             d == <<c>>
             g == <<y>>
             end == <<c, y>>
  <2>1. IsVec(e)
    BY OneVec
  <2> HIDE DEF e
  <2>2. IsVec(p)
    BY <2>1, <1>10, ConcatVec
  <2> HIDE DEF p
  <2>3. p \o <<Close(merge), Enter(then)>> = (p \o <<Close(merge)>>) \o <<Enter(then)>>
    BY <2>2, TwoMore
  <2>4. p \o <<Close(merge)>> = first
    BY DEF p, e, first, Section
  <2>5. ((first \o f) \o stmts) \o end = (first \o ((f \o stmts) \o d)) \o g
    <3> HIDE DEF y, c
    <3>1. IsVec(d) /\ IsVec(g) /\ IsVec(f)
      BY OneVec
    <3>2. end = d \o g
      BY TwoVec
    <3> HIDE DEF d, f, g, end
    <3>3. IsVec(first) /\ IsVec(f) /\ IsVec(stmts) /\ IsVec(d) /\ IsVec(g)
      BY <3>1, <1>10, <1>11
    <3> QED
      BY <3>2, <3>3, SectionAfter, SMTT(30)
  <2>6. ((f \o stmts) \o d) = Section(then, stmts, merge)
    BY DEF Section
  <2> QED
    BY <2>3, <2>4, <2>5, <2>6 DEF p, e
<1> HIDE DEF v, term, w
<1>17. LowerOK(lists, begins, lps, Terminate(r, term), v \o t)
  BY <1>2, <1>5, <1>7, <1>14, <1>15, BranchesKeep
<1> QED
  BY <1>16, <1>17 DEF w, t, r, n, term, label, then, merge, else, stmts, others

\* A condition stays one whatever comes after.
LEMMA ConditionMore ==
  ASSUME NEW u, NEW v, IsVec(u), IsVec(v), IsCondition(u)
  PROVE  IsCondition(u \o v)
<1> DEFINE w == u \o v
<1>1. /\ IsVec(w) /\ Len(w) = Len(u) + Len(v)
      /\ \A i \in 1 .. Len(u) : w[i] = u[i]
  BY ConcatVec
<1>2. /\ Len(u) \in Nat /\ Len(v) \in Nat
      /\ DOMAIN u = 1 .. Len(u) /\ DOMAIN w = 1 .. Len(w)
  BY <1>1, VecProps
<1> HIDE DEF w
<1>3. PICK k \in DOMAIN u : u[k].stmt = "Decide" /\ \A j \in 1 .. (k - 1) : u[j].stmt \in Straight
  BY DEF IsCondition
<1>4. k \in DOMAIN w /\ w[k] = u[k] /\ \A j \in 1 .. (k - 1) : w[j] = u[j]
  BY <1>1, <1>2
<1> QED
  BY <1>3, <1>4 DEF IsCondition, w

\* loop_begins.insert and loop_ends.insert.
Inserted(lps, loop, begin, end) ==
  [l \in DOMAIN lps \cup {loop} |-> IF l = loop THEN [begin |-> begin, end |-> end] ELSE lps[l]]

LEMMA LoopInserted ==
  ASSUME NEW lps, NEW loop, NEW cond, NEW merge, NEW after, loop \notin LoopsInto(lps, after), merge \notin after,
         NEW fresh, \A i \in DOMAIN lps : lps[i].end \notin fresh, merge \in fresh, 
         NEW now, now = Inserted(lps, loop, cond, merge)
  PROVE  /\ \A A \in SUBSET after : LoopsInto(now, A) = LoopsInto(lps, A)
         /\ \A l \in DOMAIN now : \/ l \in DOMAIN lps /\ now[l].end = lps[l].end
                                  \/ now[l].end = merge
         /\ \A A \in SUBSET fresh : merge \in A => LoopsInto(now, A \cup after) = LoopsInto(lps, after) \cup {loop}
<1>1. /\ DOMAIN now = DOMAIN lps \cup {loop} /\ now[loop].end = merge
      /\ \A l \in DOMAIN lps : l # loop => now[l] = lps[l]
  BY DEF Inserted
<1>2. \A A \in SUBSET after : LoopsInto(now, A) = LoopsInto(lps, A)
  BY <1>1 DEF LoopsInto
<1>3. \A l \in DOMAIN now : \/ l \in DOMAIN lps /\ now[l].end = lps[l].end
                            \/ now[l].end = merge
  BY <1>1
<1>4. ASSUME NEW A \in SUBSET fresh, merge \in A
      PROVE  LoopsInto(now, A \cup after) = LoopsInto(lps, after) \cup {loop}
  BY <1>1, <1>4 DEF LoopsInto
<1> QED
  BY <1>2, <1>3, <1>4

LEMMA LoopsInserted ==
  ASSUME NEW lps, NEW r, NEW begins, LoopsOK(lps, r, begins), NEW loop, NEW cond,
         NEW blocks, DOMAIN r \subseteq DOMAIN blocks, NEW merge \in DOMAIN blocks \ {EntryBlock}
  PROVE  LoopsOK(Inserted(lps, loop, cond, merge), blocks, begins \cup {cond})
BY DEF LoopsOK, Inserted

LEMMA WhileKeeps ==
  ASSUME NEW lists, AreScoped(lists), NEW begins, NEW lps, NEW bl, NEW u, LowerOK(lists, begins, lps, bl, u),
         u # <<>>, Head(u).stmt = "While"
  PROVE  LET cond == FreshBlock(bl, 1)
             body == FreshBlock(bl, 2)
             merge == FreshBlock(bl, 3)
         IN  \E more : LowerOK(lists, more, Inserted(lps, Head(u).loop, cond, merge),
                     SwitchToBlock(Terminate(NewBlocks(bl, 3), Goto(cond)), cond),
                     (Head(u).setup \o <<Decide(Head(u).label, body, merge), Enter(body)>> \o Head(u).body
                        \o <<Close(cond), Enter(merge)>>) \o Tail(u))
<1> DEFINE t == Tail(u)
           stmts == Head(u).body
           setup == Head(u).setup
           label == Head(u).label
           loop == Head(u).loop
           l == Len(bl.blocks)
           cond == FreshBlock(bl, 1)
           body == FreshBlock(bl, 2)
           merge == FreshBlock(bl, 3)
           n == 3
           fresh == (l + 1) .. (l + n)
           r == NewBlocks(bl, n)
           s == SwitchToBlock(Terminate(r, Goto(cond)), cond)
           now == Inserted(lps, loop, cond, merge)
           more == begins \cup {cond}
           d == Decide(label, body, merge)
           q == setup \o <<d>>
           section == Section(body, stmts, cond)
           v == (q \o section) \o <<Enter(merge)>>
           w == setup \o <<d, Enter(body)>> \o stmts \o <<Close(cond), Enter(merge)>>
<1>1. PICK x, next, after : Taken(lists, begins, lps, bl, u, x, next, after)
  BY TakenProps
<1>2. /\ ItemsOK(lists, begins, lps, t, "End", {}) /\ next = KindAt(t, 1, "End") /\ after = EnteredIn(t)
      /\ x = Head(u) /\ x.stmt = "While" /\ x.stmt \in Statements
  BY <1>1 DEF Taken, Statements
<1>3. /\ IsScopedStmt(lists, x, LoopsInto(lps, after), EndBefore(next)) /\ next \notin {"Enter", "Arms"}
      /\ ~ IsTerminated(bl) /\ Written(bl, begins, after) /\ LoopsOK(lps, bl.blocks, begins)
      /\ bl.current \notin begins
  BY <1>1, <1>2, TakenStatement DEF Straight
<1> DEFINE inside == LoopsInto(lps, after)
           both == {merge} \cup after
           all == {body} \cup both
<1>4. /\ loop \notin inside
      /\ \A y \in ToSet(setup) : y.stmt \in Straight
      /\ List(setup, inside \cup {loop}, GoesOn) \in lists
      /\ List(stmts, inside \cup {loop}, MayJump) \in lists
  BY <1>2, <1>3 DEF IsScopedStmt
<1>5. /\ l \in Nat
      /\ Written(r, begins, fresh \cup after) /\ LoopsOK(lps, r.blocks, begins)
      /\ ~ IsTerminated(r) /\ r.current \notin begins
      /\ fresh \cap after = {} /\ fresh \subseteq DOMAIN r.blocks \ {EntryBlock}
      /\ \A i \in DOMAIN lps : lps[i].end \notin fresh
  <2>1. n \in Nat
    OBVIOUS
  <2> HIDE DEF n
  <2> QED
    BY <2>1, <1>3, FreshBlocks
<1>6. /\ fresh = {cond, body, merge} /\ cond # merge /\ body # merge /\ body # cond
  <2>1. cond = l + 1 /\ body = l + 2 /\ merge = l + 3
    BY DEF FreshBlock
  <2> HIDE DEF cond, body, merge, l, r
  <2> QED
    BY <2>1, <1>5
<1> HIDE DEF t, stmts, setup, label, loop, l, cond, body, merge, fresh, r, n
<1>7. /\ Written(s, more, (fresh \cup after) \ {cond})
      /\ s.current = cond /\ Len(s.blocks) = Len(r.blocks) /\ ~ IsTerminated(s)
  <2>1. ASSUME NEW pending, pending = fresh \cup after
        PROVE  /\ Written(s, more, pending \ {cond})
               /\ s.current = cond /\ Len(s.blocks) = Len(r.blocks) /\ ~ IsTerminated(s)
    <3>1. Written(r, begins, pending) /\ cond \in pending
      BY <2>1, <1>5, <1>6
    <3> QED
      BY <3>1, <1>5, <1>6, WrittenInto
  <2> QED
    BY <2>1
<1>8. (fresh \cup after) \ {cond} = all
  BY <1>5, <1>6
<1>9. LoopsOK(now, s.blocks, more)
  <2>1. DOMAIN r.blocks = DOMAIN s.blocks /\ merge \in DOMAIN r.blocks \ {EntryBlock}
    <3> HIDE DEF s
    <3>1. DOMAIN r.blocks = 1 .. Len(r.blocks)
      BY <1>5, WrittenProps
    <3>2. DOMAIN s.blocks = 1 .. Len(s.blocks)
      BY <1>7, WrittenProps
    <3> QED
      BY <3>1, <3>2, <1>5, <1>6, <1>7
  <2> HIDE DEF s
  <2> QED
    BY <2>1, <1>5, LoopsInserted
<1> HIDE DEF s, now
<1>10. /\ \A A \in SUBSET after : LoopsInto(now, A) = LoopsInto(lps, A)
       /\ \A i \in DOMAIN now : \/ i \in DOMAIN lps /\ now[i].end = lps[i].end
                                \/ now[i].end = merge
       /\ LoopsInto(now, both) = inside \cup {loop}
       /\ LoopsInto(now, all) = inside \cup {loop}
  <2>1. merge \notin after /\ merge \in fresh
    BY <1>5, <1>6
  <2>2. now = Inserted(lps, loop, cond, merge)
    BY DEF now
  <2>3. /\ \A A \in SUBSET after : LoopsInto(now, A) = LoopsInto(lps, A)
        /\ \A i \in DOMAIN now : \/ i \in DOMAIN lps /\ now[i].end = lps[i].end
                                 \/ now[i].end = merge
        /\ \A A \in SUBSET fresh : merge \in A => LoopsInto(now, A \cup after) = LoopsInto(lps, after) \cup {loop}
    BY <2>1, <2>2, <1>4, <1>5, LoopInserted
  <2>4. {merge} \in SUBSET fresh /\ {body, merge} \in SUBSET fresh
    BY <1>6
  <2>5. all = {body, merge} \cup after
    OBVIOUS
  <2> QED
    BY <2>3, <2>4, <2>5
<1>11. ItemsOK(lists, more, now, t, "End", {})
  <2>1. EnteredIn(t) \cup {} = after /\ begins \subseteq more /\ merge \notin EnteredIn(t)
    BY <1>2, <1>5, <1>6
  <2>2. \A A \in SUBSET (EnteredIn(t) \cup {}) : LoopsInto(now, A) = LoopsInto(lps, A)
    BY <2>1, <1>10
  <2>3. \A i \in DOMAIN now : \/ i \in DOMAIN lps /\ now[i].end = lps[i].end
                              \/ now[i].end \notin EnteredIn(t)
    BY <2>1, <1>10
  <2> HIDE DEF more
  <2> QED
    BY <2>1, <2>2, <2>3, <1>2, ItemsKept
<1>12. /\ IsVec(stmts) /\ EnteredIn(stmts) = {}
       /\ IsVec(setup) /\ EnteredIn(setup) = {}
       /\ \A i \in DOMAIN setup : setup[i].stmt \in Straight
  <2>1. \A i \in DOMAIN setup : setup[i] \in ToSet(setup)
    BY DEF ToSet
  <2> QED
    BY <2>1, <1>4, ListStmts
<1>13. /\ d.stmt = "Decide" /\ d.then = body /\ d.else = merge /\ Entered(d) = {}
  BY DEF Decide, Entered
<1> HIDE DEF d
<1> DEFINE f == <<d>>
<1>14. IsVec(f) /\ EnteredIn(f) = {} /\ KindAt(f, 1, "Enter") = "Decide" /\ IsCondition(f)
  <2>1. IsVec(f) /\ DOMAIN f = {1} /\ f[1] = d
    BY OneVec
  <2>2. EnteredIn(f) = {} /\ KindAt(f, 1, "Enter") = "Decide"
    BY <1>13, OneItem
  <2> HIDE DEF f
  <2>3. 1 \in DOMAIN f /\ f[1].stmt = "Decide" /\ 1 .. (1 - 1) = {}
    BY <2>1, <1>13
  <2> QED
    BY <2>1, <2>2, <2>3 DEF IsCondition
<1> HIDE DEF f, both, all, more, inside
<1>15. ASSUME NEW kind, kind = "Decide"
       PROVE  ItemsOK(lists, more, now, setup, kind, all) /\ KindAt(setup, 1, kind) \in Statements \cup {kind}
  <2>1. kind \notin {"Enter", "Arms"} /\ List(setup, LoopsInto(now, all), EndBefore(kind)) \in lists
    BY <1>4, <1>10, <1>15 DEF EndBefore
  <2> QED
    BY <2>1, ListItems
<1>16. ASSUME NEW kind, kind = "Enter"
       PROVE  ItemsOK(lists, more, now, q, kind, all)
  <2>1. ItemOK(lists, more, now, d, kind, all)
    BY <1>13, <1>16 DEF ItemOK, all, both
  <2>2. PICK decide : decide = "Decide"
    OBVIOUS
  <2>3. ItemsOK(lists, more, now, setup, decide, all)
    BY <2>2, <1>15
  <2>4. f = <<d>> /\ decide = d.stmt /\ all = Entered(d) \cup all
    BY <2>2, <1>13 DEF f
  <2>5. ItemsOK(lists, more, now, setup \o f, kind, all)
    BY <2>1, <2>3, <2>4, ItemsThen
  <2> QED
    BY <2>5 DEF f
<1>17. IsVec(q) /\ EnteredIn(q) = {} /\ KindAt(q, 1, "Enter") \in Statements \cup {"Decide"} /\ IsCondition(q)
  <2>1. IsVec(setup \o f) /\ EnteredIn(setup \o f) = {}
    BY <1>12, <1>14, ConcatVec, EnteredConcat
  <2>2. KindAt(setup \o f, 1, "Enter") = KindAt(setup, 1, "Decide")
    BY <1>12, <1>14, KindConcat
  <2>3. IsCondition(setup \o f)
    BY <1>12, <1>14, ConditionBefore
  <2> QED
    BY <2>1, <2>2, <2>3, <1>15 DEF f
<1> HIDE DEF q
<1>18. ItemsOK(lists, more, now, v, next, after)
  <2>1. both = {merge} \cup after /\ all = {body} \cup both /\ merge \notin after /\ body \notin both /\ cond \in more \cup both
    BY <1>5, <1>6 DEF both, all, more
  <2>2. List(stmts, LoopsInto(now, both), MayJump) \in lists
    BY <1>4, <1>10
  <2>3. PICK kind : kind = "Enter"
    OBVIOUS
  <2>4. ItemsOK(lists, more, now, q, kind, all)
    BY <2>3, <1>16
  <2> QED
    BY <2>1, <2>2, <2>3, <2>4, <1>3, EndsWithSection
<1>19. /\ EnteredIn(v) = {body, merge} /\ KindAt(v, 1, next) \in Statements \cup {"Decide"}
       /\ IsVec(v) /\ IsCondition(v)
  <2> DEFINE e == Enter(merge)
             end == <<e>>
  <2>1. IsVec(section) /\ EnteredIn(section) = {body}
    BY <1>12, SectionEntered
  <2>2. KindAt(section, 1, "Enter") = "Enter"
    BY <1>12, SectionKind
  <2>3. e.stmt = "Enter" /\ Entered(e) = {merge} /\ IsVec(end)
    BY ItemFields, OneVec
  <2> HIDE DEF section, e
  <2>4. end = <<e>>
    OBVIOUS
  <2> HIDE DEF end
  <2>5. /\ EnteredIn((q \o section) \o end) = EnteredIn(q) \cup EnteredIn(section) \cup Entered(e)
        /\ \A k : KindAt((q \o section) \o end, 1, k) = KindAt(q, 1, "Enter")
    BY <1>17, <2>1, <2>2, <2>3, <2>4, EndsEntered
  <2>6. IsVec(q \o section) /\ IsCondition(q \o section)
    BY <1>17, <2>1, ConcatVec, ConditionMore
  <2>7. IsVec((q \o section) \o end) /\ IsCondition((q \o section) \o end)
    BY <2>3, <2>6, ConcatVec, ConditionMore
  <2>8. v = (q \o section) \o end
    BY DEF section, end, e
  <2> HIDE DEF v
  <2> QED
    BY <2>1, <2>3, <2>5, <2>7, <2>8, <1>17
<1>20. v = w
  <2> DEFINE y == Enter(merge)
             e == Enter(body)
             c == Close(cond)
             g == <<e>>
             h == <<c>>
             i == <<y>>
             end == <<c, y>>
  <2>1. IsVec(g) /\ IsVec(h) /\ IsVec(i) /\ end = h \o i
    BY OneVec, TwoVec
  <2>2. setup \o <<d, e>> = (setup \o <<d>>) \o <<e>>
    <3> HIDE DEF e
    <3> QED
      BY <1>12, TwoMore
  <2>3. setup \o <<d, e>> = q \o g
    BY <2>2 DEF q
  <2>4. section = (g \o stmts) \o h
    BY DEF Section
  <2> HIDE DEF y, e, c, g, h, i, end, section
  <2>5. IsVec(q) /\ IsVec(g) /\ IsVec(stmts) /\ IsVec(h) /\ IsVec(i) /\ end = h \o i
    BY <2>1, <1>12, <1>17
  <2>6. ((q \o g) \o stmts) \o end = (q \o ((g \o stmts) \o h)) \o i
    BY <2>5, SectionAfter
  <2>7. v = (q \o section) \o i
    BY DEF v, i, y
  <2>8. w = ((setup \o <<d, e>>) \o stmts) \o end
    BY DEF w, e, end, c, y
  <2> QED
    BY <2>3, <2>4, <2>6, <2>7, <2>8
<1> HIDE DEF v, w
<1>21. Written(s, more, EnteredIn(v) \cup EnteredIn(t))
  <2>1. EnteredIn(v) \cup EnteredIn(t) = all
    BY <1>2, <1>19 DEF all, both
  <2> QED
    BY <2>1, <1>7, <1>8
<1>22. ConditionOK(s, more, v \o t) /\ CurrentOK(s, KindAt(v, 1, next))
  <2>1. IsVec(t)
    BY <1>2 DEF ItemsOK
  <2>2. IsCondition(v \o t)
    BY <2>1, <1>19, ConditionMore
  <2> QED
    BY <2>2, <1>7, <1>19 DEF ConditionOK, CurrentOK, Statements
<1>23. LowerOK(lists, more, now, s, v \o t)
  BY <1>2, <1>9, <1>11, <1>18, <1>21, <1>22, GivesBack
<1> QED
  BY <1>20, <1>23 DEF w, t, s, r, n, now, d, label, loop, cond, body, merge, stmts, setup

\* Four items one by one.
IsFour(v, x, y, z, k) == v = ((<<x>> \o <<y>>) \o <<z>>) \o <<k>>

LEMMA FourVec ==
  ASSUME NEW x, NEW y, NEW z, NEW k
  PROVE  IsFour(<<x, y, z, k>>, x, y, z, k)
<1> DEFINE v == ((<<x>> \o <<y>>) \o <<z>>) \o <<k>>
           w == <<x, y, z, k>>
<1>1. <<x, y>> = <<x>> \o <<y>>
  BY TwoVec
<1>2. IsVec(<<x, y>>) /\ Len(<<x, y>>) = 2 /\ <<x, y>>[1] = x /\ <<x, y>>[2] = y
  <2>1. <<x, y>> \in Seq({x, y})
    OBVIOUS
  <2>2. IsVec(<<x, y>>)
    BY <2>1, FromSeq
  <2> QED
    BY <2>2
<1>3. ASSUME NEW p, IsVec(p), Len(p) = 2, p[1] = x, p[2] = y
      PROVE  LET c == (p \o <<z>>) \o <<k>>
             IN  IsVec(c) /\ Len(c) = 4 /\ c[1] = x /\ c[2] = y /\ c[3] = z /\ c[4] = k
  <2> DEFINE q == <<z>>
             r == <<k>>
             c == p \o q
  <2>1. IsVec(q) /\ Len(q) = 1 /\ q[1] = z /\ IsVec(r) /\ Len(r) = 1 /\ r[1] = k
    BY OneVec
  <2> HIDE DEF q, r
  <2>2. /\ IsVec(c) /\ Len(c) = Len(p) + Len(q)
        /\ \A i \in 1 .. Len(p) : c[i] = p[i]
        /\ \A i \in 1 .. Len(q) : c[Len(p) + i] = q[i]
    <3>1. IsVec(p) /\ IsVec(q)
      BY <1>3, <2>1
    <3> QED
      BY <3>1, ConcatVec
  <2>3. IsVec(c) /\ Len(c) = 3 /\ c[1] = x /\ c[2] = y /\ c[3] = z
    BY <1>3, <2>1, <2>2
  <2> HIDE DEF c
  <2>4. /\ IsVec(c \o r) /\ Len(c \o r) = Len(c) + Len(r)
        /\ \A i \in 1 .. Len(c) : (c \o r)[i] = c[i]
        /\ \A i \in 1 .. Len(r) : (c \o r)[Len(c) + i] = r[i]
    <3>1. IsVec(c) /\ IsVec(r)
      BY <2>1, <2>3
    <3> QED
      BY <3>1, ConcatVec
  <2>5. IsVec(c \o r) /\ Len(c \o r) = 4 /\ (c \o r)[1] = x /\ (c \o r)[2] = y /\ (c \o r)[3] = z /\ (c \o r)[4] = k
    BY <2>1, <2>3, <2>4
  <2> QED
    BY <2>5 DEF c, q, r
<1>4. IsVec(v) /\ Len(v) = 4 /\ v[1] = x /\ v[2] = y /\ v[3] = z /\ v[4] = k
  <2> DEFINE p == <<x, y>>
  <2>1. IsVec(p) /\ Len(p) = 2 /\ p[1] = x /\ p[2] = y
    BY <1>2
  <2>2. v = (p \o <<z>>) \o <<k>>
    BY <1>1
  <2> HIDE DEF p, v
  <2> QED
    BY <2>1, <2>2, <1>3
<1>5. IsVec(w) /\ Len(w) = 4 /\ w[1] = x /\ w[2] = y /\ w[3] = z /\ w[4] = k
  <2>1. w \in Seq({x, y, z, k})
    OBVIOUS
  <2>2. IsVec(w)
    BY <2>1, FromSeq
  <2> QED
    BY <2>2
<1> HIDE DEF v, w
<1>6. \A i \in 1 .. Len(v) : v[i] = w[i]
  BY <1>4, <1>5
<1>7. v = w
  BY <1>4, <1>5, <1>6, SameVec
<1> QED
  BY <1>7 DEF v, w, IsFour

\* What a match leaves to do.
MatchTodo(arms, body, diverge, merge) ==
  <<Arms(arms, body, merge), Enter(diverge), Unreachable, Enter(merge)>>

LEMMA MatchEntered ==
  ASSUME NEW arms, NEW body, NEW diverge, NEW merge
  PROVE  LET v == MatchTodo(arms, body, diverge, merge)
         IN  /\ EnteredIn(v) = (body .. (body + Len(arms) - 1)) \cup {diverge, merge}
             /\ \A k : KindAt(v, 1, k) = "Arms"
<1> DEFINE bodies == body .. (body + Len(arms) - 1)
           x1 == Arms(arms, body, merge)
           x2 == Enter(diverge)
           x3 == Unreachable
           x4 == Enter(merge)
           w1 == <<x1>>
           w2 == <<x2>>
           w3 == <<x3>>
           w4 == <<x4>>
<1>1. x1.stmt = "Arms" /\ Entered(x1) = bodies
  BY DEF Arms, Entered
<1>2. /\ x2.stmt = "Enter" /\ x2.block = diverge /\ Entered(x2) = {diverge}
      /\ x4.stmt = "Enter" /\ x4.block = merge /\ Entered(x4) = {merge}
  BY ItemFields
<1>3. x3.stmt = "Unreachable" /\ Entered(x3) = {}
  BY DEF Unreachable, Entered
<1> HIDE DEF x1, x2, x3, x4, bodies
<1>4. MatchTodo(arms, body, diverge, merge) = ((w1 \o w2) \o w3) \o w4
  <2>1. MatchTodo(arms, body, diverge, merge) = <<x1, x2, x3, x4>>
    BY DEF MatchTodo, x1, x2, x3, x4
  <2>2. IsFour(<<x1, x2, x3, x4>>, x1, x2, x3, x4)
    BY FourVec, Zenon
  <2> QED
    BY <2>1, <2>2, Zenon DEF IsFour
<1>5. /\ w1 = <<x1>> /\ w2 = <<x2>> /\ w3 = <<x3>> /\ w4 = <<x4>>
      /\ IsVec(w1) /\ IsVec(w2) /\ IsVec(w3) /\ IsVec(w4)
  BY OneVec
<1> HIDE DEF w1, w2, w3, w4
<1> DEFINE u2 == w1 \o w2
           u3 == u2 \o w3
<1>6. IsVec(u2) /\ EnteredIn(u2) = bodies \cup {diverge} /\ \A k : KindAt(u2, 1, k) = "Arms"
  <2>1. EnteredIn(w1) = bodies /\ \A k : KindAt(w1, 1, k) = "Arms"
    BY <1>1, <1>5, OneItem
  <2>2. /\ IsVec(w1 \o w2) /\ EnteredIn(w1 \o w2) = EnteredIn(w1) \cup Entered(x2)
        /\ \A k : KindAt(w1 \o w2, 1, k) = KindAt(w1, 1, x2.stmt)
    BY <1>5, EnteredThen
  <2> QED
    BY <2>1, <2>2, <1>2
<1> HIDE DEF u2
<1>7. IsVec(u3) /\ EnteredIn(u3) = EnteredIn(u2) /\ \A k : KindAt(u3, 1, k) = "Arms"
  <2>1. /\ IsVec(u2 \o w3) /\ EnteredIn(u2 \o w3) = EnteredIn(u2) \cup Entered(x3)
        /\ \A k : KindAt(u2 \o w3, 1, k) = KindAt(u2, 1, x3.stmt)
    <3>1. IsVec(u2) /\ w3 = <<x3>>
      BY <1>5, <1>6
    <3> QED
      BY <3>1, EnteredThen
  <2> QED
    BY <2>1, <1>3, <1>6
<1> HIDE DEF u3
<1>8. /\ EnteredIn(u3 \o w4) = EnteredIn(u3) \cup Entered(x4)
      /\ \A k : KindAt(u3 \o w4, 1, k) = KindAt(u3, 1, x4.stmt)
  <2>1. IsVec(u3) /\ w4 = <<x4>>
    BY <1>5, <1>7
  <2> QED
    BY <2>1, EnteredThen
<1> QED
  BY <1>2, <1>4, <1>6, <1>7, <1>8 DEF u2, u3, bodies

LEMMA MatchItems ==
  ASSUME NEW lists, NEW begins, NEW lps, NEW next, NEW after, next \notin {"Enter", "Arms"},
         NEW arms, IsVec(arms), NEW body \in Nat, NEW merge, merge \notin after,
         NEW diverge, diverge \notin {merge} \cup after,
         NEW bodies, bodies = body .. (body + Len(arms) - 1), bodies \cap ({diverge, merge} \cup after) = {},
         \A i \in DOMAIN lps : lps[i].end \notin bodies \cup {diverge, merge},
         \A arm \in ToSet(arms) : List(arm, LoopsInto(lps, after), MayJump) \in lists
  PROVE  ItemsOK(lists, begins, lps, MatchTodo(arms, body, diverge, merge), next, after)
<1> DEFINE x1 == Arms(arms, body, merge)
           x2 == Enter(diverge)
           x3 == Unreachable
           x4 == Enter(merge)
           A1 == {merge} \cup after
           A2 == {diverge} \cup A1
           w1 == <<x1>>
           w2 == <<x2>>
           w3 == <<x3>>
           w4 == <<x4>>
<1>1. /\ x1.stmt = "Arms" /\ x1.arms = arms /\ x1.body = body /\ x1.merge = merge
      /\ Entered(x1) = bodies
  BY DEF Arms, Entered
<1>2. /\ x2.stmt = "Enter" /\ x2.block = diverge /\ Entered(x2) = {diverge}
      /\ x4.stmt = "Enter" /\ x4.block = merge /\ Entered(x4) = {merge}
  BY ItemFields
<1>3. x3.stmt = "Unreachable" /\ Entered(x3) = {}
  BY DEF Unreachable, Entered
<1>4. LoopsInto(lps, A2) = LoopsInto(lps, after)
  BY DEF LoopsInto
<1> HIDE DEF x1, x2, x3, x4
<1>5. MatchTodo(arms, body, diverge, merge) = ((w1 \o w2) \o w3) \o w4
  <2>1. MatchTodo(arms, body, diverge, merge) = <<x1, x2, x3, x4>>
    BY DEF MatchTodo, x1, x2, x3, x4
  <2>2. IsFour(<<x1, x2, x3, x4>>, x1, x2, x3, x4)
    BY FourVec, Zenon
  <2> QED
    BY <2>1, <2>2, Zenon DEF IsFour
<1>6. ASSUME NEW kind, kind = "Enter" PROVE ItemOK(lists, begins, lps, x1, kind, A2)
  BY <1>1, <1>4, <1>6 DEF ItemOK
<1>7. ASSUME NEW kind, kind = "Unreachable" PROVE ItemOK(lists, begins, lps, x2, kind, A1)
  BY <1>2, <1>7 DEF ItemOK
<1>8. ASSUME NEW kind, kind = "Enter" PROVE ItemOK(lists, begins, lps, x3, kind, A1)
  BY <1>3, <1>8 DEF ItemOK
<1>9. ItemOK(lists, begins, lps, x4, next, after)
  BY <1>2 DEF ItemOK
<1>10. /\ w1 = <<x1>> /\ w2 = <<x2>> /\ w3 = <<x3>> /\ w4 = <<x4>>
       /\ IsVec(w1) /\ IsVec(w2) /\ IsVec(w3) /\ IsVec(w4)
  BY OneVec
<1>11. /\ A2 = Entered(x2) \cup A1 /\ A1 = Entered(x3) \cup A1 /\ A1 = Entered(x4) \cup after
  BY <1>2, <1>3
<1> HIDE DEF w1, w2, w3, w4, A1, A2
<1>12. PICK enter, unreachable : enter = "Enter" /\ unreachable = "Unreachable"
  OBVIOUS
<1>13. ItemsOK(lists, begins, lps, w1, enter, A2)
  BY <1>6, <1>10, <1>12, ItemsOne
<1>14. ItemsOK(lists, begins, lps, w1 \o w2, unreachable, A1)
  <2>1. ItemOK(lists, begins, lps, x2, unreachable, A1) /\ enter = x2.stmt
    BY <1>2, <1>7, <1>12
  <2> QED
    BY <2>1, <1>10, <1>11, <1>13, ItemsThen
<1> DEFINE u2 == w1 \o w2
           u3 == u2 \o w3
<1>15. ItemsOK(lists, begins, lps, u2, unreachable, A1)
  BY <1>14
<1> HIDE DEF u2
<1>16. ItemsOK(lists, begins, lps, u2 \o w3, enter, A1)
  <2>1. ItemOK(lists, begins, lps, x3, enter, A1) /\ unreachable = x3.stmt
    BY <1>3, <1>8, <1>12
  <2> QED
    BY <2>1, <1>10, <1>11, <1>15, ItemsThen
<1>17. ItemsOK(lists, begins, lps, u3, enter, A1)
  BY <1>16
<1> HIDE DEF u3
<1>18. ItemsOK(lists, begins, lps, u3 \o w4, next, after)
  <2>1. enter = x4.stmt
    BY <1>2, <1>12
  <2> QED
    BY <2>1, <1>9, <1>10, <1>11, <1>17, ItemsThen
<1> QED
  BY <1>5, <1>18 DEF u2, u3

\* A node ends its block with a way to a block of the match, and goes to one of an arm.
LEMMA EndOfOK ==
  ASSUME NEW tree, NEW n \in Nat, IsTree(tree, n), NEW at \in DOMAIN tree,
         NEW merge \in Nat \ {0, EntryBlock}, NEW diverge, diverge = merge + n + 1,
         NEW blocks, DOMAIN blocks = 1 .. (diverge + (Len(tree) - 1))
  PROVE  LET term == EndOf(tree[at], merge, diverge)
         IN  /\ TermOK(blocks, term)
             /\ term.kind = "Goto" => term.targets[1] \in (merge + 1) .. (merge + n)
<1> DEFINE node == tree[at]
           term == EndOf(node, merge, diverge)
           k == Len(tree)
           first == (merge + 1) .. (merge + n)
<1>1. /\ IsVec(tree)
      /\ \/ node.node = "Leaf" /\ node.arm \in 1 .. n
         \/ node.node = "Fail"
         \/ /\ node.node = "Cases"
            /\ IsVec(node.ways)
            /\ ToSet(node.ways) \subseteq {Uncovered} \cup ((at + 1) .. k)
  BY DEF IsTree
<1>2. k \in Nat /\ at \in 1 .. k
  BY <1>1, VecProps
<1> HIDE DEF node, k
<1>3. DOMAIN blocks = 1 .. (diverge + (k - 1)) /\ diverge \in Nat
  BY DEF k
<1>4. CASE node.node = "Leaf" /\ node.arm \in 1 .. n
  <2> DEFINE c == merge + node.arm
  <2>1. term = Goto(c)
    BY <1>4 DEF EndOf
  <2>2. c \in first /\ c \in DOMAIN blocks \ {EntryBlock}
    BY <1>2, <1>3, <1>4 DEF EntryBlock
  <2> HIDE DEF c, first, term
  <2>3. TermOK(blocks, Goto(c)) /\ Goto(c).targets[1] = c
    BY <2>2, TermsOK
  <2> QED
    BY <2>1, <2>2, <2>3 DEF first, term, node
<1>5. CASE node.node = "Fail"
  <2>1. term = Diverge
    BY <1>5 DEF EndOf
  <2> HIDE DEF term
  <2> QED
    BY <2>1, EndsOK DEF term, node
<1>6. CASE node.node = "Cases" /\ IsVec(node.ways) /\ ToSet(node.ways) \subseteq {Uncovered} \cup ((at + 1) .. k)
  <2> DEFINE w == node.ways
             targets == [i \in 1 .. Len(w) |->
                           IF w[i] = Uncovered THEN diverge ELSE diverge + (w[i] - 1)]
  <2>1. term = Switch(node.label, targets)
    BY <1>6 DEF EndOf
  <2>2. Len(w) \in Nat /\ DOMAIN w = 1 .. Len(w) /\ \A i \in DOMAIN w : w[i] \in {Uncovered} \cup ((at + 1) .. k)
    BY <1>6, VecProps DEF ToSet
  <2> DEFINE S == DOMAIN blocks \ {EntryBlock}
  <2>3. ASSUME NEW i \in 1 .. Len(w)
        PROVE  (IF w[i] = Uncovered THEN diverge ELSE diverge + (w[i] - 1)) \in S
    <3> DEFINE y == w[i]
    <3>1. y = Uncovered \/ y \in (at + 1) .. k
      BY <2>2, <2>3
    <3> HIDE DEF y, w
    <3>2. diverge \in S
      BY <1>2, <1>3 DEF EntryBlock
    <3>3. y \in (at + 1) .. k => diverge + (y - 1) \in S
      BY <1>2, <1>3 DEF EntryBlock
    <3> QED
      BY <3>1, <3>2, <3>3 DEF y, Uncovered
  <2>4. targets \in [1 .. Len(w) -> S]
    BY <2>3
  <2> HIDE DEF targets, S, w
  <2>5. IsVec(targets) /\ ToSet(targets) \subseteq S
    <3>1. IsVec(targets) /\ DOMAIN targets = 1 .. Len(w)
      BY <2>2, <2>4, FunctionIsVec
    <3> QED
      BY <3>1, <2>4 DEF ToSet
  <2> HIDE DEF term
  <2>6. TermOK(blocks, term) /\ term.kind # "Goto"
    <3>1. ASSUME NEW kind, kind = "Switch"
          PROVE  LET made == Terminator(kind, node.label, <<>>, targets)
                 IN  TermOK(blocks, made) /\ made.kind # "Goto"
      BY <3>1, <2>5, WaysOK DEF S
    <3> QED
      BY <2>1, <3>1 DEF Switch
  <2> QED
    BY <2>6 DEF term, node
<1> QED
  BY <1>1, <1>4, <1>5, <1>6

\* The blocks of a match: those of its arms and ends in q, then those of its nodes in r.
HasNodes(bl, begins, after, lps, n, k, fresh, ends, q, r, term) ==
  LET l == Len(bl.blocks)
  IN  /\ l \in Nat \ {0} /\ k \in Nat /\ IsVec(ends) /\ Len(ends) = k
      /\ Written(q, begins, fresh \cup after) /\ Len(q.blocks) = l + (n + 2)
      /\ q.current = bl.current /\ ~ IsTerminated(q)
      /\ Written(r, begins, fresh \cup after) /\ LoopsOK(lps, r.blocks, begins)
      /\ r.current = bl.current /\ ~ IsTerminated(r) /\ r.current \in 1 .. l
      /\ r.finalized = q.finalized \cup ((l + (n + 2) + 1) .. (l + (n + 2) + k))
      /\ DOMAIN r.blocks = 1 .. (l + (n + 2) + k)
      /\ fresh \cap after = {} /\ fresh \subseteq DOMAIN r.blocks \ {EntryBlock}
      /\ \A i \in DOMAIN lps : lps[i].end \notin fresh
      /\ TermOK(r.blocks, term)
      /\ term.kind = "Goto" => term.targets[1] \in fresh

LEMMA MatchWritten ==
  ASSUME NEW begins, NEW bl, NEW after, Written(bl, begins, after), ~ IsTerminated(bl),
         NEW lps, LoopsOK(lps, bl.blocks, begins), NEW n \in Nat, NEW tree, IsTree(tree, n)
  PROVE  LET l == Len(bl.blocks)
             merge == FreshBlock(bl, 1)
             diverge == FreshBlock(bl, n + 2)
             k == Len(tree) - 1
             ends == [i \in 1 .. k |-> EndOf(tree[i + 1], merge, diverge)]
             fresh == (l + 1) .. (l + (n + 2))
             q == NewBlocks(bl, n + 2)
             r == NewEnds(q, ends)
             term == EndOf(tree[1], merge, diverge)
         IN  HasNodes(bl, begins, after, lps, n, k, fresh, ends, q, r, term)
<1> DEFINE l == Len(bl.blocks)
           merge == FreshBlock(bl, 1)
           diverge == FreshBlock(bl, n + 2)
           k == Len(tree) - 1
           ends == [i \in 1 .. k |-> EndOf(tree[i + 1], merge, diverge)]
           m == n + 2
           fresh == (l + 1) .. (l + m)
           q == NewBlocks(bl, m)
           r == NewEnds(q, ends)
           term == EndOf(tree[1], merge, diverge)
           arms == (merge + 1) .. (merge + n)
<1>1. l \in Nat \ {0}
  BY WrittenProps
<1>2. IsVec(tree) /\ DOMAIN tree = 1 .. Len(tree) /\ Len(tree) \in Nat \ {0}
  <2>1. IsVec(tree) /\ tree # <<>>
    BY DEF IsTree
  <2> QED
    BY <2>1, VecProps
<1>3. k \in Nat /\ k = Len(tree) - 1 /\ 1 \in DOMAIN tree /\ \A i \in 1 .. k : i + 1 \in DOMAIN tree
  BY <1>2
<1>4. /\ Written(q, begins, fresh \cup after) /\ LoopsOK(lps, q.blocks, begins)
      /\ q.current = bl.current /\ ~ IsTerminated(q) /\ q.current \in 1 .. l /\ Len(q.blocks) = l + m
      /\ fresh \cap after = {} /\ fresh \subseteq DOMAIN q.blocks \ {EntryBlock}
      /\ \A i \in DOMAIN lps : lps[i].end \notin fresh
  <2>1. m \in Nat
    OBVIOUS
  <2> HIDE DEF m
  <2> QED
    BY <2>1, FreshBlocks
<1>5. merge = l + 1 /\ diverge = l + m /\ m \in Nat /\ m = n + 2
  BY DEF FreshBlock
<1>6. fresh = (l + 1) .. (l + m) /\ arms = (merge + 1) .. (merge + n)
  OBVIOUS
<1>7. ends = [i \in 1 .. k |-> EndOf(tree[i + 1], merge, diverge)] /\ term = EndOf(tree[1], merge, diverge)
  OBVIOUS
<1> HIDE DEF l, merge, diverge, k, m, fresh, q, term, ends, arms
<1>8. merge \in Nat \ {0, EntryBlock} /\ diverge = merge + n + 1 /\ arms \subseteq fresh
  BY <1>1, <1>5, <1>6 DEF EntryBlock
<1>9. ASSUME NEW at \in DOMAIN tree, NEW blocks, DOMAIN blocks = 1 .. (l + m + k)
      PROVE  /\ TermOK(blocks, EndOf(tree[at], merge, diverge))
             /\ EndOf(tree[at], merge, diverge).kind = "Goto" => EndOf(tree[at], merge, diverge).targets[1] \in fresh
  <2>1. DOMAIN blocks = 1 .. (diverge + (Len(tree) - 1))
    BY <1>3, <1>5, <1>9
  <2>2. /\ TermOK(blocks, EndOf(tree[at], merge, diverge))
        /\ EndOf(tree[at], merge, diverge).kind = "Goto" => EndOf(tree[at], merge, diverge).targets[1] \in arms
    BY <2>1, <1>8, EndOfOK DEF arms
  <2> QED
    BY <2>2, <1>8
<1>10. IsVec(ends) /\ Len(ends) = k /\ \A i \in 1 .. k : ends[i] = EndOf(tree[i + 1], merge, diverge)
  <2>1. ends \in [1 .. k -> {EndOf(tree[i + 1], merge, diverge) : i \in 1 .. k}]
    BY <1>7
  <2> QED
    BY <2>1, <1>3, <1>7, FunctionIsVec
<1>11. /\ Written(r, begins, fresh \cup after) /\ r.current = q.current
       /\ r.finalized = q.finalized \cup ((l + m + 1) .. (l + m + k)) /\ Len(r.blocks) = l + m + k
  <2>1. PICK pending : pending = fresh \cup after
    OBVIOUS
  <2>2. Written(q, begins, pending) /\ Len(q.blocks) = l + m
    BY <2>1, <1>4
  <2>3. \A i \in 1 .. Len(ends) : ends[i].kind = "Goto" => ends[i].targets[1] \in pending
    <3> SUFFICES ASSUME NEW i \in 1 .. k PROVE ends[i].kind = "Goto" => ends[i].targets[1] \in pending
      BY <1>10
    <3>1. PICK blocks : blocks = [x \in 1 .. (l + m + k) |-> x]
      OBVIOUS
    <3>2. DOMAIN blocks = 1 .. (l + m + k) /\ i + 1 \in DOMAIN tree
      BY <3>1, <1>3
    <3> QED
      BY <3>2, <1>9, <1>10, <2>1
  <2>4. \A blocks : DOMAIN blocks = 1 .. (Len(q.blocks) + Len(ends)) => \A i \in 1 .. Len(ends) : TermOK(blocks, ends[i])
    <3> SUFFICES ASSUME NEW blocks, DOMAIN blocks = 1 .. (l + m + k), NEW i \in 1 .. k
                 PROVE  TermOK(blocks, ends[i])
      BY <2>2, <1>10
    <3>1. i + 1 \in DOMAIN tree
      BY <1>3
    <3> QED
      BY <3>1, <1>9, <1>10
  <2>5. IsVec(ends)
    BY <1>10
  <2> HIDE DEF r
  <2>6. /\ Written(r, begins, pending)
        /\ r.current = q.current
        /\ r.finalized = q.finalized \cup ((Len(q.blocks) + 1) .. (Len(q.blocks) + Len(ends)))
        /\ Len(r.blocks) = Len(q.blocks) + Len(ends)
    BY <2>2, <2>3, <2>4, <2>5, WrittenEnds DEF r
  <2> QED
    BY <2>1, <2>2, <2>6, <1>10
<1> HIDE DEF r
<1>12. ~ IsTerminated(r)
  <2>1. r.current \notin (l + m + 1) .. (l + m + k)
    BY <1>1, <1>3, <1>4, <1>5, <1>11
  <2> QED
    BY <2>1, <1>4, <1>11 DEF IsTerminated
<1>13. LoopsOK(lps, r.blocks, begins)
  <2>1. Len(r.blocks) >= Len(q.blocks)
    BY <1>1, <1>3, <1>4, <1>5, <1>11
  <2> QED
    BY <2>1, <1>4, <1>11, LoopsKept
<1>14. DOMAIN r.blocks = 1 .. (l + m + k) /\ fresh \subseteq DOMAIN r.blocks \ {EntryBlock}
  <2>1. DOMAIN r.blocks = 1 .. (l + m + k)
    BY <1>11, WrittenProps
  <2> QED
    BY <2>1, <1>1, <1>3, <1>5, <1>6 DEF EntryBlock
<1>15. TermOK(r.blocks, term) /\ (term.kind = "Goto" => term.targets[1] \in fresh)
  BY <1>3, <1>7, <1>9, <1>14
<1>16. HasNodes(bl, begins, after, lps, n, k, fresh, ends, q, r, term)
  BY <1>1, <1>3, <1>4, <1>5, <1>10, <1>11, <1>12, <1>13, <1>14, <1>15 DEF HasNodes, l
<1> QED
  BY <1>16 DEF l, merge, diverge, k, m, fresh, q, r, term, ends

LEMMA MatchKeeps ==
  ASSUME NEW lists, AreScoped(lists), NEW begins, NEW lps, NEW bl, NEW u, LowerOK(lists, begins, lps, bl, u),
         u # <<>>, Head(u).stmt = "Match"
  PROVE  LET arms == Head(u).arms
             tree == Head(u).tree
             n == Len(arms)
             merge == FreshBlock(bl, 1)
             diverge == FreshBlock(bl, n + 2)
             ends == [i \in 1 .. (Len(tree) - 1) |-> EndOf(tree[i + 1], merge, diverge)]
         IN  LowerOK(lists, begins, lps,
                     Terminate(NewEnds(NewBlocks(bl, n + 2), ends), EndOf(tree[1], merge, diverge)),
                     <<Arms(arms, FreshBlock(bl, 2), merge), Enter(diverge), Unreachable, Enter(merge)>> \o Tail(u))
<1> DEFINE t == Tail(u)
           arms == Head(u).arms
           tree == Head(u).tree
           n == Len(arms)
           l == Len(bl.blocks)
           merge == FreshBlock(bl, 1)
           body == FreshBlock(bl, 2)
           diverge == FreshBlock(bl, n + 2)
           k == Len(tree) - 1
           ends == [i \in 1 .. k |-> EndOf(tree[i + 1], merge, diverge)]
           fresh == (l + 1) .. (l + (n + 2))
           entered == body .. (body + n - 1)
           q == NewBlocks(bl, n + 2)
           r == NewEnds(q, ends)
           term == EndOf(tree[1], merge, diverge)
           v == MatchTodo(arms, body, diverge, merge)
<1>1. PICK x, next, after : Taken(lists, begins, lps, bl, u, x, next, after)
  BY TakenProps
<1>2. /\ ItemsOK(lists, begins, lps, t, "End", {}) /\ next = KindAt(t, 1, "End") /\ after = EnteredIn(t)
      /\ x = Head(u) /\ x.stmt = "Match" /\ x.stmt \in Statements
  BY <1>1 DEF Taken, Statements
<1>3. /\ IsScopedStmt(lists, x, LoopsInto(lps, after), EndBefore(next)) /\ next \notin {"Enter", "Arms"}
      /\ ~ IsTerminated(bl) /\ Written(bl, begins, after) /\ LoopsOK(lps, bl.blocks, begins)
      /\ bl.current \notin begins
  BY <1>1, <1>2, TakenStatement DEF Straight
<1>4. /\ IsVec(arms) /\ IsTree(tree, n)
      /\ \A arm \in ToSet(arms) : List(arm, LoopsInto(lps, after), MayJump) \in lists
  BY <1>2, <1>3 DEF IsScopedStmt
<1>5. n \in Nat /\ n = Len(arms)
  BY <1>4, VecProps
<1> HIDE DEF t, arms, tree, n
<1>6. /\ l \in Nat /\ Written(r, begins, fresh \cup after) /\ LoopsOK(lps, r.blocks, begins)
      /\ r.current = bl.current /\ ~ IsTerminated(r)
      /\ fresh \cap after = {} /\ \A i \in DOMAIN lps : lps[i].end \notin fresh
      /\ TermOK(r.blocks, term)
      /\ term.kind = "Goto" => term.targets[1] \in fresh
  <2>1. HasNodes(bl, begins, after, lps, n, k, fresh, ends, q, r, term)
    BY <1>3, <1>4, <1>5, MatchWritten
  <2> HIDE DEF r, q, fresh, ends, term, k
  <2> QED
    BY <2>1 DEF HasNodes
<1>7. merge = l + 1 /\ body = l + 2 /\ diverge = l + (n + 2)
  BY DEF FreshBlock
<1>8. fresh = (l + 1) .. (l + (n + 2)) /\ entered = body .. (body + n - 1)
  OBVIOUS
<1> HIDE DEF l, merge, body, diverge, fresh, entered, q, r, term, ends, k
<1>9. fresh = entered \cup {diverge, merge} /\ body \in Nat
  <2>1. ASSUME NEW i PROVE i \in fresh <=> i \in entered \cup {diverge, merge}
    <3>1. i \in fresh => i \in entered \cup {diverge, merge}
      BY <1>5, <1>6, <1>7, <1>8
    <3>2. i \in entered => i \in fresh
      BY <1>5, <1>6, <1>7, <1>8
    <3>3. diverge \in fresh /\ merge \in fresh
      BY <1>5, <1>6, <1>7, <1>8
    <3> QED
      BY <3>1, <3>2, <3>3
  <2>2. body \in Nat
    BY <1>6, <1>7
  <2> QED
    BY <2>1, <2>2
<1>10. /\ merge \notin after /\ diverge \notin {merge} \cup after /\ entered \cap ({diverge, merge} \cup after) = {}
  <2>1. diverge # merge /\ diverge \notin entered /\ merge \notin entered
    BY <1>5, <1>6, <1>7, <1>8
  <2> QED
    BY <2>1, <1>6, <1>9
<1>11. /\ ItemsOK(lists, begins, lps, v, next, after)
       /\ EnteredIn(v) = fresh /\ KindAt(v, 1, next) = "Arms"
  <2>1. \A i \in DOMAIN lps : lps[i].end \notin entered \cup {diverge, merge}
    BY <1>6, <1>9
  <2>2. entered = body .. (body + Len(arms) - 1)
    BY <1>5, <1>8
  <2>3. ItemsOK(lists, begins, lps, v, next, after)
    BY <2>1, <2>2, <1>3, <1>4, <1>9, <1>10, MatchItems
  <2>4. /\ EnteredIn(v) = (body .. (body + Len(arms) - 1)) \cup {diverge, merge}
        /\ \A kind : KindAt(v, 1, kind) = "Arms"
    BY MatchEntered
  <2> HIDE DEF v
  <2> QED
    BY <2>2, <2>3, <2>4, <1>9
<1> HIDE DEF v
<1>12. LowerOK(lists, begins, lps, Terminate(r, term), v \o t)
  BY <1>2, <1>3, <1>6, <1>11, BranchesKeep
<1> QED
  BY <1>12 DEF t, v, MatchTodo, q, r, ends, k, n, term, tree, body, merge, diverge, arms

LEMMA ArmKeeps ==
  ASSUME NEW lists, AreScoped(lists), NEW begins, NEW lps, NEW bl, NEW u, LowerOK(lists, begins, lps, bl, u),
         u # <<>>, Head(u).stmt = "Arms"
  PROVE  LET arms == Head(u).arms
             body == Head(u).body
             merge == Head(u).merge
         IN  LowerOK(lists, begins, lps, bl,
                     (IF arms = <<>> THEN <<>>
                      ELSE <<Enter(body)>> \o Head(arms) \o <<Close(merge), Arms(Tail(arms), body + 1, merge)>>)
                       \o Tail(u))
<1> DEFINE t == Tail(u)
           arms == Head(u).arms
           body == Head(u).body
           merge == Head(u).merge
           later == Tail(arms)
           stmts == Head(arms)
           y == Arms(later, body + 1, merge)
           w == <<y>>
           section == Section(body, stmts, merge)
           v == section \o w
<1>1. PICK x, next, after : Taken(lists, begins, lps, bl, u, x, next, after)
  BY TakenProps
<1>2. /\ ItemsOK(lists, begins, lps, t, "End", {}) /\ next = KindAt(t, 1, "End") /\ after = EnteredIn(t)
      /\ x = Head(u) /\ x.stmt = "Arms"
      /\ ItemOK(lists, begins, lps, x, next, after) /\ LoopsOK(lps, bl.blocks, begins)
      /\ Written(bl, begins, Entered(x) \cup after)
      /\ IsTerminated(bl)
  BY <1>1 DEF Taken
<1>3. /\ next = "Enter" /\ body \in Nat /\ merge \in after /\ IsVec(arms)
      /\ Entered(x) \cap after = {}
      /\ \A l \in DOMAIN lps : lps[l].end \notin Entered(x)
      /\ \A arm \in ToSet(arms) : List(arm, LoopsInto(lps, after), MayJump) \in lists
  BY <1>2 DEF ItemOK, Statements
<1>4. Entered(x) = body .. (body + Len(arms) - 1)
  BY <1>2 DEF Entered
<1> HIDE DEF t, arms, body, merge
<1>5. CASE arms = <<>>
  <2>1. Entered(x) \cup after = after
    <3>1. Entered(x) = {}
      BY <1>3, <1>4, <1>5
    <3> QED
      BY <3>1
  <2>2. CurrentOK(bl, next) /\ ConditionOK(bl, begins, t)
    BY <1>2, <1>3 DEF CurrentOK, ConditionOK, IsTerminated
  <2>3. LowerOK(lists, begins, lps, bl, <<>> \o t)
    BY <2>1, <2>2, <1>2, GoesBack
  <2> QED
    BY <2>3, <1>5 DEF t, arms
<1>6. CASE arms # <<>>
  <2>1. /\ IsVec(later) /\ Len(arms) \in Nat \ {0} /\ Len(later) = Len(arms) - 1
        /\ stmts = arms[1] /\ \A i \in 1 .. Len(later) : later[i] = arms[i + 1]
    BY <1>3, <1>6, TailVec
  <2>2. DOMAIN arms = 1 .. Len(arms) /\ DOMAIN later = 1 .. Len(later)
    BY <2>1, <1>3, VecProps
  <2> HIDE DEF later, stmts
  <2>3. stmts \in ToSet(arms) /\ ToSet(later) \subseteq ToSet(arms)
    <3>1. 1 \in DOMAIN arms
      BY <2>1, <2>2
    <3>2. \A i \in DOMAIN later : i + 1 \in DOMAIN arms /\ later[i] = arms[i + 1]
      BY <2>1, <2>2
    <3> QED
      BY <3>1, <3>2, <2>1 DEF ToSet
  <2>4. /\ y.stmt = "Arms" /\ y.arms = later /\ y.body = body + 1 /\ y.merge = merge
        /\ Entered(y) = (body + 1) .. (body + 1 + Len(later) - 1)
    BY DEF Arms, Entered
  <2> HIDE DEF y
  <2>5. Entered(x) = {body} \cup Entered(y) /\ body \notin Entered(y)
    <3>1. Len(later) \in Nat
      BY <2>1
    <3>2. \A i : i \in Entered(x) <=> i = body \/ i \in Entered(y)
      BY <3>1, <2>1, <2>4, <1>3, <1>4
    <3>3. body \notin Entered(y)
      BY <3>1, <2>4, <1>3
    <3> QED
      BY <3>2, <3>3
  <2>6. ItemOK(lists, begins, lps, y, next, after)
    <3>1. /\ y.body \in Nat /\ y.merge \in after /\ IsVec(y.arms)
          /\ Entered(y) \cap after = {}
          /\ \A l \in DOMAIN lps : lps[l].end \notin Entered(y)
      BY <2>1, <2>4, <2>5, <1>3
    <3>2. \A arm \in ToSet(y.arms) : List(arm, LoopsInto(lps, after), MayJump) \in lists
      BY <2>3, <2>4, <1>3
    <3> QED
      BY <3>1, <3>2, <2>4, <1>3 DEF ItemOK
  <2> DEFINE both == Entered(y) \cup after
  <2>7. LoopsInto(lps, both) = LoopsInto(lps, after)
    BY <2>5, <1>3, LoopsIntoMore
  <2>8. body \notin both /\ merge \in begins \cup both
    BY <2>5, <1>3
  <2>9. IsVec(stmts) /\ EnteredIn(stmts) = {}
    BY <2>3, <1>3, ListStmts
  <2>10. IsVec(section) /\ EnteredIn(section) = {body}
    BY <2>9, SectionEntered
  <2>11. ASSUME NEW k PROVE KindAt(section, 1, k) = "Enter"
    BY <2>9, SectionKind
  <2> HIDE DEF both
  <2>12. ASSUME NEW kind, kind = "Arms" PROVE ItemsOK(lists, begins, lps, section, kind, both)
    <3>1. kind \in {"Enter", "Arms"} /\ List(stmts, LoopsInto(lps, both), MayJump) \in lists
      BY <2>3, <2>7, <2>12, <1>3
    <3> QED
      BY <3>1, <2>8, SectionItems
  <2>13. w = <<y>>
    OBVIOUS
  <2> HIDE DEF section, w
  <2>14. ItemsOK(lists, begins, lps, v, next, after)
    <3>1. PICK kind : kind = "Arms"
      OBVIOUS
    <3>2. ItemsOK(lists, begins, lps, section, kind, both) /\ kind = y.stmt /\ both = Entered(y) \cup after
      BY <3>1, <2>4, <2>12 DEF both
    <3> QED
      BY <3>2, <2>6, <2>13, ItemsThen
  <2>15. EnteredIn(v) = Entered(x) /\ KindAt(v, 1, next) = "Enter"
    <3>1. /\ EnteredIn(v) = EnteredIn(section) \cup Entered(y)
          /\ \A k : KindAt(v, 1, k) = KindAt(section, 1, y.stmt)
      BY <2>10, <2>13, EnteredThen
    <3> QED
      BY <3>1, <2>5, <2>10, <2>11
  <2>16. v = <<Enter(body)>> \o stmts \o <<Close(merge), y>>
    <3> DEFINE e == <<Enter(body)>>
               p == e \o stmts
               c == Close(merge)
    <3>1. IsVec(e)
      BY OneVec
    <3> HIDE DEF e, c
    <3>2. IsVec(p)
      BY <3>1, <2>9, ConcatVec
    <3> HIDE DEF p
    <3>3. p \o <<c, y>> = (p \o <<c>>) \o <<y>>
      BY <3>2, TwoMore
    <3> QED
      BY <3>3 DEF p, e, c, section, w, Section
  <2> HIDE DEF v
  <2>17. LowerOK(lists, begins, lps, bl, v \o t)
    BY <2>14, <2>15, <1>2, OpensKeeps
  <2> QED
    BY <2>16, <2>17, <1>6 DEF t, arms, body, merge, stmts, later, y
<1> QED
  BY <1>5, <1>6

-----------------------------------------------------------------------------
\* From the first statement to the finished body.
LEMMA StartsOK ==
  ASSUME NEW lists, AreScoped(lists), NEW stmts, List(stmts, {}, GoesOn) \in lists
  PROVE  LowerOK(lists, {}, <<>>, NewBuilder, stmts)
<1> DEFINE r == NewBuilder
<1>1. ASSUME NEW lps, NEW begins, DOMAIN lps = {}, begins = {}
      PROVE  LowerOK(lists, begins, lps, r, stmts)
  <2>1. LoopsInto(lps, {}) = {}
    BY <1>1 DEF LoopsInto
  <2>2. ASSUME NEW next, next = "End", NEW after, after = {}
        PROVE  /\ ItemsOK(lists, begins, lps, stmts, next, after) /\ EnteredIn(stmts) = {}
               /\ KindAt(stmts, 1, next) \in Statements \cup {next}
    <3>1. next \notin {"Enter", "Arms"} /\ List(stmts, LoopsInto(lps, after), EndBefore(next)) \in lists
      BY <2>1, <2>2 DEF EndBefore
    <3> QED
      BY <3>1, ListItems
  <2>3. /\ IsBuilder(r) /\ r.ok /\ r.current = 1 /\ r.finalized = {}
        /\ r.blocks = <<EmptyBlock>>
    BY DEF NewBuilder, IsBuilder, EntryBlock
  <2> HIDE DEF r
  <2>4. IsVec(r.blocks) /\ DOMAIN r.blocks = {1} /\ r.blocks[1] = EmptyBlock
    <3> DEFINE v == <<EmptyBlock>>
    <3>1. IsVec(v) /\ DOMAIN v = {1} /\ v[1] = EmptyBlock
      BY OneVec
    <3> HIDE DEF v
    <3> QED
      BY <3>1, <2>3 DEF v
  <2>5. BlockOK(r.blocks, EmptyBlock)
    BY EmptyIsVec, EndsOK DEF BlockOK, EmptyBlock, ToSet
  <2>6. BlocksOK(r)
    BY <2>3, <2>4, <2>5 DEF BlocksOK, EntryBlock
  <2>7. Written(r, begins, {})
    BY <2>3, <2>4, <2>6, <1>1 DEF Written, NoCircle, BeginsOK, PendingOK
  <2>8. /\ LoopsOK(lps, r.blocks, begins) /\ ConditionOK(r, begins, stmts)
        /\ CurrentOK(r, KindAt(stmts, 1, "End"))
    BY <1>1, <2>2, <2>3 DEF LoopsOK, ConditionOK, CurrentOK, IsTerminated, Statements
  <2> QED
    BY <2>2, <2>7, <2>8 DEF LowerOK
<1> QED
  BY <1>1

\* A body all of whose blocks are finished is what the lowering is to hand over.
LEMMA FinishedIsWellFormed ==
  ASSUME NEW r, NEW begins, Written(r, begins, {}), IsTerminated(r)
  PROVE  CanFinalize(r) /\ IsWellFormed(r.blocks)
<1>1. BlocksOK(r) /\ NoCircle(r.blocks, r.finalized) /\ PendingOK(r, begins, {})
  BY DEF Written
<1>2. r.finalized = DOMAIN r.blocks
  BY <1>1 DEF BlocksOK, PendingOK, IsTerminated
<1>3. /\ IsVec(r.blocks) /\ EntryBlock \in DOMAIN r.blocks
      /\ \A i \in DOMAIN r.blocks : BlockOK(r.blocks, r.blocks[i])
  BY <1>1 DEF BlocksOK
<1>4. NoCircle(r.blocks, DOMAIN r.blocks)
  BY <1>1, <1>2
<1> QED
  BY <1>2, <1>3, <1>4 DEF CanFinalize, IsWellFormed, BlockOK, TermOK, StmtOK, NoCircle

LEMMA FinishKeeps ==
  ASSUME NEW lists, NEW begins, NEW lps, NEW bl, LowerOK(lists, begins, lps, bl, <<>>), NEW void
  PROVE  LET s == IF IsTerminated(bl) THEN bl
                  ELSE Terminate(bl, IF void THEN Return("") ELSE Diverge)
         IN  CanFinalize(s) /\ IsWellFormed(s.blocks)
<1>1. Written(bl, begins, {})
  <2>1. EnteredIn(<<>>) = {}
    BY DEF EnteredIn
  <2> QED
    BY <2>1 DEF LowerOK
<1>2. CASE IsTerminated(bl)
  BY <1>1, <1>2, FinishedIsWellFormed
<1>3. CASE ~ IsTerminated(bl)
  <2> DEFINE term == IF void THEN Return("") ELSE Diverge
             s == Terminate(bl, term)
  <2>1. TermOK(bl.blocks, term) /\ term.kind # "Goto"
    BY EndsOK
  <2> HIDE DEF term
  <2>2. Written(s, begins, {}) /\ s.current = bl.current /\ s.finalized = bl.finalized \cup {bl.current}
    BY <1>1, <1>3, <2>1, WrittenTerm
  <2> HIDE DEF s
  <2>3. IsTerminated(s)
    BY <2>2 DEF IsTerminated
  <2>4. CanFinalize(s) /\ IsWellFormed(s.blocks)
    BY <2>2, <2>3, FinishedIsWellFormed
  <2> QED
    BY <2>4, <1>3 DEF s, term
<1> QED
  BY <1>2, <1>3

LEMMA LeavesInv ==
  ASSUME NEW lists, AreScoped(lists), NEW more, NEW r, NEW v, Leave(r, v),
         LowerOK(lists, more, loops', r, v \o Tail(todo))
  PROVE  LowerInv'
<1>1. builder' = r /\ todo' = v \o Tail(todo) /\ status' = "lowering"
  BY LowerOKProps DEF Leave
<1>2. AreScoped(lists) /\ LowerOK(lists, more, loops', builder', todo')
  BY <1>1
<1> QED
  BY <1>1, <1>2 DEF LowerInv

LEMMA LowerInitInv == LowerInit /\ IsScoped(program) => LowerInv
<1> SUFFICES ASSUME LowerInit, IsScoped(program) PROVE LowerInv
  OBVIOUS
<1>1. PICK lists : AreScoped(lists) /\ List(program.root, {}, GoesOn) \in lists
  BY DEF IsScoped
<1> DEFINE stmts == program.root
<1> HIDE DEF stmts
<1>2. LowerOK(lists, {}, <<>>, NewBuilder, stmts)
  BY <1>1, StartsOK DEF stmts
<1> QED
  BY <1>1, <1>2 DEF LowerInit, LowerInv, stmts

LEMMA LowerNextKeepsInv ==
  ASSUME LowerInv, LowerNext
  PROVE  LowerInv'
<1>1. status = "lowering"
  BY DEF LowerNext, LowerAct, LowerCall, LowerNever, LowerReturn, LowerBreak, LowerContinue, LowerBlock, LowerIf, LowerIfElse,
         LowerWhile, LowerMatch, NextArm, DoClose, DoEnter, DoDecide, DoUnreachable, Finish, Take
<1>2. PICK lists, begins : AreScoped(lists) /\ LowerOK(lists, begins, loops, builder, todo)
  BY <1>1 DEF LowerInv
<1>3. CASE LowerAct
  <2> DEFINE r == EmitAll(builder, <<Stmt(Head(todo).label, <<>>)>>)
             v == <<>>
  <2>1. todo # <<>> /\ Head(todo).stmt = "Act" /\ loops' = loops /\ Leave(r, v)
    BY <1>3 DEF LowerAct, Take
  <2>2. LowerOK(lists, begins, loops, r, v \o Tail(todo))
    BY <1>2, <2>1, ActKeeps
  <2> HIDE DEF r, v
  <2> QED
    BY <1>2, <2>1, <2>2, LeavesInv
<1>4. CASE LowerCall
  <2> DEFINE next == FreshBlock(builder, 1)
             r == SwitchToBlock(Terminate(NewBlocks(builder, 1), Call(Head(todo).label, next)), next)
             v == <<>>
  <2>1. todo # <<>> /\ Head(todo).stmt = "Call" /\ loops' = loops /\ Leave(r, v)
    BY <1>4 DEF LowerCall, Take
  <2>2. LowerOK(lists, begins, loops, r, v \o Tail(todo))
    BY <1>2, <2>1, CallKeeps
  <2> HIDE DEF r, v
  <2> QED
    BY <1>2, <2>1, <2>2, LeavesInv
<1>5. CASE LowerNever
  <2> DEFINE next == FreshBlock(builder, 1)
             called == Terminate(NewBlocks(builder, 1), Call(Head(todo).label, next))
             r == DeadBlock(Terminate(SwitchToBlock(called, next), Diverge))
             v == <<>>
  <2>1. todo # <<>> /\ Head(todo).stmt = "Never" /\ loops' = loops /\ Leave(r, v)
    BY <1>5 DEF LowerNever, Take
  <2>2. LowerOK(lists, begins, loops, r, v \o Tail(todo))
    BY <1>2, <2>1, NeverKeeps
  <2> HIDE DEF r, v
  <2> QED
    BY <1>2, <2>1, <2>2, LeavesInv
<1>6. CASE LowerReturn
  <2> DEFINE r == DeadBlock(Terminate(builder, Return(Head(todo).label)))
             v == <<>>
  <2>1. todo # <<>> /\ Head(todo).stmt = "Return" /\ loops' = loops /\ Leave(r, v)
    BY <1>6 DEF LowerReturn, Take
  <2>2. LowerOK(lists, begins, loops, r, v \o Tail(todo))
    BY <1>2, <2>1, ReturnKeeps
  <2> HIDE DEF r, v
  <2> QED
    BY <1>2, <2>1, <2>2, LeavesInv
<1>7. CASE LowerBreak
  <2> DEFINE r == Terminate(builder, Goto(loops[Head(todo).loop].end))
             v == <<>>
  <2>1. todo # <<>> /\ Head(todo).stmt = "Break" /\ loops' = loops /\ Leave(r, v)
    BY <1>7 DEF LowerBreak, Take
  <2>2. LowerOK(lists, begins, loops, r, v \o Tail(todo))
    BY <1>2, <2>1, JumpKeeps
  <2> HIDE DEF r, v
  <2> QED
    BY <1>2, <2>1, <2>2, LeavesInv
<1>8. CASE LowerContinue
  <2> DEFINE r == Terminate(builder, Goto(loops[Head(todo).loop].begin))
             v == <<>>
  <2>1. todo # <<>> /\ Head(todo).stmt = "Continue" /\ loops' = loops /\ Leave(r, v)
    BY <1>8 DEF LowerContinue, Take
  <2>2. LowerOK(lists, begins, loops, r, v \o Tail(todo))
    BY <1>2, <2>1, JumpKeeps
  <2> HIDE DEF r, v
  <2> QED
    BY <1>2, <2>1, <2>2, LeavesInv
<1>9. CASE LowerBlock
  <2> DEFINE r == builder
             v == Head(todo).stmts
  <2>1. todo # <<>> /\ Head(todo).stmt = "Block" /\ loops' = loops /\ Leave(r, v)
    BY <1>9 DEF LowerBlock, Take
  <2>2. LowerOK(lists, begins, loops, r, v \o Tail(todo))
    BY <1>2, <2>1, BlockKeeps
  <2> HIDE DEF r, v
  <2> QED
    BY <1>2, <2>1, <2>2, LeavesInv
<1>10. CASE LowerIf
  <2> DEFINE then == FreshBlock(builder, 1)
             merge == FreshBlock(builder, 2)
             r == Terminate(NewBlocks(builder, 2), Branch(Head(todo).label, then, merge))
             v == <<Enter(then)>> \o Head(todo).then \o <<Close(merge), Enter(merge)>>
  <2>1. todo # <<>> /\ Head(todo).stmt = "If" /\ loops' = loops /\ Leave(r, v)
    BY <1>10 DEF LowerIf, Take
  <2>2. LowerOK(lists, begins, loops, r, v \o Tail(todo))
    BY <1>2, <2>1, IfKeeps
  <2> HIDE DEF r, v
  <2> QED
    BY <1>2, <2>1, <2>2, LeavesInv
<1>11. CASE LowerIfElse
  <2> DEFINE then == FreshBlock(builder, 1)
             merge == FreshBlock(builder, 2)
             else == FreshBlock(builder, 3)
             r == Terminate(NewBlocks(builder, 3), Branch(Head(todo).label, then, else))
             v == <<Enter(else)>> \o Head(todo).else \o <<Close(merge), Enter(then)>>
                    \o Head(todo).then \o <<Close(merge), Enter(merge)>>
  <2>1. todo # <<>> /\ Head(todo).stmt = "IfElse" /\ loops' = loops /\ Leave(r, v)
    BY <1>11 DEF LowerIfElse, Take
  <2>2. LowerOK(lists, begins, loops, r, v \o Tail(todo))
    BY <1>2, <2>1, IfElseKeeps
  <2> HIDE DEF r, v
  <2> QED
    BY <1>2, <2>1, <2>2, LeavesInv
<1>12. CASE LowerWhile
  <2> DEFINE cond == FreshBlock(builder, 1)
             body == FreshBlock(builder, 2)
             merge == FreshBlock(builder, 3)
             now == Inserted(loops, Head(todo).loop, cond, merge)
             r == SwitchToBlock(Terminate(NewBlocks(builder, 3), Goto(cond)), cond)
             v == Head(todo).setup \o <<Decide(Head(todo).label, body, merge), Enter(body)>> \o Head(todo).body
                    \o <<Close(cond), Enter(merge)>>
  <2>1. todo # <<>> /\ Head(todo).stmt = "While" /\ loops' = now /\ Leave(r, v)
    BY <1>12 DEF LowerWhile, Take, WithLoop, Inserted
  <2>2. \E more : LowerOK(lists, more, now, r, v \o Tail(todo))
    BY <1>2, <2>1, WhileKeeps
  <2> HIDE DEF r, v, now
  <2> QED
    BY <1>2, <2>1, <2>2, LeavesInv
<1>13. CASE LowerMatch
  <2> DEFINE arms == Head(todo).arms
             tree == Head(todo).tree
             n == Len(arms)
             merge == FreshBlock(builder, 1)
             diverge == FreshBlock(builder, n + 2)
             ends == [i \in 1 .. (Len(tree) - 1) |-> EndOf(tree[i + 1], merge, diverge)]
             r == Terminate(NewEnds(NewBlocks(builder, n + 2), ends), EndOf(tree[1], merge, diverge))
             v == <<Arms(arms, FreshBlock(builder, 2), merge), Enter(diverge), Unreachable, Enter(merge)>>
  <2>1. todo # <<>> /\ Head(todo).stmt = "Match" /\ loops' = loops /\ Leave(r, v)
    BY <1>13 DEF LowerMatch, Take
  <2>2. LowerOK(lists, begins, loops, r, v \o Tail(todo))
    BY <1>2, <2>1, MatchKeeps
  <2> HIDE DEF r, v
  <2> QED
    BY <1>2, <2>1, <2>2, LeavesInv
<1>14. CASE NextArm
  <2> DEFINE arms == Head(todo).arms
             body == Head(todo).body
             merge == Head(todo).merge
             r == builder
             v == IF arms = <<>> THEN <<>>
                  ELSE <<Enter(body)>> \o Head(arms) \o <<Close(merge), Arms(Tail(arms), body + 1, merge)>>
  <2>1. todo # <<>> /\ Head(todo).stmt = "Arms" /\ loops' = loops /\ Leave(r, v)
    BY <1>14 DEF NextArm, Take
  <2>2. LowerOK(lists, begins, loops, r, v \o Tail(todo))
    BY <1>2, <2>1, ArmKeeps
  <2> HIDE DEF r, v
  <2> QED
    BY <1>2, <2>1, <2>2, LeavesInv
<1>15. CASE DoClose
  <2> DEFINE r == IF IsTerminated(builder) THEN builder ELSE Terminate(builder, Goto(Head(todo).block))
             v == <<>>
  <2>1. todo # <<>> /\ Head(todo).stmt = "Close" /\ loops' = loops /\ Leave(r, v)
    BY <1>15 DEF DoClose, Take
  <2>2. LowerOK(lists, begins, loops, r, v \o Tail(todo))
    BY <1>2, <2>1, CloseKeeps
  <2> HIDE DEF r, v
  <2> QED
    BY <1>2, <2>1, <2>2, LeavesInv
<1>16. CASE DoEnter
  <2> DEFINE r == SwitchToBlock(builder, Head(todo).block)
             v == <<>>
  <2>1. todo # <<>> /\ Head(todo).stmt = "Enter" /\ loops' = loops /\ Leave(r, v)
    BY <1>16 DEF DoEnter, Take
  <2>2. LowerOK(lists, begins, loops, r, v \o Tail(todo))
    BY <1>2, <2>1, EnterKeeps
  <2> HIDE DEF r, v
  <2> QED
    BY <1>2, <2>1, <2>2, LeavesInv
<1>17. CASE DoDecide
  <2> DEFINE r == Terminate(builder, Branch(Head(todo).label, Head(todo).then, Head(todo).else))
             v == <<>>
  <2>1. todo # <<>> /\ Head(todo).stmt = "Decide" /\ loops' = loops /\ Leave(r, v)
    BY <1>17 DEF DoDecide, Take
  <2>2. LowerOK(lists, begins, loops, r, v \o Tail(todo))
    BY <1>2, <2>1, DecideKeeps
  <2> HIDE DEF r, v
  <2> QED
    BY <1>2, <2>1, <2>2, LeavesInv
<1>18. CASE DoUnreachable
  <2> DEFINE r == Terminate(builder, Diverge)
             v == <<>>
  <2>1. todo # <<>> /\ Head(todo).stmt = "Unreachable" /\ loops' = loops /\ Leave(r, v)
    BY <1>18 DEF DoUnreachable, Take
  <2>2. LowerOK(lists, begins, loops, r, v \o Tail(todo))
    BY <1>2, <2>1, UnreachableKeeps
  <2> HIDE DEF r, v
  <2> QED
    BY <1>2, <2>1, <2>2, LeavesInv
<1>19. CASE Finish
  <2> DEFINE s == IF IsTerminated(builder) THEN builder
                  ELSE Terminate(builder, IF program.void THEN Return("") ELSE Diverge)
  <2>1. LowerOK(lists, begins, loops, builder, <<>>)
    BY <1>2, <1>19 DEF Finish
  <2>2. CanFinalize(s) /\ IsWellFormed(s.blocks)
    BY <2>1, FinishKeeps
  <2>3. builder' = s /\ status' = IF CanFinalize(s) THEN "done" ELSE "panicked"
    BY <1>19 DEF Finish
  <2> HIDE DEF s
  <2> QED
    BY <2>2, <2>3 DEF LowerInv
<1> QED
  BY <1>3, <1>4, <1>5, <1>6, <1>7, <1>8, <1>9, <1>10, <1>11, <1>12, <1>13, <1>14, <1>15, <1>16, <1>17, <1>18, <1>19
     DEF LowerNext

-----------------------------------------------------------------------------
\* The pipeline: a body is lowered, then the pass has it.
PipelineInv ==
  /\ LowerInv
  /\ \/ phase = "waiting" /\ begun = {} /\ cursor = Nowhere /\ AtEntry
     \/ Inv

LEMMA PipelineInitInv == PipelineInit /\ IsScoped(program) => PipelineInv
<1> SUFFICES ASSUME PipelineInit, IsScoped(program) PROVE PipelineInv
  OBVIOUS
<1>1. CASE FromSource
  <2>1. LowerInv
    BY <1>1, LowerInitInv DEF FromSource
  <2> QED
    BY <2>1, <1>1 DEF FromSource, PipelineInv, AtEntry
<1>2. CASE FromBody
  <2>1. Inv /\ LowerInv
    BY <1>2, InitInv DEF FromBody, LowerInv
  <2> QED
    BY <2>1 DEF PipelineInv
<1> QED
  BY <1>1, <1>2 DEF PipelineInit

LEMMA LowerSame ==
  ASSUME LowerInv, UNCHANGED lowerVars
  PROVE  LowerInv'
BY DEF LowerInv, lowerVars

\* A body handed over is one the pass can start with.
LEMMA HandOverKeeps ==
  ASSUME PipelineInv, HandOver
  PROVE  PipelineInv'
<1>1. LowerInv'
  BY LowerSame DEF PipelineInv, HandOver
<1>2. /\ status = "done" /\ phase = "waiting" /\ phase' = "start"
      /\ mir' = [params |-> <<>>, blocks |-> builder.blocks]
      /\ begun' = begun /\ cursor' = cursor /\ old_pos' = old_pos /\ new_pos' = new_pos
  BY DEF HandOver
<1>3. IsWellFormed(builder.blocks)
  BY <1>2 DEF PipelineInv, LowerInv
<1>4. begun = {} /\ cursor = Nowhere /\ AtEntry
  BY <1>2 DEF PipelineInv, Inv
<1>5. IsBody(mir')
  <2>1. mir'.params = <<>> /\ mir'.blocks = builder.blocks
    BY <1>2
  <2>2. IsVec(<<>>) /\ IsInjective(<<>>)
    BY EmptyIsVec DEF IsInjective
  <2> QED
    BY <2>1, <2>2, <1>3 DEF IsBody
<1>6. AtEntry'
  BY <1>2, <1>4 DEF AtEntry
<1>7. Inv'
  BY <1>2, <1>4, <1>5, <1>6 DEF Inv
<1> QED
  BY <1>1, <1>7 DEF PipelineInv

LEMMA PipelineNextKeepsInv ==
  ASSUME PipelineInv, [PipelineNext]_pipelineVars
  PROVE  PipelineInv'
<1>1. CASE Lower
  <2>1. LowerInv'
    BY <1>1, LowerNextKeepsInv DEF Lower, PipelineInv
  <2>2. Inv => Inv'
    BY <1>1, NextKeepsInv DEF Lower
  <2>3. /\ phase' = phase /\ begun' = begun /\ cursor' = cursor
        /\ old_pos' = old_pos /\ new_pos' = new_pos
    BY <1>1 DEF Lower, vars
  <2> QED
    BY <2>1, <2>2, <2>3 DEF PipelineInv, AtEntry
<1>2. CASE HandOver
  BY <1>2, HandOverKeeps
<1>3. ASSUME Next, UNCHANGED lowerVars, phase # "waiting" PROVE PipelineInv'
  <2>1. LowerInv'
    BY <1>3, LowerSame DEF PipelineInv
  <2>2. Inv
    BY <1>3 DEF PipelineInv
  <2>3. Inv'
    BY <2>2, <1>3, NextKeepsInv
  <2> QED
    BY <2>1, <2>3 DEF PipelineInv
<1>4. CASE Optimise
  <2>1. phase # "waiting"
    BY <1>4 DEF Optimise, Pass, Prepare, BeginPath, CopyOneStmt, NextOfPath, EndPath, Finalize, Copying
  <2>2. Next /\ UNCHANGED lowerVars
    BY <1>4 DEF Optimise, Next
  <2> QED
    BY <2>1, <2>2, <1>3
<1>5. ASSUME NEW way \in 1 .. OldOffer.ways, Step(way) PROVE PipelineInv'
  <2>1. phase # "waiting"
    BY <1>5 DEF Step, RunAlong
  <2>2. Next /\ UNCHANGED lowerVars
    BY <1>5 DEF Step, Next
  <2> QED
    BY <2>1, <2>2, <1>3
<1>6. ASSUME UNCHANGED <<lowerVars, vars>> PROVE PipelineInv'
  <2>1. UNCHANGED lowerVars /\ UNCHANGED vars
    BY <1>6
  <2>2. LowerInv'
    BY <2>1, LowerSame DEF PipelineInv
  <2>3. Inv => Inv'
    BY <2>1, NextKeepsInv
  <2>4. /\ phase' = phase /\ begun' = begun /\ cursor' = cursor
        /\ old_pos' = old_pos /\ new_pos' = new_pos
    BY <2>1 DEF vars
  <2> QED
    BY <2>2, <2>3, <2>4 DEF PipelineInv, AtEntry
<1>7. CASE Silently
  BY <1>7, <1>6 DEF Silently
<1>8. CASE UNCHANGED pipelineVars
  BY <1>8, <1>6 DEF pipelineVars
<1> QED
  BY <1>1, <1>2, <1>4, <1>5, <1>7, <1>8 DEF PipelineNext, Run

LEMMA PipelineInvHolds == PipelineSpec /\ IsScoped(program) => []PipelineInv
<1>1. PipelineInit /\ IsScoped(program) => PipelineInv
  BY PipelineInitInv
<1>2. PipelineInv /\ [PipelineNext]_pipelineVars => PipelineInv'
  BY PipelineNextKeepsInv
<1> QED
  BY <1>1, <1>2, PTL DEF PipelineSpec

\* Whatever the program, when its breaks and continues are in their loops and end
\* their blocks: the lowering writes no finished block, finishes each block
\* once and all of them, and the pass copies what it is handed.
THEOREM CompilerNeverPanicsHolds == PipelineSpec /\ IsScoped(program) => []CompilerNeverPanics
<1>1. PipelineInv => CompilerNeverPanics
  BY DEF PipelineInv, LowerInv, Inv, CompilerNeverPanics, LoweringNeverPanics, NeverPanics
<1> QED
  BY <1>1, PipelineInvHolds, PTL

\* Of such a program, the pass gets a body whose jumps lead to blocks other than
\* the entry and in which no circle of blocks only jumps, however loops and
\* branches are nested.
THEOREM LoweredBodiesAreWellFormedHolds == PipelineSpec /\ IsScoped(program) => []LoweredBodiesAreWellFormed
<1>1. PipelineInv => LoweredBodiesAreWellFormed
  BY DEF PipelineInv, Inv, IsBody, LoweredBodiesAreWellFormed
<1> QED
  BY <1>1, PipelineInvHolds, PTL

\* And what the pass makes of it does what the lowered body does.
THEOREM OptimisedProgramsBehave == PipelineSpec /\ IsScoped(program) => []SameBehaviour
<1>1. PipelineInv => SameBehaviour
  <2>1. phase = "waiting" => SameBehaviour
    BY DEF SameBehaviour
  <2> QED
    BY <2>1, InvSameBehaviour DEF PipelineInv
<1> QED
  BY <1>1, PipelineInvHolds, PTL

-----------------------------------------------------------------------------
\* Configurations.
FirstLoop(conf, l, i) == IsLoop(conf[i], l) /\ \A j \in 1 .. (i - 1) : ~ IsLoop(conf[j], l)

HasLoop(conf, l) == \E i \in DOMAIN conf : FirstLoop(conf, l, i)

LEMMA ConsVec ==
  ASSUME NEW x, NEW d, IsVec(d)
  PROVE  LET c == <<x>> \o d
         IN  /\ IsVec(c) /\ c # <<>> /\ Head(c) = x /\ Tail(c) = d
             /\ Len(d) \in Nat /\ Len(c) = Len(d) + 1 /\ DOMAIN c = 1 .. (Len(d) + 1) /\ DOMAIN d = 1 .. Len(d)
             /\ c[1] = x /\ \A i \in 1 .. Len(d) : c[i + 1] = d[i]
<1> DEFINE c == <<x>> \o d
<1>1. IsVec(<<x>>) /\ Len(<<x>>) = 1 /\ <<x>>[1] = x
  BY OneVec
<1>2. Len(d) \in Nat /\ DOMAIN d = 1 .. Len(d)
  BY VecProps
<1>3. /\ IsVec(c) /\ Len(c) = 1 + Len(d) /\ c[1] = x
      /\ \A i \in 1 .. Len(d) : c[1 + i] = d[i]
  <2>1. ASSUME NEW o, IsVec(o), Len(o) = 1, o[1] = x
        PROVE  /\ IsVec(o \o d) /\ Len(o \o d) = 1 + Len(d) /\ (o \o d)[1] = x
               /\ \A i \in 1 .. Len(d) : (o \o d)[1 + i] = d[i]
    <3>1. /\ IsVec(o \o d) /\ Len(o \o d) = Len(o) + Len(d)
          /\ \A i \in 1 .. Len(o) : (o \o d)[i] = o[i]
          /\ \A i \in 1 .. Len(d) : (o \o d)[Len(o) + i] = d[i]
      <4>1. IsVec(o) /\ IsVec(d)
        BY <2>1
      <4> QED
        BY <4>1, ConcatVec
    <3> QED
      BY <3>1, <2>1
  <2> QED
    BY <2>1, <1>1, Zenon
<1> HIDE DEF c
<1>4. DOMAIN c = 1 .. (Len(d) + 1) /\ Len(c) = Len(d) + 1
  BY <1>2, <1>3, VecProps
<1>5. c # <<>>
  <2>1. Len(c) # 0
    BY <1>2, <1>3
  <2>2. Len(<<>>) = 0
    OBVIOUS
  <2> QED
    BY <2>1, <2>2
<1>6. \A i \in 1 .. Len(d) : c[i + 1] = d[i]
  <2>1. \A i \in 1 .. Len(d) : i + 1 = 1 + i
    BY <1>2
  <2> QED
    BY <2>1, <1>3
<1>7. Head(c) = x /\ IsVec(Tail(c)) /\ Len(Tail(c)) = Len(c) - 1 /\ \A i \in 1 .. Len(Tail(c)) : Tail(c)[i] = c[i + 1]
  BY <1>3, <1>5, TailVec
<1>8. Len(Tail(c)) = Len(d)
  BY <1>2, <1>4, <1>7
<1>9. Tail(c) = d
  BY <1>6, <1>7, <1>8, SameVec
<1> QED
  BY <1>2, <1>3, <1>4, <1>5, <1>6, <1>7, <1>9 DEF c

Beyond(c, i) == SubSeq(c, i + 1, Len(c))

LEMMA BeyondVec ==
  ASSUME NEW c, IsVec(c), NEW i \in 0 .. Len(c)
  PROVE  LET d == Beyond(c, i)
         IN  IsVec(d) /\ Len(d) = Len(c) - i /\ \A k \in 1 .. (Len(c) - i) : d[k] = c[i + k]
<1> DEFINE n == Len(c)
           d == SubSeq(c, i + 1, n)
           S == ToSet(c)
<1>1. n \in Nat /\ i \in 0 .. n /\ \A k \in 1 .. n : c[k] \in S
  BY VecProps
<1> HIDE DEF n, S
<1>2. i + 1 \in Int /\ n \in Int /\ \A k \in (i + 1) .. n : c[k] \in S
  BY <1>1
<1>3. /\ d \in Seq(S) /\ Len(d) = (IF i + 1 <= n THEN n - (i + 1) + 1 ELSE 0)
      /\ \A k \in 1 .. n - (i + 1) + 1 : d[k] = c[i + 1 + k - 1]
  BY <1>2, SubSeqProperties
<1> HIDE DEF d
<1>4. IsVec(d)
  BY <1>3, FromSeq
<1>5. Len(d) = n - i
  BY <1>1, <1>3
<1>6. \A k \in 1 .. (n - i) : k \in 1 .. n - (i + 1) + 1 /\ i + 1 + k - 1 = i + k
  BY <1>1
<1>7. \A k \in 1 .. (n - i) : d[k] = c[i + k]
  BY <1>3, <1>6
<1> QED
  BY <1>4, <1>5, <1>7 DEF n, d, Beyond

\* A vector, from each place in its first part on.
IsEndFrom(c, u, i, d) ==
  /\ IsVec(c) /\ Len(c) = (Len(u) - i) + Len(d)
  /\ \A k \in 1 .. (Len(u) - i) : c[k] = u[i + k]
  /\ \A k \in 1 .. Len(d) : c[(Len(u) - i) + k] = d[k]

LEMMA EndsOfVec ==
  ASSUME NEW u, NEW d, IsVec(u), IsVec(d)
  PROVE  /\ Beyond(u \o d, 0) = u \o d /\ Beyond(u \o d, Len(u)) = d
         /\ \A i \in 1 .. Len(u) : Beyond(u \o d, i - 1) = <<u[i]>> \o Beyond(u \o d, i)
         /\ \A i \in 0 .. Len(u) : IsEndFrom(Beyond(u \o d, i), u, i, d)
<1> DEFINE w == u \o d
           m == Len(u)
           n == Len(d)
<1>1. /\ IsVec(w) /\ Len(w) = m + n /\ m \in Nat /\ n \in Nat
      /\ \A i \in 1 .. m : w[i] = u[i]
      /\ \A i \in 1 .. n : w[m + i] = d[i]
  BY ConcatVec, VecProps
<1> HIDE DEF w
<1>2. ASSUME NEW i \in 0 .. m
      PROVE  /\ IsVec(Beyond(w, i)) /\ Len(Beyond(w, i)) = (m - i) + n
             /\ \A k \in 1 .. ((m - i) + n) : Beyond(w, i)[k] = w[i + k]
  <2>1. i \in 0 .. Len(w) /\ Len(w) - i = (m - i) + n
    BY <1>1
  <2> HIDE DEF m, n
  <2>2. /\ IsVec(Beyond(w, i)) /\ Len(Beyond(w, i)) = Len(w) - i
        /\ \A k \in 1 .. (Len(w) - i) : Beyond(w, i)[k] = w[i + k]
    BY <2>1, <1>1, BeyondVec
  <2> QED
    BY <2>1, <2>2
<1>3. ASSUME NEW i \in 0 .. m
      PROVE  /\ \A k \in 1 .. (m - i) : Beyond(w, i)[k] = u[i + k]
             /\ \A k \in 1 .. n : Beyond(w, i)[(m - i) + k] = d[k]
  <2>1. ASSUME NEW k \in 1 .. (m - i) PROVE Beyond(w, i)[k] = u[i + k]
    <3>1. k \in 1 .. ((m - i) + n) /\ i + k \in 1 .. m
      BY <1>1
    <3> QED
      BY <3>1, <1>1, <1>2
  <2>2. ASSUME NEW k \in 1 .. n PROVE Beyond(w, i)[(m - i) + k] = d[k]
    <3>1. (m - i) + k \in 1 .. ((m - i) + n) /\ i + ((m - i) + k) = m + k
      BY <1>1
    <3>2. Beyond(w, i)[(m - i) + k] = w[i + ((m - i) + k)]
      BY <3>1, <1>2
    <3> QED
      BY <3>1, <3>2, <1>1
  <2> QED
    BY <2>1, <2>2
<1> HIDE DEF m, n
<1>4. Beyond(w, 0) = w
  <2> DEFINE c == Beyond(w, 0)
  <2>1. 0 \in 0 .. m /\ (m - 0) + n = m + n
    BY <1>1
  <2>2. IsVec(c) /\ Len(c) = m + n /\ \A k \in 1 .. (m + n) : c[k] = w[0 + k]
    BY <2>1, <1>2
  <2> HIDE DEF c
  <2>3. \A k \in 1 .. Len(w) : c[k] = w[k]
    <3>1. \A k \in 1 .. (m + n) : 0 + k = k
      BY <1>1
    <3> QED
      BY <3>1, <2>2, <1>1
  <2> QED
    BY <2>2, <2>3, <1>1, SameVec DEF c
<1>5. Beyond(w, m) = d
  <2> DEFINE c == Beyond(w, m)
  <2>1. m \in 0 .. m /\ (m - m) + n = n
    BY <1>1
  <2>2. IsVec(c) /\ Len(c) = n /\ \A k \in 1 .. n : c[(m - m) + k] = d[k]
    BY <2>1, <1>2, <1>3
  <2> HIDE DEF c
  <2>3. \A k \in 1 .. n : c[k] = d[k]
    <3>1. \A k \in 1 .. n : (m - m) + k = k
      BY <1>1
    <3> QED
      BY <3>1, <2>2
  <2> QED
    BY <2>2, <2>3, SameVec DEF c, n
<1>6. ASSUME NEW i \in 1 .. m PROVE Beyond(w, i - 1) = <<u[i]>> \o Beyond(w, i)
  <2> DEFINE c == Beyond(w, i - 1)
             t == Beyond(w, i)
             e == <<u[i]>> \o t
  <2>1. i - 1 \in 0 .. m /\ i \in 0 .. m /\ i \in Nat
    BY <1>1
  <2>2. IsVec(c) /\ Len(c) = (m - (i - 1)) + n /\ \A k \in 1 .. ((m - (i - 1)) + n) : c[k] = w[(i - 1) + k]
    BY <2>1, <1>2
  <2>3. IsVec(t) /\ Len(t) = (m - i) + n /\ \A k \in 1 .. ((m - i) + n) : t[k] = w[i + k]
    BY <2>1, <1>2
  <2>4. IsVec(e) /\ Len(e) = Len(t) + 1 /\ e[1] = u[i] /\ \A k \in 1 .. Len(t) : e[k + 1] = t[k]
    <3> HIDE DEF t
    <3> QED
      BY <2>3, ConsVec
  <2> HIDE DEF c, t, e
  <2>5. Len(c) = Len(e)
    BY <2>1, <2>2, <2>3, <2>4, <1>1
  <2>6. ASSUME NEW k \in 1 .. Len(e) PROVE c[k] = e[k]
    <3>1. k \in 1 .. ((m - (i - 1)) + n)
      BY <2>5, <2>2
    <3>2. c[k] = w[(i - 1) + k]
      BY <3>1, <2>2
    <3>3. CASE k = 1
      <4>1. (i - 1) + k = i /\ w[i] = u[i]
        BY <3>3, <2>1, <1>1
      <4> QED
        BY <4>1, <3>2, <3>3, <2>4
    <3>4. CASE k # 1
      <4>1. k - 1 \in 1 .. ((m - i) + n) /\ (i - 1) + k = i + (k - 1) /\ (k - 1) + 1 = k
        BY <3>1, <3>4, <2>1, <1>1
      <4>2. e[(k - 1) + 1] = t[k - 1] /\ t[k - 1] = w[i + (k - 1)]
        BY <4>1, <2>3, <2>4
      <4> QED
        BY <4>1, <4>2, <3>2
    <3> QED
      BY <3>3, <3>4
  <2> QED
    BY <2>2, <2>4, <2>5, <2>6, SameVec DEF c, e, t
<1>7. ASSUME NEW i \in 0 .. m PROVE IsEndFrom(Beyond(w, i), u, i, d)
  BY <1>2, <1>3 DEF IsEndFrom, m, n
<1>8. /\ Beyond(w, 0) = w /\ Beyond(w, Len(u)) = d
      /\ \A i \in 1 .. Len(u) : Beyond(w, i - 1) = <<u[i]>> \o Beyond(w, i)
      /\ \A i \in 0 .. Len(u) : IsEndFrom(Beyond(w, i), u, i, d)
  <2>1. \A i \in 1 .. Len(u) : Beyond(w, i - 1) = <<u[i]>> \o Beyond(w, i)
    BY <1>6 DEF m
  <2>2. \A i \in 0 .. Len(u) : IsEndFrom(Beyond(w, i), u, i, d)
    BY <1>7 DEF m
  <2> QED
    BY <1>4, <1>5, <2>1, <2>2 DEF m

<1> QED
  BY <1>8, Zenon DEF w

LEMMA FromLoopIs ==
  ASSUME NEW conf, IsVec(conf), NEW l, NEW i \in DOMAIN conf, FirstLoop(conf, l, i)
  PROVE  FromLoop(conf, l) = <<LoopOf(conf[i])>> \o Beyond(conf, i)
<1> DEFINE First(k) == IsLoop(conf[k], l) /\ \A j \in 1 .. (k - 1) : ~ IsLoop(conf[j], l)
           at == CHOOSE k \in DOMAIN conf : First(k)
<1>1. DOMAIN conf \subseteq Nat \ {0}
  BY VecProps
<1>2. First(i)
  BY DEF FirstLoop
<1>3. at \in DOMAIN conf /\ First(at)
  <2> HIDE DEF First
  <2> QED
    BY <1>2
<1>4. at = i
  <2> HIDE DEF at
  <2>1. ~ (at < i) /\ ~ (i < at)
    <3>1. at < i => at \in 1 .. (i - 1)
      BY <1>1, <1>3
    <3>2. i < at => i \in 1 .. (at - 1)
      BY <1>1, <1>3
    <3> QED
      BY <1>2, <1>3, <3>1, <3>2
  <2> QED
    BY <2>1, <1>1, <1>3
<1> QED
  BY <1>4 DEF FromLoop, Beyond

\* A running loop is found behind what is not that loop.
LEMMA LoopBehind ==
  ASSUME NEW c, NEW conf, IsVec(c), IsVec(conf), NEW m \in Nat, Len(c) = m + Len(conf),
         \A k \in 1 .. Len(conf) : c[m + k] = conf[k],
         NEW l, \A k \in 1 .. m : ~ IsLoop(c[k], l), HasLoop(conf, l)
  PROVE  HasLoop(c, l) /\ FromLoop(c, l) = FromLoop(conf, l)
<1> DEFINE n == Len(conf)
<1>1. n \in Nat /\ DOMAIN c = 1 .. (m + n) /\ DOMAIN conf = 1 .. n
  BY VecProps
<1>2. PICK i \in DOMAIN conf : FirstLoop(conf, l, i)
  BY DEF HasLoop
<1>3. i \in 1 .. n /\ m + i \in DOMAIN c /\ c[m + i] = conf[i]
  BY <1>1
<1>4. FirstLoop(c, l, m + i)
  <2>1. ASSUME NEW j \in 1 .. ((m + i) - 1) PROVE ~ IsLoop(c[j], l)
    <3>1. CASE j <= m
      BY <3>1
    <3>2. CASE ~ (j <= m)
      <4>1. j - m \in 1 .. (i - 1) /\ j - m \in 1 .. n /\ m + (j - m) = j
        BY <3>2, <1>1, <1>3
      <4> QED
        BY <4>1, <1>2 DEF FirstLoop
    <3> QED
      BY <3>1, <3>2
  <2> QED
    BY <2>1, <1>2, <1>3 DEF FirstLoop
<1>5. HasLoop(c, l)
  BY <1>3, <1>4 DEF HasLoop
<1>6. FromLoop(c, l) = <<LoopOf(c[m + i])>> \o Beyond(c, m + i)
  BY <1>3, <1>4, FromLoopIs
<1>7. FromLoop(conf, l) = <<LoopOf(conf[i])>> \o Beyond(conf, i)
  BY <1>2, FromLoopIs
<1>8. Beyond(c, m + i) = Beyond(conf, i)
  <2> DEFINE d == Beyond(c, m + i)
             e == Beyond(conf, i)
  <2>1. m + i \in 0 .. Len(c) /\ i \in 0 .. n /\ Len(c) - (m + i) = n - i
    BY <1>1, <1>3
  <2>2. IsVec(d) /\ Len(d) = Len(c) - (m + i) /\ \A k \in 1 .. (Len(c) - (m + i)) : d[k] = c[(m + i) + k]
    BY <2>1, BeyondVec
  <2>3. IsVec(e) /\ Len(e) = n - i /\ \A k \in 1 .. (n - i) : e[k] = conf[i + k]
    BY <2>1, BeyondVec
  <2> HIDE DEF d, e
  <2>4. ASSUME NEW k \in 1 .. Len(e) PROVE d[k] = e[k]
    <3>1. k \in 1 .. (n - i)
      BY <2>3
    <3>2. i + k \in 1 .. n /\ (m + i) + k = m + (i + k)
      BY <3>1, <1>1, <1>3
    <3>3. d[k] = c[m + (i + k)]
      BY <3>1, <3>2, <2>1, <2>2
    <3>4. c[m + (i + k)] = conf[i + k]
      BY <3>2
    <3> QED
      BY <3>1, <3>3, <3>4, <2>3
  <2> QED
    BY <2>1, <2>2, <2>3, <2>4, SameVec DEF d, e
<1> QED
  BY <1>3, <1>5, <1>6, <1>7, <1>8

\* A loop that is next, or whose test is next.
LEMMA LoopInFront ==
  ASSUME NEW s, NEW conf, IsVec(conf), NEW l, IsLoop(s, l)
  PROVE  HasLoop(<<s>> \o conf, l) /\ FromLoop(<<s>> \o conf, l) = <<LoopOf(s)>> \o conf
<1> DEFINE c == <<s>> \o conf
           n == Len(conf)
<1>1. /\ IsVec(c) /\ n \in Nat /\ Len(c) = n + 1 /\ DOMAIN c = 1 .. (n + 1) /\ DOMAIN conf = 1 .. n
      /\ c[1] = s /\ \A i \in 1 .. n : c[i + 1] = conf[i]
  BY ConsVec
<1> HIDE DEF c, n
<1>2. 1 \in DOMAIN c /\ FirstLoop(c, l, 1)
  BY <1>1 DEF FirstLoop
<1>3. HasLoop(c, l)
  BY <1>2 DEF HasLoop
<1>4. FromLoop(c, l) = <<LoopOf(c[1])>> \o Beyond(c, 1)
  BY <1>1, <1>2, FromLoopIs
<1>5. Beyond(c, 1) = conf
  <2> DEFINE d == Beyond(c, 1)
  <2>1. 1 \in 0 .. Len(c) /\ Len(c) - 1 = n
    BY <1>1
  <2>2. IsVec(d) /\ Len(d) = Len(c) - 1 /\ \A k \in 1 .. (Len(c) - 1) : d[k] = c[1 + k]
    BY <2>1, <1>1, BeyondVec
  <2> HIDE DEF d
  <2>3. \A k \in 1 .. n : d[k] = conf[k]
    <3>1. \A k \in 1 .. n : 1 + k = k + 1
      BY <1>1
    <3> QED
      BY <3>1, <2>1, <2>2, <1>1
  <2> QED
    BY <2>1, <2>2, <2>3, SameVec DEF d, n
<1> QED
  BY <1>1, <1>3, <1>4, <1>5 DEF c

-----------------------------------------------------------------------------
\* Places in the body, and configurations they are in step with.
IsPlace(blocks, pos) ==
  /\ pos.block \in DOMAIN blocks
  /\ pos = At(pos.block, pos.line)
  /\ pos.line \in 1 .. (Len(blocks[pos.block].stmts) + 1)

\* Where a running loop begins is in step with the loop, where it ends with what
\* comes after it.
LoopMeans(sim, conf, l, loop) ==
  /\ HasLoop(conf, l)
  /\ <<At(loop.begin, 1), FromLoop(conf, l)>> \in sim
  /\ <<At(loop.end, 1), Tail(FromLoop(conf, l))>> \in sim

LoopsMean(sim, lps, conf, inside) == \A l \in inside : LoopMeans(sim, conf, l, lps[l])

\* What an item x stands for: c is the configuration before it, d the one after it.
ItemMeans(sim, lps, x, c, d, after) ==
  /\ IsVec(c) /\ IsVec(d)
  /\ x.stmt \in Statements =>
       c = <<x>> \o d /\ LoopsMean(sim, lps, d, LoopsInto(lps, after))
  /\ x.stmt = "Close" => <<At(x.block, 1), c>> \in sim
  /\ x.stmt = "Decide" =>
       \E w, k : /\ IsVec(k)
                 /\ c = <<Test(w)>> \o k
                 /\ x.label = w.label
                 /\ <<At(x.then, 1), (w.body \o <<w>>) \o k>> \in sim
                 /\ <<At(x.else, 1), k>> \in sim
  /\ x.stmt = "Unreachable" => \E k : IsVec(k) /\ c = <<Diverges>> \o k
  /\ x.stmt = "Arms" =>
       <<At(x.merge, 1), c>> \in sim /\ LoopsMean(sim, lps, c, LoopsInto(lps, after))

\* What is in step with the blocks an item switches to.
OpenedBy(x, c, d) ==
  IF x.stmt = "Enter" THEN {<<At(x.block, 1), d>>}
  ELSE IF x.stmt = "Arms" THEN {<<At(x.body + (j - 1), 1), x.arms[j] \o c>> : j \in 1 .. Len(x.arms)}
  ELSE {}

PlannedBy(sim, lps, u, after, confs) ==
  \A i \in DOMAIN u :
    ItemMeans(sim, lps, u[i], confs[i], confs[i + 1], EnteredAfter(u, i) \cup after)

OpenedIn(u, confs) == UNION {OpenedBy(u[i], confs[i], confs[i + 1]) : i \in DOMAIN u}

\* The items of u lead from the configuration c to d; opens is what is in step
\* with the blocks they switch to.
Planned(sim, lps, u, after, c, d, opens) ==
  /\ IsVec(u) /\ IsVec(c) /\ IsVec(d)
  /\ \E confs : /\ confs[1] = c /\ confs[Len(u) + 1] = d
                /\ PlannedBy(sim, lps, u, after, confs)
                /\ opens = OpenedIn(u, confs)

LEMMA LoopsBehind ==
  ASSUME NEW sim, NEW lps, NEW inside, NEW c, NEW conf, IsVec(c), IsVec(conf), NEW m \in Nat,
         Len(c) = m + Len(conf), \A k \in 1 .. Len(conf) : c[m + k] = conf[k],
         \A l \in inside : \A k \in 1 .. m : ~ IsLoop(c[k], l),
         LoopsMean(sim, lps, conf, inside)
  PROVE  LoopsMean(sim, lps, c, inside)
<1> SUFFICES ASSUME NEW l \in inside PROVE LoopMeans(sim, c, l, lps[l])
  BY DEF LoopsMean
<1>1. LoopMeans(sim, conf, l, lps[l])
  BY DEF LoopsMean
<1>2. HasLoop(c, l) /\ FromLoop(c, l) = FromLoop(conf, l)
  <2>1. HasLoop(conf, l) /\ \A k \in 1 .. m : ~ IsLoop(c[k], l)
    BY <1>1 DEF LoopMeans
  <2> QED
    BY <2>1, LoopBehind
<1> QED
  BY <1>1, <1>2 DEF LoopMeans

LEMMA LoopsBehindOne ==
  ASSUME NEW sim, NEW lps, NEW inside, NEW s, NEW conf, IsVec(conf),
         \A l \in inside : ~ IsLoop(s, l), LoopsMean(sim, lps, conf, inside)
  PROVE  LoopsMean(sim, lps, <<s>> \o conf, inside)
<1> DEFINE c == <<s>> \o conf
<1>1. /\ IsVec(c) /\ Len(conf) \in Nat /\ Len(c) = Len(conf) + 1
      /\ c[1] = s /\ \A k \in 1 .. Len(conf) : c[k + 1] = conf[k]
  BY ConsVec
<1> HIDE DEF c
<1>2. Len(c) = 1 + Len(conf) /\ \A k \in 1 .. Len(conf) : c[1 + k] = conf[k]
  <2>1. Len(c) = 1 + Len(conf) /\ \A k \in 1 .. Len(conf) : 1 + k = k + 1
    BY <1>1
  <2> QED
    BY <2>1, <1>1
<1>3. \A l \in inside : \A k \in 1 .. 1 : ~ IsLoop(c[k], l)
  <2>1. \A k \in 1 .. 1 : k = 1
    OBVIOUS
  <2> QED
    BY <2>1, <1>1
<1>4. 1 \in Nat
  OBVIOUS
<1>5. LoopsMean(sim, lps, c, inside)
  BY <1>1, <1>2, <1>3, <1>4, LoopsBehind
<1> QED
  BY <1>5 DEF c

LEMMA ScopedIsNoLoop ==
  ASSUME NEW lists, NEW s, NEW inside, NEW end, IsScopedStmt(lists, s, inside, end), NEW l \in inside
  PROVE  ~ IsLoop(s, l)
<1>1. s.stmt \in Statements
  BY ScopedStmt
<1>2. s.stmt # "Test"
  BY <1>1 DEF Statements
<1>3. s.stmt = "While" => s.loop \notin inside
  BY DEF IsScopedStmt
<1> QED
  BY <1>2, <1>3 DEF IsLoop, LoopOf

\* The statements of a list lead to what comes after it.
LEMMA PlannedList ==
  ASSUME NEW sim, NEW lists, AreScoped(lists), NEW lps, NEW stmts, NEW after, NEW end,
         List(stmts, LoopsInto(lps, after), end) \in lists,
         NEW d, IsVec(d), LoopsMean(sim, lps, d, LoopsInto(lps, after))
  PROVE  Planned(sim, lps, stmts, after, stmts \o d, d, {})
<1> DEFINE inside == LoopsInto(lps, after)
           w == stmts \o d
           n == Len(stmts)
           confs == [i \in 1 .. (n + 1) |-> Beyond(w, i - 1)]
           list == List(stmts, inside, end)
<1>1. list.stmts = stmts /\ list.inside = inside /\ list.end = end /\ list \in lists
  BY DEF List
<1> HIDE DEF list, inside
<1>2. IsVec(stmts) /\ \A i \in DOMAIN stmts : \E e : IsScopedStmt(lists, stmts[i], inside, e)
  <2>1. IsVec(list.stmts) /\ \A i \in DOMAIN list.stmts :
          IsScopedStmt(lists, list.stmts[i], list.inside, IF i = Len(list.stmts) THEN list.end ELSE GoesOn)
    BY <1>1 DEF AreScoped
  <2> QED
    BY <1>1, <2>1
<1>3. DOMAIN stmts = 1 .. n /\ n \in Nat
  BY <1>2, VecProps
<1>4. \A i \in DOMAIN stmts : stmts[i].stmt \in Statements /\ Entered(stmts[i]) = {}
  BY <1>2, ScopedStmt
<1>5. ASSUME NEW i \in DOMAIN stmts, NEW l \in inside PROVE ~ IsLoop(stmts[i], l)
  BY <1>2, ScopedIsNoLoop
<1>6. /\ Beyond(w, 0) = w /\ Beyond(w, n) = d
      /\ \A i \in 1 .. n : Beyond(w, i - 1) = <<stmts[i]>> \o Beyond(w, i)
      /\ \A i \in 0 .. n : IsEndFrom(Beyond(w, i), stmts, i, d)
  BY <1>2, EndsOfVec
<1>7. IsVec(w)
  BY <1>2, ConcatVec
<1> HIDE DEF w
<1>8. confs[1] = w /\ confs[n + 1] = d
  <2>1. confs[1] = Beyond(w, 1 - 1) /\ confs[n + 1] = Beyond(w, (n + 1) - 1)
    BY <1>3
  <2>2. 1 - 1 = 0 /\ (n + 1) - 1 = n
    BY <1>3
  <2> QED
    BY <2>1, <2>2, <1>6
<1>9. ASSUME NEW i \in DOMAIN stmts
      PROVE  ItemMeans(sim, lps, stmts[i], confs[i], confs[i + 1], EnteredAfter(stmts, i) \cup after)
  <2> DEFINE c == Beyond(w, i)
             m == n - i
  <2>1. i \in 1 .. n /\ i - 1 \in 0 .. n /\ i \in 0 .. n /\ i + 1 \in 1 .. (n + 1) /\ (i + 1) - 1 = i /\ i \in 1 .. (n + 1)
    BY <1>3
  <2>2. confs[i] = Beyond(w, i - 1) /\ confs[i + 1] = c
    <3>1. confs[i + 1] = Beyond(w, (i + 1) - 1)
      BY <2>1
    <3> QED
      BY <2>1, <3>1
  <2> HIDE DEF confs, c
  <2>3. confs[i] = <<stmts[i]>> \o c
    BY <2>1, <2>2, <1>6 DEF c
  <2>4. IsVec(confs[i]) /\ IsVec(confs[i + 1])
    BY <2>1, <2>2, <1>6 DEF c, IsEndFrom
  <2>5. LoopsMean(sim, lps, c, inside)
    <3>1. /\ IsVec(c) /\ Len(c) = m + Len(d) /\ m \in Nat
          /\ \A k \in 1 .. m : c[k] = stmts[i + k]
          /\ \A k \in 1 .. Len(d) : c[m + k] = d[k]
      <4>1. IsEndFrom(c, stmts, i, d)
        BY <2>1, <1>6 DEF c
      <4>2. m \in Nat
        BY <2>1, <1>3
      <4> QED
        BY <4>1, <4>2 DEF IsEndFrom
    <3>2. \A k \in 1 .. m : i + k \in DOMAIN stmts
      BY <2>1, <1>3
    <3> HIDE DEF m
    <3>3. \A l \in inside : \A k \in 1 .. m : ~ IsLoop(c[k], l)
      BY <3>1, <3>2, <1>5
    <3>4. LoopsMean(sim, lps, d, inside)
      BY DEF inside
    <3> QED
      BY <3>1, <3>3, <3>4, LoopsBehind
  <2>6. EnteredAfter(stmts, i) \cup after = after
    BY <1>4 DEF EnteredAfter
  <2>7. stmts[i].stmt \in Statements
    BY <1>4
  <2>8. stmts[i].stmt \notin {"Close", "Decide", "Unreachable", "Arms"}
    BY <2>7 DEF Statements
  <2>9. LoopsMean(sim, lps, confs[i + 1], LoopsInto(lps, after))
    BY <2>2, <2>5 DEF inside
  <2> QED
    BY <2>2, <2>3, <2>4, <2>6, <2>7, <2>8, <2>9 DEF ItemMeans
<1>10. OpenedIn(stmts, confs) = {}
  <2>1. \A i \in DOMAIN stmts : stmts[i].stmt \notin {"Enter", "Arms"}
    BY <1>4 DEF Statements
  <2> HIDE DEF confs
  <2> QED
    BY <2>1 DEF OpenedIn, OpenedBy
<1> HIDE DEF confs
<1>11. PlannedBy(sim, lps, stmts, after, confs)
  BY <1>9 DEF PlannedBy
<1>12. Planned(sim, lps, stmts, after, w, d, {})
  BY <1>2, <1>7, <1>8, <1>10, <1>11 DEF Planned, n
<1> QED
  BY <1>12 DEF w

LEMMA PlannedOne ==
  ASSUME NEW sim, NEW lps, NEW x, NEW after, NEW c, NEW d, ItemMeans(sim, lps, x, c, d, after)
  PROVE  Planned(sim, lps, <<x>>, after, c, d, OpenedBy(x, c, d))
<1> DEFINE confs == <<c, d>>
           u == <<x>>
<1>1. IsVec(u) /\ u[1] = x /\ DOMAIN u = {1} /\ Len(u) = 1
  BY OneVec
<1>2. confs[1] = c /\ confs[1 + 1] = d /\ Len(u) + 1 = 1 + 1
  BY <1>1
<1> HIDE DEF confs, u
<1>3. EnteredAfter(u, 1) = {}
  BY <1>1 DEF EnteredAfter
<1>4. EnteredAfter(u, 1) \cup after = after
  BY <1>3
<1>5. PlannedBy(sim, lps, u, after, confs)
  BY <1>1, <1>2, <1>4 DEF PlannedBy
<1>6. OpenedIn(u, confs) = OpenedBy(x, c, d)
  BY <1>1, <1>2 DEF OpenedIn
<1>7. IsVec(c) /\ IsVec(d)
  BY DEF ItemMeans
<1>8. Planned(sim, lps, u, after, c, d, OpenedBy(x, c, d))
  BY <1>1, <1>2, <1>5, <1>6, <1>7 DEF Planned
<1> QED
  BY <1>8 DEF u

LEMMA PlannedNothing ==
  ASSUME NEW sim, NEW lps, NEW after, NEW c, IsVec(c)
  PROVE  Planned(sim, lps, <<>>, after, c, c, {})
<1> DEFINE u == <<>>
           confs == <<c>>
<1>1. IsVec(u) /\ DOMAIN u = {} /\ Len(u) + 1 = 1 /\ confs[1] = c
  BY EmptyIsVec
<1> HIDE DEF u, confs
<1>2. PlannedBy(sim, lps, u, after, confs) /\ OpenedIn(u, confs) = {}
  BY <1>1 DEF PlannedBy, OpenedIn
<1>3. Planned(sim, lps, u, after, c, c, {})
  BY <1>1, <1>2 DEF Planned
<1> QED
  BY <1>3 DEF u

\* Items of one sequence and of another behind it, as items of both.
LEMMA ItemsAcross ==
  ASSUME NEW u, NEW v, IsVec(u), IsVec(v)
  PROVE  LET w == u \o v
         IN  /\ IsVec(w) /\ Len(w) = Len(u) + Len(v) /\ DOMAIN w = 1 .. (Len(u) + Len(v))
             /\ Len(u) \in Nat /\ Len(v) \in Nat /\ DOMAIN u = 1 .. Len(u) /\ DOMAIN v = 1 .. Len(v)
             /\ \A i \in DOMAIN u : w[i] = u[i] /\ EnteredAfter(w, i) = EnteredAfter(u, i) \cup EnteredIn(v)
             /\ \A i \in DOMAIN v : w[Len(u) + i] = v[i] /\ EnteredAfter(w, Len(u) + i) = EnteredAfter(v, i)
<1> DEFINE w == u \o v
           n == Len(u)
<1>1. /\ IsVec(w) /\ Len(w) = n + Len(v)
      /\ \A i \in 1 .. n : w[i] = u[i]
      /\ \A i \in 1 .. Len(v) : w[n + i] = v[i]
  BY ConcatVec
<1>2. /\ n \in Nat /\ Len(v) \in Nat
      /\ DOMAIN u = 1 .. n /\ DOMAIN v = 1 .. Len(v) /\ DOMAIN w = 1 .. (n + Len(v))
  BY <1>1, VecProps
<1> HIDE DEF w, n
<1>3. ASSUME NEW j \in DOMAIN w
      PROVE  \/ j \in DOMAIN u /\ w[j] = u[j]
             \/ j > n /\ j - n \in DOMAIN v /\ w[j] = v[j - n]
  <2>1. CASE j <= n
    <3>1. j \in 1 .. n
      BY <2>1, <1>2
    <3> QED
      BY <3>1, <1>1, <1>2
  <2>2. CASE ~ (j <= n)
    <3>1. j - n \in 1 .. Len(v) /\ n + (j - n) = j /\ j > n
      BY <2>2, <1>2
    <3> QED
      BY <3>1, <1>1, <1>2
  <2> QED
    BY <2>1, <2>2
<1>4. ASSUME NEW i \in DOMAIN u
      PROVE  w[i] = u[i] /\ EnteredAfter(w, i) = EnteredAfter(u, i) \cup EnteredIn(v)
  <2>1. i \in Nat /\ i <= n /\ w[i] = u[i]
    BY <1>1, <1>2
  <2>2. EnteredAfter(w, i) \subseteq EnteredAfter(u, i) \cup EnteredIn(v)
    BY <1>3 DEF EnteredAfter, EnteredIn
  <2>3. EnteredAfter(u, i) \subseteq EnteredAfter(w, i)
    <3>1. \A j \in DOMAIN u : j \in DOMAIN w /\ w[j] = u[j]
      BY <1>1, <1>2
    <3> QED
      BY <3>1 DEF EnteredAfter
  <2>4. EnteredIn(v) \subseteq EnteredAfter(w, i)
    <3>1. \A j \in DOMAIN v : n + j > i /\ n + j \in DOMAIN w /\ w[n + j] = v[j]
      BY <2>1, <1>1, <1>2
    <3> QED
      BY <3>1 DEF EnteredAfter, EnteredIn
  <2> QED
    BY <2>1, <2>2, <2>3, <2>4
<1>5. ASSUME NEW i \in DOMAIN v
      PROVE  w[n + i] = v[i] /\ EnteredAfter(w, n + i) = EnteredAfter(v, i)
  <2>1. w[n + i] = v[i]
    BY <1>1, <1>2
  <2>2. EnteredAfter(w, n + i) \subseteq EnteredAfter(v, i)
    <3> SUFFICES ASSUME NEW j \in DOMAIN w, j > n + i PROVE Entered(w[j]) \subseteq EnteredAfter(v, i)
      BY DEF EnteredAfter
    <3>1. j > n /\ j - n > i /\ j \notin DOMAIN u
      BY <1>2
    <3>2. j - n \in DOMAIN v /\ w[j] = v[j - n]
      BY <3>1, <1>3
    <3> QED
      BY <3>1, <3>2 DEF EnteredAfter
  <2>3. EnteredAfter(v, i) \subseteq EnteredAfter(w, n + i)
    <3>1. \A j \in DOMAIN v : j > i => n + j > n + i
      BY <1>2
    <3>2. \A j \in DOMAIN v : n + j \in DOMAIN w /\ w[n + j] = v[j]
      BY <1>1, <1>2
    <3> QED
      BY <3>1, <3>2 DEF EnteredAfter
  <2> QED
    BY <2>1, <2>2, <2>3
<1> QED
  BY <1>1, <1>2, <1>4, <1>5 DEF w, n

LEMMA PlannedConcat ==
  ASSUME NEW sim, NEW lps, NEW u, NEW v, NEW after, NEW c, NEW d, NEW e, NEW opens, NEW more,
         Planned(sim, lps, u, EnteredIn(v) \cup after, c, d, opens),
         Planned(sim, lps, v, after, d, e, more)
  PROVE  Planned(sim, lps, u \o v, after, c, e, opens \cup more)
<1> DEFINE w == u \o v
           n == Len(u)
           k == Len(v)
<1>1. IsVec(u) /\ IsVec(v) /\ IsVec(c) /\ IsVec(d) /\ IsVec(e)
  BY DEF Planned
<1>2. PICK f : /\ f[1] = c /\ f[n + 1] = d
               /\ PlannedBy(sim, lps, u, EnteredIn(v) \cup after, f)
               /\ opens = OpenedIn(u, f)
  BY DEF Planned
<1>3. PICK g : /\ g[1] = d /\ g[k + 1] = e
               /\ PlannedBy(sim, lps, v, after, g)
               /\ more = OpenedIn(v, g)
  BY DEF Planned
<1>4. /\ IsVec(w) /\ Len(w) = n + k /\ DOMAIN w = 1 .. (n + k)
      /\ n \in Nat /\ k \in Nat /\ DOMAIN u = 1 .. n /\ DOMAIN v = 1 .. k
      /\ \A i \in DOMAIN u : w[i] = u[i] /\ EnteredAfter(w, i) = EnteredAfter(u, i) \cup EnteredIn(v)
      /\ \A i \in DOMAIN v : w[n + i] = v[i] /\ EnteredAfter(w, n + i) = EnteredAfter(v, i)
  BY <1>1, ItemsAcross
<1> HIDE DEF w, n, k
<1> DEFINE confs == [i \in 1 .. (n + k + 1) |-> IF i <= n THEN f[i] ELSE g[i - n]]
<1>5. \A i \in 1 .. (n + 1) : confs[i] = f[i]
  <2> SUFFICES ASSUME NEW i \in 1 .. (n + 1) PROVE confs[i] = f[i]
    OBVIOUS
  <2>1. i \in 1 .. (n + k + 1)
    BY <1>4
  <2>2. CASE i <= n
    BY <2>1, <2>2
  <2>3. CASE ~ (i <= n)
    <3>1. i = n + 1 /\ i - n = 1
      BY <2>3, <1>4
    <3>2. confs[i] = g[i - n]
      BY <2>1, <2>3
    <3> QED
      BY <3>1, <3>2, <1>2, <1>3
  <2> QED
    BY <2>2, <2>3
<1>6. \A i \in 1 .. (k + 1) : confs[n + i] = g[i]
  <2> SUFFICES ASSUME NEW i \in 1 .. (k + 1) PROVE confs[n + i] = g[i]
    OBVIOUS
  <2>1. n + i \in 1 .. (n + k + 1) /\ ~ (n + i <= n) /\ (n + i) - n = i
    BY <1>4
  <2>2. confs[n + i] = IF n + i <= n THEN f[n + i] ELSE g[(n + i) - n]
    BY <2>1
  <2> HIDE DEF confs
  <2> QED
    BY <2>1, <2>2
<1> HIDE DEF confs
<1>7. confs[1] = c /\ confs[Len(w) + 1] = e
  <2>1. 1 \in 1 .. (n + 1) /\ k + 1 \in 1 .. (k + 1) /\ Len(w) + 1 = n + (k + 1)
    BY <1>4
  <2> QED
    BY <2>1, <1>2, <1>3, <1>5, <1>6
<1>8. ASSUME NEW i \in DOMAIN u
      PROVE  w[i] = u[i] /\ confs[i] = f[i] /\ confs[i + 1] = f[i + 1] /\ i \in DOMAIN w
  <2>1. i \in 1 .. (n + 1) /\ i + 1 \in 1 .. (n + 1) /\ i \in DOMAIN w
    BY <1>4
  <2> QED
    BY <2>1, <1>4, <1>5
<1>9. ASSUME NEW i \in DOMAIN v
      PROVE  w[n + i] = v[i] /\ confs[n + i] = g[i] /\ confs[(n + i) + 1] = g[i + 1] /\ n + i \in DOMAIN w
  <2>1. i \in 1 .. (k + 1) /\ i + 1 \in 1 .. (k + 1) /\ n + i \in DOMAIN w /\ (n + i) + 1 = n + (i + 1)
    BY <1>4
  <2> QED
    BY <2>1, <1>4, <1>6
<1>10. ASSUME NEW j \in DOMAIN w PROVE j \in DOMAIN u \/ \E i \in DOMAIN v : j = n + i
  <2>1. CASE j <= n
    BY <2>1, <1>4
  <2>2. CASE ~ (j <= n)
    <3>1. j - n \in DOMAIN v /\ j = n + (j - n)
      BY <2>2, <1>4
    <3> QED
      BY <3>1
  <2> QED
    BY <2>1, <2>2
<1>11. PlannedBy(sim, lps, w, after, confs)
  <2>1. ASSUME NEW i \in DOMAIN u
        PROVE  ItemMeans(sim, lps, w[i], confs[i], confs[i + 1], EnteredAfter(w, i) \cup after)
    <3>1. ItemMeans(sim, lps, u[i], f[i], f[i + 1], EnteredAfter(u, i) \cup (EnteredIn(v) \cup after))
      BY <1>2 DEF PlannedBy
    <3>2. EnteredAfter(u, i) \cup (EnteredIn(v) \cup after) = EnteredAfter(w, i) \cup after
      BY <1>4
    <3> QED
      BY <3>1, <3>2, <1>8
  <2>2. ASSUME NEW i \in DOMAIN v
        PROVE  ItemMeans(sim, lps, w[n + i], confs[n + i], confs[(n + i) + 1], EnteredAfter(w, n + i) \cup after)
    <3>1. ItemMeans(sim, lps, v[i], g[i], g[i + 1], EnteredAfter(v, i) \cup after)
      BY <1>3 DEF PlannedBy
    <3>2. EnteredAfter(w, n + i) = EnteredAfter(v, i)
      BY <1>4
    <3> QED
      BY <3>1, <3>2, <1>9
  <2> QED
    BY <2>1, <2>2, <1>10 DEF PlannedBy
<1>12. OpenedIn(w, confs) = opens \cup more
  <2>1. OpenedIn(w, confs) \subseteq opens \cup more
    <3> SUFFICES ASSUME NEW j \in DOMAIN w
                 PROVE  OpenedBy(w[j], confs[j], confs[j + 1]) \subseteq opens \cup more
      BY DEF OpenedIn
    <3>1. CASE j \in DOMAIN u
      BY <3>1, <1>2, <1>8 DEF OpenedIn
    <3>2. ASSUME NEW i \in DOMAIN v, j = n + i PROVE OpenedBy(w[j], confs[j], confs[j + 1]) \subseteq opens \cup more
      BY <3>2, <1>3, <1>9 DEF OpenedIn
    <3> QED
      BY <3>1, <3>2, <1>10
  <2>2. opens \subseteq OpenedIn(w, confs)
    BY <1>2, <1>8 DEF OpenedIn
  <2>3. more \subseteq OpenedIn(w, confs)
    BY <1>3, <1>9 DEF OpenedIn
  <2> QED
    BY <2>1, <2>2, <2>3
<1>13. Planned(sim, lps, w, after, c, e, opens \cup more)
  BY <1>1, <1>4, <1>7, <1>11, <1>12 DEF Planned
<1> QED
  BY <1>13 DEF w

\* The first item of u leads to d, the others on from there.
Splits(sim, lps, u, after, c, d, e, opens, more) ==
  /\ ItemMeans(sim, lps, Head(u), c, d, EnteredIn(Tail(u)) \cup after)
  /\ Planned(sim, lps, Tail(u), after, d, e, more)
  /\ opens = OpenedBy(Head(u), c, d) \cup more

LEMMA PlannedSplit ==
  ASSUME NEW sim, NEW lps, NEW u, u # <<>>, NEW after, NEW c, NEW e, NEW opens,
         Planned(sim, lps, u, after, c, e, opens)
  PROVE  \E d, more : Splits(sim, lps, u, after, c, d, e, opens, more)
<1> DEFINE x == Head(u)
           t == Tail(u)
           o == <<x>>
           k == Len(t)
<1>1. IsVec(u) /\ IsVec(c) /\ IsVec(e)
  BY DEF Planned
<1>2. PICK f : /\ f[1] = c /\ f[Len(u) + 1] = e
               /\ PlannedBy(sim, lps, u, after, f)
               /\ opens = OpenedIn(u, f)
  BY DEF Planned
<1>3. /\ IsVec(t) /\ Len(u) \in Nat \ {0} /\ Len(t) = Len(u) - 1 /\ x = u[1]
      /\ \A i \in 1 .. Len(t) : t[i] = u[i + 1]
  BY <1>1, TailVec
<1>4. IsVec(o) /\ Len(o) = 1 /\ o[1] = x /\ DOMAIN o = {1}
  BY OneVec
<1> HIDE DEF o, t, x
<1>5. u = o \o t
  <2>1. /\ IsVec(o \o t) /\ Len(o \o t) = Len(o) + Len(t)
        /\ \A i \in 1 .. Len(o) : (o \o t)[i] = o[i]
        /\ \A i \in 1 .. Len(t) : (o \o t)[Len(o) + i] = t[i]
    <3>1. IsVec(o) /\ IsVec(t)
      BY <1>3, <1>4
    <3> QED
      BY <3>1, ConcatVec
  <2>2. Len(o \o t) = Len(u)
    BY <2>1, <1>3, <1>4
  <2>3. ASSUME NEW i \in 1 .. Len(u) PROVE (o \o t)[i] = u[i]
    <3>1. CASE i = 1
      BY <3>1, <2>1, <1>3, <1>4
    <3>2. CASE i # 1
      <4>1. i - 1 \in 1 .. Len(t) /\ 1 + (i - 1) = i /\ (i - 1) + 1 = i
        BY <3>2, <1>3
      <4> QED
        BY <4>1, <2>1, <1>3, <1>4
    <3> QED
      BY <3>1, <3>2
  <2> QED
    BY <2>1, <2>2, <2>3, <1>1, SameVec
<1>6. /\ DOMAIN u = 1 .. (1 + k) /\ k \in Nat /\ DOMAIN t = 1 .. k
      /\ EnteredAfter(u, 1) = EnteredAfter(o, 1) \cup EnteredIn(t)
      /\ \A i \in DOMAIN t : u[1 + i] = t[i] /\ EnteredAfter(u, 1 + i) = EnteredAfter(t, i)
  <2>1. /\ DOMAIN (o \o t) = 1 .. (Len(o) + Len(t)) /\ Len(t) \in Nat /\ DOMAIN t = 1 .. Len(t)
        /\ \A i \in DOMAIN o : EnteredAfter(o \o t, i) = EnteredAfter(o, i) \cup EnteredIn(t)
        /\ \A i \in DOMAIN t : (o \o t)[Len(o) + i] = t[i] /\ EnteredAfter(o \o t, Len(o) + i) = EnteredAfter(t, i)
    <3>1. IsVec(o) /\ IsVec(t)
      BY <1>3, <1>4
    <3> QED
      BY <3>1, ItemsAcross
  <2>2. 1 \in DOMAIN o
    BY <1>4
  <2> QED
    BY <2>1, <2>2, <1>4, <1>5
<1>7. EnteredAfter(u, 1) = EnteredIn(t)
  <2>1. EnteredAfter(o, 1) = {}
    BY <1>4 DEF EnteredAfter
  <2> QED
    BY <2>1, <1>6
<1> HIDE DEF k
<1> DEFINE g == [i \in 1 .. (k + 1) |-> f[1 + i]]
           d == f[1 + 1]
<1>8. g[1] = d /\ g[k + 1] = e
  <2>1. 1 \in 1 .. (k + 1) /\ k + 1 \in 1 .. (k + 1) /\ 1 + (k + 1) = Len(u) + 1
    BY <1>3, <1>6 DEF k
  <2> QED
    BY <2>1, <1>2
<1>9. \A i \in DOMAIN t : g[i] = f[1 + i] /\ g[i + 1] = f[(1 + i) + 1] /\ 1 + i \in DOMAIN u
  <2> SUFFICES ASSUME NEW i \in DOMAIN t
               PROVE  g[i] = f[1 + i] /\ g[i + 1] = f[(1 + i) + 1] /\ 1 + i \in DOMAIN u
    OBVIOUS
  <2>1. i \in 1 .. (k + 1) /\ i + 1 \in 1 .. (k + 1) /\ 1 + (i + 1) = (1 + i) + 1 /\ 1 + i \in DOMAIN u
    BY <1>6
  <2>2. g[i] = f[1 + i] /\ g[i + 1] = f[1 + (i + 1)]
    BY <2>1
  <2> QED
    BY <2>1, <2>2
<1> HIDE DEF g, d
<1>10. 1 \in DOMAIN u
  BY <1>6
<1>11. ItemMeans(sim, lps, x, c, d, EnteredIn(t) \cup after)
  <2>1. ItemMeans(sim, lps, u[1], f[1], f[1 + 1], EnteredAfter(u, 1) \cup after)
    BY <1>2, <1>10 DEF PlannedBy
  <2> QED
    BY <2>1, <1>2, <1>3, <1>7 DEF d
<1>12. PlannedBy(sim, lps, t, after, g)
  <2> SUFFICES ASSUME NEW i \in DOMAIN t
               PROVE  ItemMeans(sim, lps, t[i], g[i], g[i + 1], EnteredAfter(t, i) \cup after)
    BY DEF PlannedBy
  <2>1. ItemMeans(sim, lps, u[1 + i], f[1 + i], f[(1 + i) + 1], EnteredAfter(u, 1 + i) \cup after)
    BY <1>2, <1>9 DEF PlannedBy
  <2> QED
    BY <2>1, <1>6, <1>9
<1>13. opens = OpenedBy(x, c, d) \cup OpenedIn(t, g)
  <2>1. OpenedBy(x, c, d) \subseteq OpenedIn(u, f)
    BY <1>2, <1>3, <1>10 DEF OpenedIn, d
  <2>2. OpenedIn(t, g) \subseteq OpenedIn(u, f)
    <3> SUFFICES ASSUME NEW i \in DOMAIN t PROVE OpenedBy(t[i], g[i], g[i + 1]) \subseteq OpenedIn(u, f)
      BY DEF OpenedIn
    <3>1. /\ t[i] = u[1 + i] /\ g[i] = f[1 + i] /\ g[i + 1] = f[(1 + i) + 1] /\ 1 + i \in DOMAIN u
      BY <1>6, <1>9
    <3>2. OpenedBy(u[1 + i], f[1 + i], f[(1 + i) + 1]) \subseteq OpenedIn(u, f)
      BY <3>1 DEF OpenedIn
    <3> QED
      BY <3>1, <3>2
  <2>3. ASSUME NEW j \in DOMAIN u
        PROVE  OpenedBy(u[j], f[j], f[j + 1]) \subseteq OpenedBy(x, c, d) \cup OpenedIn(t, g)
    <3>1. CASE j = 1
      BY <3>1, <1>2, <1>3 DEF d
    <3>2. CASE j # 1
      <4>1. j - 1 \in DOMAIN t /\ 1 + (j - 1) = j
        BY <3>2, <1>6
      <4> QED
        BY <4>1, <1>6, <1>9 DEF OpenedIn
    <3> QED
      BY <3>1, <3>2
  <2>4. OpenedIn(u, f) \subseteq OpenedBy(x, c, d) \cup OpenedIn(t, g)
    BY <2>3 DEF OpenedIn
  <2> QED
    BY <2>1, <2>2, <2>4, <1>2
<1>14. IsVec(d)
  BY <1>11 DEF ItemMeans
<1>15. Planned(sim, lps, t, after, d, e, OpenedIn(t, g))
  BY <1>1, <1>3, <1>8, <1>12, <1>14 DEF Planned, k
<1>16. Splits(sim, lps, u, after, c, d, e, opens, OpenedIn(t, g))
  BY <1>11, <1>13, <1>15 DEF x, t, Splits
<1> QED
  BY <1>16

\* More is in step, and the loops an item is in are the same.
LEMMA PlannedKept ==
  ASSUME NEW sim, NEW lps, NEW u, NEW after, NEW c, NEW d, NEW opens,
         Planned(sim, lps, u, after, c, d, opens),
         NEW now, sim \subseteq now, NEW lps2,
         \A A \in SUBSET (EnteredIn(u) \cup after) :
           LoopsInto(lps2, A) = LoopsInto(lps, A) /\ \A l \in LoopsInto(lps, A) : lps2[l] = lps[l]
  PROVE  Planned(now, lps2, u, after, c, d, opens)
<1>1. ASSUME NEW A \in SUBSET (EnteredIn(u) \cup after), NEW conf, LoopsMean(sim, lps, conf, LoopsInto(lps, A))
      PROVE  LoopsMean(now, lps2, conf, LoopsInto(lps2, A))
  BY <1>1 DEF LoopsMean, LoopMeans
<1>2. ASSUME NEW confs, PlannedBy(sim, lps, u, after, confs)
      PROVE  PlannedBy(now, lps2, u, after, confs)
  <2> SUFFICES ASSUME NEW i \in DOMAIN u
               PROVE  ItemMeans(now, lps2, u[i], confs[i], confs[i + 1], EnteredAfter(u, i) \cup after)
    BY DEF PlannedBy
  <2> DEFINE A == EnteredAfter(u, i) \cup after
             x == u[i]
             e == confs[i]
             f == confs[i + 1]
  <2>1. ItemMeans(sim, lps, x, e, f, A)
    BY <1>2 DEF PlannedBy
  <2>2. A \in SUBSET (EnteredIn(u) \cup after)
    BY EnteredByItem
  <2> HIDE DEF A, x, e, f
  <2>3. x.stmt \in Statements => e = <<x>> \o f /\ LoopsMean(now, lps2, f, LoopsInto(lps2, A))
    BY <2>1, <2>2, <1>1 DEF ItemMeans
  <2>4. x.stmt = "Arms" => <<At(x.merge, 1), e>> \in now /\ LoopsMean(now, lps2, e, LoopsInto(lps2, A))
    BY <2>1, <2>2, <1>1 DEF ItemMeans
  <2>5. x.stmt = "Decide" =>
          \E w, k : /\ IsVec(k)
                    /\ e = <<Test(w)>> \o k
                    /\ x.label = w.label
                    /\ <<At(x.then, 1), (w.body \o <<w>>) \o k>> \in now
                    /\ <<At(x.else, 1), k>> \in now
    BY <2>1 DEF ItemMeans
  <2>6. /\ IsVec(e) /\ IsVec(f)
        /\ x.stmt = "Close" => <<At(x.block, 1), e>> \in now
        /\ x.stmt = "Unreachable" => \E k : IsVec(k) /\ e = <<Diverges>> \o k
    BY <2>1 DEF ItemMeans
  <2>7. ItemMeans(now, lps2, x, e, f, A)
    BY <2>3, <2>4, <2>5, <2>6 DEF ItemMeans
  <2> QED
    BY <2>7 DEF A, x, e, f
<1> QED
  BY <1>2 DEF Planned

-----------------------------------------------------------------------------
\* A place in the body and what remains of the source, in step: the source goes
\* on silently, or the body by a jump, or both do the same.
SourceMoves(sim, pos, conf) == IsSilent(conf) /\ <<pos, Unfolded(conf)>> \in sim

BothAct(sim, blocks, pos, conf) ==
  /\ pos.line \in DOMAIN blocks[pos.block].stmts
  /\ conf # <<>> /\ Head(conf).stmt = "Act"
  /\ blocks[pos.block].stmts[pos.line].label = Head(conf).label
  /\ <<At(pos.block, pos.line + 1), Tail(conf)>> \in sim

AtEnd(blocks, finished, pos) == pos.block \in finished /\ pos.line = Len(blocks[pos.block].stmts) + 1

BodyJumps(sim, blocks, finished, pos, conf) ==
  /\ AtEnd(blocks, finished, pos)
  /\ blocks[pos.block].term.kind = "Goto"
  /\ <<At(blocks[pos.block].term.targets[1], 1), conf>> \in sim

SameWays(sim, void, term, conf) ==
  /\ term.kind # "Goto" /\ ~ IsSilent(conf)
  /\ SourceOffer(void, conf) = Does(term.kind, term.label, Len(term.targets))
  /\ \A way \in 1 .. Len(term.targets) : <<At(term.targets[way], 1), SourceAfter(conf, way)>> \in sim

BothEnd(sim, void, blocks, finished, pos, conf) ==
  AtEnd(blocks, finished, pos) /\ SameWays(sim, void, blocks[pos.block].term, conf)

Agrees(sim, void, blocks, finished, pos, conf) ==
  \/ SourceMoves(sim, pos, conf)
  \/ BothAct(sim, blocks, pos, conf)
  \/ BodyJumps(sim, blocks, finished, pos, conf)
  \/ BothEnd(sim, void, blocks, finished, pos, conf)

\* Where the builder writes, c being what it is about to write.
Here(bl) == At(bl.current, Len(bl.blocks[bl.current].stmts) + 1)

Stands(sim, void, bl, c, opens, pos, conf) ==
  \/ Agrees(sim, void, bl.blocks, bl.finalized, pos, conf)
  \/ <<pos, conf>> \in opens
  \/ ~ IsTerminated(bl) /\ pos = Here(bl) /\ conf = c

AllStand(sim, void, bl, c, opens) ==
  \A pos, conf : <<pos, conf>> \in sim => Stands(sim, void, bl, c, opens, pos, conf)

ArePlaces(sim, blocks) == \A pos, conf : <<pos, conf>> \in sim => IsPlace(blocks, pos) /\ IsVec(conf)

AreEmpty(blocks, set) == \A i \in set : blocks[i].stmts = <<>>

\* The part of the body that is written does what the part of the source does that
\* has been lowered, and what is to do leads through the rest.
Simulates(sim, void, root, lps, bl, u) ==
  /\ <<At(EntryBlock, 1), root>> \in sim
  /\ ArePlaces(sim, bl.blocks)
  /\ AreEmpty(bl.blocks, EnteredIn(u))
  /\ \E c, opens : Planned(sim, lps, u, {}, c, <<>>, opens) /\ AllStand(sim, void, bl, c, opens)

\* The same for the first thing to do, between c and d, and the others.
HeadMeans(sim, void, root, lps, bl, u, c, d, more) ==
  /\ <<At(EntryBlock, 1), root>> \in sim
  /\ ArePlaces(sim, bl.blocks)
  /\ AreEmpty(bl.blocks, Entered(Head(u)) \cup EnteredIn(Tail(u)))
  /\ ItemMeans(sim, lps, Head(u), c, d, EnteredIn(Tail(u)))
  /\ Planned(sim, lps, Tail(u), {}, d, <<>>, more)
  /\ AllStand(sim, void, bl, c, OpenedBy(Head(u), c, d) \cup more)

LEMMA SimulatesHead ==
  ASSUME NEW lists, NEW begins, NEW lps, NEW bl, NEW u, LowerOK(lists, begins, lps, bl, u), u # <<>>,
         NEW sim, NEW void, NEW root, Simulates(sim, void, root, lps, bl, u)
  PROVE  \E c, d, more : HeadMeans(sim, void, root, lps, bl, u, c, d, more)
<1>1. PICK c, opens : Planned(sim, lps, u, {}, c, <<>>, opens) /\ AllStand(sim, void, bl, c, opens)
  BY DEF Simulates
<1>2. PICK d, more : Splits(sim, lps, u, {}, c, d, <<>>, opens, more)
  <2>1. ASSUME NEW none, NEW e, Planned(sim, lps, u, none, c, e, opens)
        PROVE  \E d, more : Splits(sim, lps, u, none, c, d, e, opens, more)
    BY <2>1, PlannedSplit
  <2> QED
    BY <2>1, <1>1
<1>3. EnteredIn(u) = Entered(Head(u)) \cup EnteredIn(Tail(u))
  BY ItemsSplit DEF LowerOK
<1>4. EnteredIn(Tail(u)) \cup {} = EnteredIn(Tail(u))
  OBVIOUS
<1>5. HeadMeans(sim, void, root, lps, bl, u, c, d, more)
  BY <1>1, <1>2, <1>3, <1>4 DEF HeadMeans, Simulates, Splits
<1> QED
  BY <1>5

\* What is written stays.
StmtsGrow(old, new) ==
  /\ Len(old) <= Len(new) /\ DOMAIN old \subseteq DOMAIN new
  /\ \A k \in DOMAIN old : new[k] = old[k]

Grows(r, s) ==
  /\ DOMAIN r.blocks \subseteq DOMAIN s.blocks
  /\ r.finalized \subseteq s.finalized
  /\ \A i \in r.finalized : s.blocks[i] = r.blocks[i]
  /\ \A i \in DOMAIN r.blocks :
       /\ Len(r.blocks[i].stmts) \in Nat /\ Len(s.blocks[i].stmts) \in Nat
       /\ StmtsGrow(r.blocks[i].stmts, s.blocks[i].stmts)

LEMMA AgreesMore ==
  ASSUME NEW r, NEW s, Grows(r, s), NEW sim, NEW now, sim \subseteq now, NEW void, NEW pos, NEW conf,
         IsPlace(r.blocks, pos), Agrees(sim, void, r.blocks, r.finalized, pos, conf)
  PROVE  Agrees(now, void, s.blocks, s.finalized, pos, conf)
<1>1. pos.block \in DOMAIN r.blocks
  BY DEF IsPlace
<1>2. CASE SourceMoves(sim, pos, conf)
  BY <1>2 DEF SourceMoves, Agrees
<1>3. CASE BothAct(sim, r.blocks, pos, conf)
  <2>1. BothAct(now, s.blocks, pos, conf)
    BY <1>1, <1>3 DEF BothAct, Grows, StmtsGrow
  <2> QED
    BY <2>1 DEF Agrees
<1>4. ASSUME AtEnd(r.blocks, r.finalized, pos)
      PROVE  AtEnd(s.blocks, s.finalized, pos) /\ s.blocks[pos.block] = r.blocks[pos.block]
  BY <1>4 DEF AtEnd, Grows
<1>5. CASE BodyJumps(sim, r.blocks, r.finalized, pos, conf)
  <2>1. BodyJumps(now, s.blocks, s.finalized, pos, conf)
    BY <1>4, <1>5 DEF BodyJumps
  <2> QED
    BY <2>1 DEF Agrees
<1>6. CASE BothEnd(sim, void, r.blocks, r.finalized, pos, conf)
  <2>1. BothEnd(now, void, s.blocks, s.finalized, pos, conf)
    BY <1>4, <1>6 DEF BothEnd, SameWays
  <2> QED
    BY <2>1 DEF Agrees
<1> QED
  BY <1>2, <1>3, <1>5, <1>6 DEF Agrees

LEMMA PlacesGrow ==
  ASSUME NEW r, NEW s, Grows(r, s), NEW pos, IsPlace(r.blocks, pos)
  PROVE  IsPlace(s.blocks, pos)
<1>1. pos.block \in DOMAIN r.blocks /\ pos = At(pos.block, pos.line)
  BY DEF IsPlace
<1> DEFINE n == Len(r.blocks[pos.block].stmts)
           m == Len(s.blocks[pos.block].stmts)
<1>2. n \in Nat /\ m \in Nat /\ n <= m /\ pos.block \in DOMAIN s.blocks
  BY <1>1 DEF Grows, StmtsGrow
<1>3. pos.line \in 1 .. (n + 1)
  BY DEF IsPlace
<1> HIDE DEF n, m
<1>4. pos.line \in 1 .. (m + 1)
  BY <1>2, <1>3
<1> QED
  BY <1>1, <1>2, <1>4 DEF IsPlace, m

\* The loops that what is to do is in stay the same.
LoopsStay(lps, lps2, pending) ==
  \A A \in SUBSET pending : LoopsInto(lps2, A) = LoopsInto(lps, A) /\ \A l \in LoopsInto(lps, A) : lps2[l] = lps[l]

\* What is newly in step, and what was because of what has been done, of gone or of
\* the builder being here, is in step because of something else.
Justified(sim, now, void, bl, c, gone, s, e, opened) ==
  \A pos, conf :
    /\ <<pos, conf>> \in now
    /\ \/ <<pos, conf>> \notin sim
       \/ <<pos, conf>> \in gone
       \/ ~ IsTerminated(bl) /\ pos = Here(bl) /\ conf = c
    => IsPlace(s.blocks, pos) /\ IsVec(conf) /\ Stands(now, void, s, e, opened, pos, conf)

\* The first thing to do is done, and v is to do in its place.
LEMMA MeansBack ==
  ASSUME NEW sim, NEW void, NEW root, NEW lps, NEW bl, NEW u, NEW c, NEW d, NEW more,
         HeadMeans(sim, void, root, lps, bl, u, c, d, more),
         NEW now, sim \subseteq now, NEW s, Grows(bl, s),
         NEW lps2, LoopsStay(lps, lps2, EnteredIn(Tail(u))),
         NEW v, NEW e, NEW opened, Planned(now, lps2, v, EnteredIn(Tail(u)), e, d, opened),
         AreEmpty(s.blocks, EnteredIn(v) \cup EnteredIn(Tail(u))),
         Justified(sim, now, void, bl, c, OpenedBy(Head(u), c, d), s, e, opened)
  PROVE  Simulates(now, void, root, lps2, s, v \o Tail(u))
<1> DEFINE t == Tail(u)
<1>1. IsVec(v) /\ IsVec(t)
  BY DEF Planned, HeadMeans
<1>2. Planned(now, lps2, t, {}, d, <<>>, more)
  <2>1. Planned(sim, lps, t, {}, d, <<>>, more) /\ EnteredIn(t) \cup {} = EnteredIn(t)
    BY DEF HeadMeans
  <2>2. \A A \in SUBSET (EnteredIn(t) \cup {}) :
          LoopsInto(lps2, A) = LoopsInto(lps, A) /\ \A l \in LoopsInto(lps, A) : lps2[l] = lps[l]
    BY <2>1 DEF LoopsStay
  <2> HIDE DEF t
  <2> QED
    BY <2>1, <2>2, PlannedKept
<1>3. Planned(now, lps2, v \o t, {}, e, <<>>, opened \cup more)
  <2>1. EnteredIn(t) \cup {} = EnteredIn(t)
    OBVIOUS
  <2>2. Planned(now, lps2, v, EnteredIn(t) \cup {}, e, d, opened)
    BY <2>1
  <2> HIDE DEF t
  <2> QED
    BY <2>2, <1>2, PlannedConcat
<1>4. EnteredIn(v \o t) = EnteredIn(v) \cup EnteredIn(t)
  BY <1>1, EnteredConcat
<1>5. ASSUME NEW pos, NEW conf, <<pos, conf>> \in now
      PROVE  IsPlace(s.blocks, pos) /\ IsVec(conf) /\ Stands(now, void, s, e, opened \cup more, pos, conf)
  <2>1. CASE \/ <<pos, conf>> \notin sim
             \/ <<pos, conf>> \in OpenedBy(Head(u), c, d)
             \/ ~ IsTerminated(bl) /\ pos = Here(bl) /\ conf = c
    <3>1. IsPlace(s.blocks, pos) /\ IsVec(conf) /\ Stands(now, void, s, e, opened, pos, conf)
      BY <2>1, <1>5 DEF Justified
    <3> QED
      BY <3>1 DEF Stands
  <2>2. CASE ~ (\/ <<pos, conf>> \notin sim
                \/ <<pos, conf>> \in OpenedBy(Head(u), c, d)
                \/ ~ IsTerminated(bl) /\ pos = Here(bl) /\ conf = c)
    <3>1. IsPlace(bl.blocks, pos) /\ IsVec(conf)
      BY <2>2 DEF HeadMeans, ArePlaces
    <3>2. \/ Agrees(sim, void, bl.blocks, bl.finalized, pos, conf)
          \/ <<pos, conf>> \in more
      BY <2>2 DEF HeadMeans, AllStand, Stands
    <3>3. Agrees(sim, void, bl.blocks, bl.finalized, pos, conf) => Agrees(now, void, s.blocks, s.finalized, pos, conf)
      BY <3>1, AgreesMore
    <3> QED
      BY <3>1, <3>2, <3>3, PlacesGrow DEF Stands
  <2> QED
    BY <2>1, <2>2
<1>6. ArePlaces(now, s.blocks)
  BY <1>5 DEF ArePlaces
<1>7. AllStand(now, void, s, e, opened \cup more)
  BY <1>5 DEF AllStand
<1>8. <<At(EntryBlock, 1), root>> \in now
  BY DEF HeadMeans
<1> QED
  BY <1>3, <1>4, <1>6, <1>7, <1>8 DEF Simulates

-----------------------------------------------------------------------------
\* What the source does first.
LEMMA FirstStmt ==
  ASSUME NEW x, NEW d, IsVec(d)
  PROVE  LET conf == <<x>> \o d
         IN  /\ IsVec(conf) /\ conf # <<>> /\ Head(conf) = x /\ Tail(conf) = d
             /\ x.stmt # "Deciding" =>
                  (IsSilent(conf) <=> x.stmt \in {"Block", "While", "Match", "Break", "Continue"})
             /\ x.stmt = "Deciding" => (IsSilent(conf) <=> NodeOf(x).node = "Leaf")
<1>1. LET conf == <<x>> \o d IN IsVec(conf) /\ conf # <<>> /\ Head(conf) = x /\ Tail(conf) = d
  BY ConsVec
<1> QED
  BY <1>1 DEF IsSilent, IsAt

LEMMA UnfoldedStmt ==
  ASSUME NEW x, NEW d, IsVec(d)
  PROVE  LET next == Unfolded(<<x>> \o d)
         IN  /\ x.stmt = "Block" => next = x.stmts \o d
             /\ x.stmt = "While" => next = (x.setup \o <<Test(x)>>) \o d
             /\ x.stmt = "Match" => next = <<Deciding(x, 1)>> \o d
             /\ x.stmt = "Deciding" => next = x.match.arms[NodeOf(x).arm] \o d
             /\ x.stmt = "Break" => next = Tail(FromLoop(d, x.loop))
             /\ x.stmt = "Continue" => next = FromLoop(d, x.loop)
<1> DEFINE conf == <<x>> \o d
<1>1. Head(conf) = x /\ Tail(conf) = d
  BY ConsVec
<1> HIDE DEF conf
<1>2. /\ x.stmt = "Block" => Unfolded(conf) = x.stmts \o d
      /\ x.stmt = "While" => Unfolded(conf) = (x.setup \o <<Test(x)>>) \o d
      /\ x.stmt = "Match" => Unfolded(conf) = <<Deciding(x, 1)>> \o d
      /\ x.stmt = "Deciding" => Unfolded(conf) = x.match.arms[NodeOf(x).arm] \o d
      /\ x.stmt = "Break" => Unfolded(conf) = Tail(FromLoop(d, x.loop))
      /\ x.stmt = "Continue" => Unfolded(conf) = FromLoop(d, x.loop)
  BY <1>1 DEF Unfolded
<1> QED
  BY <1>2 DEF conf

LEMMA OfferedStmt ==
  ASSUME NEW x, NEW d, IsVec(d), NEW void
  PROVE  LET offer == SourceOffer(void, <<x>> \o d)
         IN  /\ x.stmt = "Act" => offer = Does("Stmt", x.label, 1)
             /\ x.stmt \in {"Call", "Never"} => offer = Does("Call", x.label, 1)
             /\ x.stmt = "Diverges" => offer = Does("Diverge", "", 0)
             /\ x.stmt = "Return" => offer = Does("Return", x.label, 0)
             /\ x.stmt \in {"If", "IfElse"} => offer = Does("Branch", x.label, 2)
             /\ x.stmt = "Test" => offer = Does("Branch", x.while.label, 2)
             /\ IsAt(x, "Fail") => offer = Does("Diverge", "", 0)
             /\ IsAt(x, "Cases") => offer = Does("Switch", NodeOf(x).label, Len(NodeOf(x).ways))
<1> DEFINE conf == <<x>> \o d
<1>1. Head(conf) = x /\ conf # <<>>
  BY ConsVec
<1> HIDE DEF conf
<1>2. /\ x.stmt = "Act" => SourceOffer(void, conf) = Does("Stmt", x.label, 1)
      /\ x.stmt \in {"Call", "Never"} => SourceOffer(void, conf) = Does("Call", x.label, 1)
      /\ x.stmt = "Diverges" => SourceOffer(void, conf) = Does("Diverge", "", 0)
      /\ x.stmt = "Return" => SourceOffer(void, conf) = Does("Return", x.label, 0)
      /\ x.stmt \in {"If", "IfElse"} => SourceOffer(void, conf) = Does("Branch", x.label, 2)
      /\ x.stmt = "Test" => SourceOffer(void, conf) = Does("Branch", x.while.label, 2)
      /\ IsAt(x, "Fail") => SourceOffer(void, conf) = Does("Diverge", "", 0)
      /\ IsAt(x, "Cases") => SourceOffer(void, conf) = Does("Switch", NodeOf(x).label, Len(NodeOf(x).ways))
  BY <1>1 DEF SourceOffer, IsAt
<1> QED
  BY <1>2 DEF conf

AfterIs(x, d, way, next) ==
  /\ x.stmt \in {"Act", "Call"} => next = d
  /\ x.stmt = "Never" => next = <<Diverges>> \o d
  /\ x.stmt = "If" => next = (IF way = 1 THEN x.then \o d ELSE d)
  /\ x.stmt = "IfElse" => next = (IF way = 1 THEN x.then ELSE x.else) \o d
  /\ x.stmt = "Test" => next = (IF way = 1 THEN (x.while.body \o <<x.while>>) \o d ELSE d)
  /\ IsAt(x, "Cases") =>
       next = (IF NodeOf(x).ways[way] = Uncovered THEN <<Diverges>>
               ELSE <<Deciding(x.match, NodeOf(x).ways[way])>>) \o d

LEMMA AfterStmt ==
  ASSUME NEW x, NEW d, IsVec(d), NEW way
  PROVE  AfterIs(x, d, way, SourceAfter(<<x>> \o d, way))
<1> DEFINE conf == <<x>> \o d
<1>1. Head(conf) = x /\ Tail(conf) = d /\ <<>> \o d = d
  BY ConsVec, NothingBefore
<1> HIDE DEF conf
<1>2. /\ x.stmt \in {"Act", "Call"} => SourceAfter(conf, way) = <<>> \o d
      /\ x.stmt = "Never" => SourceAfter(conf, way) = <<Diverges>> \o d
      /\ x.stmt = "If" => SourceAfter(conf, way) = (IF way = 1 THEN x.then ELSE <<>>) \o d
      /\ x.stmt = "IfElse" => SourceAfter(conf, way) = (IF way = 1 THEN x.then ELSE x.else) \o d
      /\ x.stmt = "Test" => SourceAfter(conf, way) = (IF way = 1 THEN x.while.body \o <<x.while>> ELSE <<>>) \o d
      /\ IsAt(x, "Cases") =>
           SourceAfter(conf, way) = (IF NodeOf(x).ways[way] = Uncovered THEN <<Diverges>>
                                     ELSE <<Deciding(x.match, NodeOf(x).ways[way])>>) \o d
  BY <1>1 DEF SourceAfter, IsAt
<1>3. AfterIs(x, d, way, SourceAfter(conf, way))
  BY <1>1, <1>2 DEF AfterIs
<1> QED
  BY <1>3 DEF conf

-----------------------------------------------------------------------------
\* What the builder does keeps the statements, and the blocks that are finished.
Continues(r, s) ==
  /\ DOMAIN r.blocks \subseteq DOMAIN s.blocks
  /\ r.finalized \subseteq s.finalized
  /\ \A i \in r.finalized : s.blocks[i] = r.blocks[i]
  /\ \A i \in DOMAIN r.blocks : s.blocks[i].stmts = r.blocks[i].stmts

LEMMA ContinuesOn ==
  ASSUME NEW r, NEW s, NEW q, Continues(r, s), Continues(s, q)
  PROVE  Continues(r, q)
BY DEF Continues

LEMMA ContinuesSelf == ASSUME NEW r PROVE Continues(r, r)
BY DEF Continues

LEMMA ContinuesGrows ==
  ASSUME NEW r, NEW begins, NEW pending, Written(r, begins, pending), NEW s, Continues(r, s)
  PROVE  Grows(r, s)
<1>1. ASSUME NEW i \in DOMAIN r.blocks
      PROVE  Len(r.blocks[i].stmts) \in Nat
  <2>1. IsVec(r.blocks[i].stmts)
    BY DEF Written, BlocksOK, BlockOK
  <2> QED
    BY <2>1, VecProps
<1>2. ASSUME NEW i \in DOMAIN r.blocks
      PROVE  /\ Len(r.blocks[i].stmts) \in Nat /\ Len(s.blocks[i].stmts) \in Nat
             /\ StmtsGrow(r.blocks[i].stmts, s.blocks[i].stmts)
  BY <1>1 DEF Continues, StmtsGrow
<1> QED
  BY <1>2 DEF Continues, Grows

LEMMA NewContinues ==
  ASSUME NEW r, NEW begins, NEW pending, Written(r, begins, pending), NEW n \in Nat
  PROVE  LET s == NewBlocks(r, n)
         IN  /\ Continues(r, s)
             /\ \A i \in (Len(r.blocks) + 1) .. (Len(r.blocks) + n) : s.blocks[i].stmts = <<>>
<1> DEFINE s == NewBlocks(r, n)
           l == Len(r.blocks)
<1>1. /\ IsBuilder(r) /\ IsVec(r.blocks) /\ l \in Nat /\ DOMAIN r.blocks = 1 .. l /\ r.finalized \subseteq 1 .. l
  BY WrittenProps
<1>2. /\ Allocates(r, s, n) /\ s.finalized = r.finalized
      /\ \A i \in 1 .. n : s.blocks[l + i] = EmptyBlock
  BY <1>1, Allocated
<1> HIDE DEF s, l
<1>3. DOMAIN s.blocks = 1 .. (l + n) /\ \A i \in 1 .. l : s.blocks[i] = r.blocks[i]
  BY <1>2, VecProps DEF Allocates, l
<1>4. Continues(r, s)
  BY <1>1, <1>2, <1>3 DEF Continues
<1>5. ASSUME NEW i \in (l + 1) .. (l + n) PROVE s.blocks[i].stmts = <<>>
  <2>1. i - l \in 1 .. n /\ l + (i - l) = i
    BY <1>1
  <2>2. s.blocks[i] = EmptyBlock
    BY <1>2, <2>1
  <2> QED
    BY <2>2 DEF EmptyBlock
<1> QED
  BY <1>4, <1>5 DEF s, l

LEMMA EndsContinue ==
  ASSUME NEW r, NEW begins, NEW pending, Written(r, begins, pending), NEW terms, IsVec(terms)
  PROVE  LET s == NewEnds(r, terms)
             n == Len(terms)
         IN  /\ Continues(r, s)
             /\ \A i \in 1 .. n : /\ Len(r.blocks) + i \in s.finalized
                                  /\ s.blocks[Len(r.blocks) + i] = [stmts |-> <<>>, term |-> terms[i]]
<1> DEFINE s == NewEnds(r, terms)
           l == Len(r.blocks)
           n == Len(terms)
<1>1. /\ IsBuilder(r) /\ IsVec(r.blocks) /\ l \in Nat /\ DOMAIN r.blocks = 1 .. l /\ r.finalized \subseteq 1 .. l
      /\ n \in Nat
  BY WrittenProps, VecProps
<1>2. /\ Allocates(r, s, n) /\ s.finalized = r.finalized \cup {l + i : i \in 1 .. n}
      /\ \A i \in 1 .. n : s.blocks[l + i] = [stmts |-> <<>>, term |-> terms[i]]
  BY <1>1, EndsAllocated
<1> HIDE DEF s, l, n
<1>3. DOMAIN s.blocks = 1 .. (l + n) /\ \A i \in 1 .. l : s.blocks[i] = r.blocks[i]
  BY <1>1, <1>2, VecProps DEF Allocates, l
<1>4. Continues(r, s)
  BY <1>1, <1>2, <1>3 DEF Continues
<1> QED
  BY <1>2, <1>4 DEF s, l, n

\* The builder ends its block.
EndsWith(r, s, term) ==
  /\ Continues(r, s) /\ DOMAIN s.blocks = DOMAIN r.blocks
  /\ s.current = r.current /\ s.finalized = r.finalized \cup {r.current}
  /\ s.blocks[r.current].term = term

LEMMA TermContinues ==
  ASSUME NEW r, NEW begins, NEW pending, Written(r, begins, pending), ~ IsTerminated(r),
         NEW term, TermOK(r.blocks, term)
  PROVE  EndsWith(r, Terminate(r, term), term)
<1> DEFINE s == Terminate(r, term)
           n == Len(r.blocks)
           old == r.blocks[r.current]
           new == s.blocks[r.current]
<1>1. /\ IsBuilder(r) /\ IsVec(r.blocks) /\ r.current \in 1 .. n /\ DOMAIN r.blocks = 1 .. n
      /\ r.finalized \subseteq 1 .. n /\ IsBlock(old, n)
      /\ r.current \notin r.finalized
  BY WrittenProps DEF IsTerminated
<1>2. term.kind = "Goto" => term.targets[1] \in 1 .. n
  <2>1. IsVec(term.targets) /\ ToSet(term.targets) \subseteq 1 .. n
    BY <1>1 DEF TermOK
  <2>2. Len(term.targets) = 1 => term.targets[1] \in ToSet(term.targets)
    BY <2>1, VecProps
  <2> QED
    BY <2>1, <2>2 DEF TermOK
<1>3. WritesInPlace(r, s, n) /\ EndsBlock(r, s, term)
  BY <1>1, <1>2, Terminated
<1> HIDE DEF s
<1>4. /\ s.finalized = r.finalized \cup {r.current} /\ s.current = r.current
      /\ new.stmts = old.stmts /\ new.term = term
      /\ DOMAIN s.blocks = DOMAIN r.blocks
      /\ \A i \in DOMAIN r.blocks : i # r.current => s.blocks[i] = r.blocks[i]
  BY <1>1, <1>3, VecProps DEF WritesInPlace, EndsBlock, IsBlock
<1>5. Continues(r, s)
  BY <1>1, <1>4 DEF Continues
<1> QED
  BY <1>4, <1>5 DEF EndsWith, s

LEMMA SwitchContinues ==
  ASSUME NEW r, IsBuilder(r), NEW c, c \notin r.finalized
  PROVE  Continues(r, SwitchToBlock(r, c))
<1>1. SwitchToBlock(r, c) = [r EXCEPT !.current = c]
  BY DEF SwitchToBlock
<1>2. [r EXCEPT !.current = c].blocks = r.blocks /\ [r EXCEPT !.current = c].finalized = r.finalized
  BY BuilderChanged
<1> QED
  BY <1>1, <1>2 DEF Continues

\* The block the builder was in has ended with a terminator.
EndedHere(bl, s, term) ==
  AtEnd(s.blocks, s.finalized, Here(bl)) /\ s.blocks[bl.current].term = term

LEMMA EndsHere ==
  ASSUME NEW bl, NEW begins, NEW pending, Written(bl, begins, pending),
         NEW r, Continues(bl, r), r.current = bl.current, NEW term, NEW s, EndsWith(r, s, term), NEW q, Continues(s, q)
  PROVE  Continues(bl, q) /\ EndedHere(bl, q, term)
<1>1. Continues(bl, s) /\ Continues(bl, q)
  BY ContinuesOn DEF EndsWith
<1>2. bl.current \in DOMAIN bl.blocks
  BY DEF Written, BlocksOK
<1>3. /\ bl.current \in q.finalized
      /\ q.blocks[bl.current] = s.blocks[bl.current]
      /\ s.blocks[bl.current].stmts = bl.blocks[bl.current].stmts
      /\ s.blocks[bl.current].term = term
  BY <1>1, <1>2 DEF EndsWith, Continues
<1>4. Here(bl).block = bl.current /\ Here(bl).line = Len(bl.blocks[bl.current].stmts) + 1
  BY AtFields DEF Here
<1> QED
  BY <1>1, <1>3, <1>4 DEF EndedHere, AtEnd

\* Places where something begins, and where the builder is.
LEMMA StartIsPlace ==
  ASSUME NEW s, NEW begins, NEW pending, Written(s, begins, pending), NEW i \in DOMAIN s.blocks
  PROVE  IsPlace(s.blocks, At(i, 1))
<1>1. IsVec(s.blocks[i].stmts)
  BY DEF Written, BlocksOK, BlockOK
<1>2. Len(s.blocks[i].stmts) \in Nat
  BY <1>1, VecProps
<1>3. 1 \in 1 .. (Len(s.blocks[i].stmts) + 1)
  BY <1>2
<1> QED
  BY <1>3, AtFields DEF IsPlace

LEMMA HereIsPlace ==
  ASSUME NEW s, NEW begins, NEW pending, Written(s, begins, pending)
  PROVE  IsPlace(s.blocks, Here(s)) /\ Here(s).block = s.current
<1>1. s.current \in DOMAIN s.blocks /\ IsVec(s.blocks[s.current].stmts)
  BY DEF Written, BlocksOK, BlockOK
<1> DEFINE n == Len(s.blocks[s.current].stmts)
<1>2. n \in Nat
  BY <1>1, VecProps
<1> HIDE DEF n
<1>3. n + 1 \in 1 .. (n + 1)
  BY <1>2
<1>4. Here(s) = At(s.current, n + 1)
  BY DEF Here, n
<1> QED
  BY <1>1, <1>3, <1>4, AtFields DEF IsPlace, n

\* A jump and a branch out of the block the builder was in.
LEMMA JumpAgrees ==
  ASSUME NEW bl, NEW s, NEW term, EndedHere(bl, s, term), term.kind = "Goto",
         NEW sim, NEW conf, <<At(term.targets[1], 1), conf>> \in sim, NEW void
  PROVE  Agrees(sim, void, s.blocks, s.finalized, Here(bl), conf)
<1>1. Here(bl).block = bl.current
  BY AtFields DEF Here
<1> QED
  BY <1>1 DEF EndedHere, Agrees, BodyJumps

LEMMA EndAgrees ==
  ASSUME NEW bl, NEW s, NEW term, EndedHere(bl, s, term), NEW sim, NEW void, NEW conf, SameWays(sim, void, term, conf)
  PROVE  Agrees(sim, void, s.blocks, s.finalized, Here(bl), conf)
<1>1. Here(bl).block = bl.current
  BY AtFields DEF Here
<1> QED
  BY <1>1 DEF EndedHere, Agrees, BothEnd

-----------------------------------------------------------------------------
\* The first thing to do, at the point it is done.
Staged(lists, begins, lps, bl, u, sim, void, root, c, d, more) ==
  /\ AreScoped(lists)
  /\ LowerOK(lists, begins, lps, bl, u)
  /\ u # <<>>
  /\ HeadMeans(sim, void, root, lps, bl, u, c, d, more)

LEMMA StagedProps ==
  ASSUME NEW lists, NEW begins, NEW lps, NEW bl, NEW u, NEW sim, NEW void, NEW root, NEW c, NEW d, NEW more,
         Staged(lists, begins, lps, bl, u, sim, void, root, c, d, more)
  PROVE  LET x == Head(u)
             after == EnteredIn(Tail(u))
         IN  /\ IsVec(c) /\ IsVec(d) /\ IsVec(Tail(u))
             /\ Taken(lists, begins, lps, bl, u, x, KindAt(Tail(u), 1, "End"), after)
             /\ ItemMeans(sim, lps, x, c, d, after)
             /\ Written(bl, begins, Entered(x) \cup after)
             /\ IF IsTerminated(bl) THEN x.stmt \in {"Enter", "Arms", "Close"} ELSE x.stmt \notin {"Enter", "Arms"}
             /\ AreEmpty(bl.blocks, Entered(x) \cup after)
             /\ Entered(x) \cup after \subseteq DOMAIN bl.blocks
             /\ bl.current \notin Entered(x) \cup after
             /\ IsPlace(bl.blocks, Here(bl)) /\ Here(bl).block = bl.current
<1> DEFINE x == Head(u)
           after == EnteredIn(Tail(u))
<1>1. /\ IsVec(c) /\ IsVec(d) /\ IsVec(Tail(u)) /\ ItemMeans(sim, lps, x, c, d, after)
      /\ AreEmpty(bl.blocks, Entered(x) \cup after)
  BY DEF Staged, HeadMeans, ItemMeans, Planned
<1>2. Taken(lists, begins, lps, bl, u, x, KindAt(Tail(u), 1, "End"), after)
  BY TakenProps DEF Staged
<1> HIDE DEF x, after
<1>3. /\ Written(bl, begins, Entered(x) \cup after)
      /\ IF IsTerminated(bl) THEN x.stmt \in {"Enter", "Arms", "Close"} ELSE x.stmt \notin {"Enter", "Arms"}
  BY <1>2 DEF Taken
<1>4. IsPlace(bl.blocks, Here(bl)) /\ Here(bl).block = bl.current
  BY <1>3, HereIsPlace
<1>5. bl.current \notin Entered(x) \cup after /\ Entered(x) \cup after \subseteq DOMAIN bl.blocks
  BY <1>3 DEF Written, PendingOK
<1> QED
  BY <1>1, <1>2, <1>3, <1>4, <1>5 DEF x, after

\* A statement x, with after still to be switched to.
StmtStaged(lists, begins, lps, bl, sim, c, d, x, next, after) ==
  /\ IsVec(c) /\ IsVec(d) /\ c = <<x>> \o d /\ LoopsMean(sim, lps, d, LoopsInto(lps, after))
  /\ ~ IsTerminated(bl) /\ Written(bl, begins, after) /\ LoopsOK(lps, bl.blocks, begins)
  /\ IsScopedStmt(lists, x, LoopsInto(lps, after), EndBefore(next))
  /\ x.stmt \notin Straight => bl.current \notin begins
  /\ OpenedBy(x, c, d) = {}
  /\ AreEmpty(bl.blocks, after) /\ after \subseteq DOMAIN bl.blocks /\ bl.current \notin after
  /\ IsPlace(bl.blocks, Here(bl)) /\ Here(bl).block = bl.current

LEMMA StagedStatement ==
  ASSUME NEW lists, NEW begins, NEW lps, NEW bl, NEW u, NEW sim, NEW void, NEW root, NEW c, NEW d, NEW more,
         Staged(lists, begins, lps, bl, u, sim, void, root, c, d, more), Head(u).stmt \in Statements
  PROVE  StmtStaged(lists, begins, lps, bl, sim, c, d, Head(u), KindAt(Tail(u), 1, "End"), EnteredIn(Tail(u)))
<1> DEFINE x == Head(u)
           after == EnteredIn(Tail(u))
<1>1. /\ Taken(lists, begins, lps, bl, u, x, KindAt(Tail(u), 1, "End"), after)
      /\ ItemMeans(sim, lps, x, c, d, after)
      /\ AreEmpty(bl.blocks, Entered(x) \cup after) /\ bl.current \notin Entered(x) \cup after
      /\ Entered(x) \cup after \subseteq DOMAIN bl.blocks
      /\ IsPlace(bl.blocks, Here(bl)) /\ Here(bl).block = bl.current
  BY StagedProps
<1>2. x.stmt \in Statements
  OBVIOUS
<1> HIDE DEF x, after
<1>3. /\ ~ IsTerminated(bl) /\ Written(bl, begins, after) /\ LoopsOK(lps, bl.blocks, begins)
      /\ IsScopedStmt(lists, x, LoopsInto(lps, after), EndBefore(KindAt(Tail(u), 1, "End")))
      /\ x.stmt \notin Straight => bl.current \notin begins
  BY <1>1, <1>2, TakenStatement
<1>4. /\ IsVec(c) /\ IsVec(d) /\ c = <<x>> \o d /\ LoopsMean(sim, lps, d, LoopsInto(lps, after))
  BY <1>1, <1>2 DEF ItemMeans
<1>5. OpenedBy(x, c, d) = {}
  BY <1>2 DEF OpenedBy, Statements
<1>6. AreEmpty(bl.blocks, after) /\ bl.current \notin after /\ after \subseteq DOMAIN bl.blocks
  BY <1>1 DEF AreEmpty
<1> QED
  BY <1>1, <1>3, <1>4, <1>5, <1>6 DEF x, after, StmtStaged

LEMMA EmptyStays ==
  ASSUME NEW r, NEW s, Continues(r, s), NEW set, set \subseteq DOMAIN r.blocks, AreEmpty(r.blocks, set)
  PROVE  AreEmpty(s.blocks, set)
BY DEF Continues, AreEmpty

\* Something that leaves nothing to do in its place.
LEMMA MeansNothingElse ==
  ASSUME NEW lists, NEW begins, NEW lps, NEW bl, NEW u, NEW sim, NEW void, NEW root, NEW c, NEW d, NEW more,
         Staged(lists, begins, lps, bl, u, sim, void, root, c, d, more),
         NEW now, sim \subseteq now, NEW s, Grows(bl, s), AreEmpty(s.blocks, EnteredIn(Tail(u))),
         Justified(sim, now, void, bl, c, OpenedBy(Head(u), c, d), s, d, {})
  PROVE  Simulates(now, void, root, lps, s, <<>> \o Tail(u))
<1>1. HeadMeans(sim, void, root, lps, bl, u, c, d, more) /\ IsVec(d)
  BY DEF Staged, HeadMeans, ItemMeans
<1>2. Planned(now, lps, <<>>, EnteredIn(Tail(u)), d, d, {})
  BY <1>1, PlannedNothing
<1>3. AreEmpty(s.blocks, EnteredIn(<<>>) \cup EnteredIn(Tail(u)))
  <2>1. EnteredIn(<<>>) = {}
    BY EmptyIsVec DEF EnteredIn
  <2> QED
    BY <2>1
<1>4. LoopsStay(lps, lps, EnteredIn(Tail(u)))
  BY DEF LoopsStay
<1>5. ASSUME NEW v, NEW opened, Planned(now, lps, v, EnteredIn(Tail(u)), d, d, opened),
             AreEmpty(s.blocks, EnteredIn(v) \cup EnteredIn(Tail(u))),
             Justified(sim, now, void, bl, c, OpenedBy(Head(u), c, d), s, d, opened)
      PROVE  Simulates(now, void, root, lps, s, v \o Tail(u))
  BY <1>1, <1>4, <1>5, MeansBack
<1> QED
  BY <1>2, <1>3, <1>5

LEMMA ActMeans ==
  ASSUME NEW lists, NEW begins, NEW lps, NEW bl, NEW u, NEW sim, NEW void, NEW root, NEW c, NEW d, NEW more,
         Staged(lists, begins, lps, bl, u, sim, void, root, c, d, more), Head(u).stmt = "Act"
  PROVE  \E now : Simulates(now, void, root, lps, EmitAll(bl, <<Stmt(Head(u).label, <<>>)>>), <<>> \o Tail(u))
<1> DEFINE x == Head(u)
           after == EnteredIn(Tail(u))
           stmt == Stmt(x.label, <<>>)
           s == EmitAll(bl, <<stmt>>)
           n == Len(bl.blocks)
           old == bl.blocks[bl.current].stmts
           new == s.blocks[bl.current].stmts
<1>1. /\ IsVec(c) /\ IsVec(d) /\ c = <<x>> \o d /\ ~ IsTerminated(bl) /\ Written(bl, begins, after)
      /\ OpenedBy(x, c, d) = {} /\ AreEmpty(bl.blocks, after) /\ after \subseteq DOMAIN bl.blocks
      /\ bl.current \notin after
      /\ IsPlace(bl.blocks, Here(bl)) /\ Here(bl).block = bl.current
  <2>1. x.stmt \in Statements
    BY DEF Statements
  <2>2. StmtStaged(lists, begins, lps, bl, sim, c, d, x, KindAt(Tail(u), 1, "End"), after)
    BY <2>1, StagedStatement
  <2> QED
    BY <2>2 DEF StmtStaged
<1> HIDE DEF x, after
<1>2. /\ IsBuilder(bl) /\ IsVec(bl.blocks) /\ bl.current \in 1 .. n /\ DOMAIN bl.blocks = 1 .. n
      /\ bl.finalized \subseteq 1 .. n /\ IsBlock(bl.blocks[bl.current], n) /\ bl.current \notin bl.finalized
  BY <1>1, WrittenProps DEF IsTerminated
<1>3. WritesInPlace(bl, s, n) /\ EmitsOne(bl, s, stmt)
  BY <1>2, Emitted
<1> HIDE DEF s, stmt
<1>4. /\ s.current = bl.current /\ s.finalized = bl.finalized /\ DOMAIN s.blocks = DOMAIN bl.blocks
      /\ \A i \in DOMAIN bl.blocks : i # bl.current => s.blocks[i] = bl.blocks[i]
      /\ Len(new) = Len(old) + 1 /\ \A i \in 1 .. Len(old) : new[i] = old[i]
      /\ new[Len(old) + 1] = stmt /\ IsVec(new) /\ IsVec(old)
  BY <1>2, <1>3, VecProps DEF WritesInPlace, EmitsOne, IsBlock
<1>5. Len(old) \in Nat /\ DOMAIN old = 1 .. Len(old) /\ Len(new) \in Nat /\ DOMAIN new = 1 .. (Len(old) + 1)
  BY <1>4, VecProps
<1>6. Grows(bl, s)
  <2>1. StmtsGrow(old, new)
    <3> HIDE DEF old, new
    <3>1. Len(old) <= Len(new)
      BY <1>4, <1>5
    <3>2. DOMAIN old \subseteq DOMAIN new
      BY <1>5
    <3> QED
      BY <3>1, <3>2, <1>4, <1>5 DEF StmtsGrow
  <2>2. ASSUME NEW i \in DOMAIN bl.blocks
        PROVE  /\ Len(bl.blocks[i].stmts) \in Nat /\ Len(s.blocks[i].stmts) \in Nat
               /\ StmtsGrow(bl.blocks[i].stmts, s.blocks[i].stmts)
    <3>1. CASE i = bl.current
      BY <3>1, <2>1, <1>5
    <3>2. CASE i # bl.current
      <4>1. IsVec(bl.blocks[i].stmts)
        BY <1>1 DEF Written, BlocksOK, BlockOK
      <4>2. Len(bl.blocks[i].stmts) \in Nat /\ s.blocks[i] = bl.blocks[i]
        BY <4>1, <3>2, <1>4, VecProps
      <4> QED
        BY <4>2 DEF StmtsGrow
    <3> QED
      BY <3>1, <3>2
  <2> QED
    BY <2>2, <1>2, <1>4 DEF Grows
<1>7. AreEmpty(s.blocks, after)
  BY <1>1, <1>4 DEF AreEmpty
<1> DEFINE here == Here(bl)
           next == At(bl.current, Len(old) + 2)
           now == sim \cup {<<next, d>>}
<1>8. here = At(bl.current, Len(old) + 1) /\ here.line = Len(old) + 1 /\ Here(s) = next /\ next.block = bl.current
  <2>1. (Len(old) + 1) + 1 = Len(old) + 2
    BY <1>5
  <2> QED
    BY <2>1, <1>4, AtFields DEF Here
<1>9. Agrees(now, void, s.blocks, s.finalized, here, c)
  <2>1. c # <<>> /\ Head(c) = x /\ Tail(c) = d
    BY <1>1, FirstStmt
  <2>2. here.line \in DOMAIN s.blocks[here.block].stmts /\ s.blocks[here.block].stmts[here.line].label = x.label
    <3>1. here.block = bl.current
      BY <1>1
    <3>2. Len(old) + 1 \in DOMAIN new /\ new[Len(old) + 1] = stmt
      <4> HIDE DEF old, new
      <4> QED
        BY <1>4, <1>5
    <3>3. stmt.label = x.label
      BY DEF stmt, Stmt
    <3> QED
      BY <3>1, <3>2, <3>3, <1>8
  <2>3. At(here.block, here.line + 1) = next
    BY <1>1, <1>5, <1>8, SMTT(30)
  <2>4. BothAct(now, s.blocks, here, c)
    BY <2>1, <2>2, <2>3 DEF BothAct, x
  <2> QED
    BY <2>4 DEF Agrees
<1>10. IsPlace(s.blocks, next) /\ IsPlace(s.blocks, here)
  <2>1. Len(old) + 2 \in 1 .. (Len(new) + 1)
    <3> HIDE DEF old, new
    <3> QED
      BY <1>4, <1>5
  <2>2. next.block = bl.current /\ next.line = Len(old) + 2 /\ bl.current \in DOMAIN s.blocks
    BY <1>2, <1>4, AtFields
  <2>3. IsPlace(s.blocks, next)
    <3> HIDE DEF old
    <3> QED
      BY <2>1, <2>2 DEF IsPlace
  <2> QED
    BY <2>3, <1>1, <1>6, PlacesGrow
<1>11. ~ IsTerminated(s)
  BY <1>1, <1>4 DEF IsTerminated
<1> HIDE DEF here, next
<1>12. Justified(sim, now, void, bl, c, OpenedBy(Head(u), c, d), s, d, {})
  <2>1. ASSUME NEW pos, NEW conf, <<pos, conf>> \in now,
               <<pos, conf>> \notin sim \/ (pos = Here(bl) /\ conf = c)
        PROVE  IsPlace(s.blocks, pos) /\ IsVec(conf) /\ Stands(now, void, s, d, {}, pos, conf)
    <3>1. (pos = next /\ conf = d) \/ (pos = here /\ conf = c)
      BY <2>1 DEF here
    <3> HIDE DEF now
    <3> QED
      BY <3>1, <1>1, <1>8, <1>9, <1>10, <1>11 DEF Stands
  <2>2. OpenedBy(Head(u), c, d) = {}
    BY <1>1 DEF x
  <2> HIDE DEF now
  <2> QED
    BY <2>1, <2>2 DEF Justified
<1> HIDE DEF now
<1>13. sim \subseteq now
  BY DEF now
<1>14. Simulates(now, void, root, lps, s, <<>> \o Tail(u))
  BY <1>6, <1>7, <1>12, <1>13, MeansNothingElse DEF after
<1> QED
  BY <1>14 DEF s, stmt, x

\* New pairs, and what was in step here, once the builder is s.
NewStand(new, now, void, s, e, opened) ==
  \A pos, conf : <<pos, conf>> \in new => IsPlace(s.blocks, pos) /\ IsVec(conf) /\ Stands(now, void, s, e, opened, pos, conf)

LEMMA JustifiedHere ==
  ASSUME NEW bl, NEW s, Grows(bl, s), NEW sim, NEW new, NEW now, now = sim \cup new, NEW void, NEW e, NEW opened,
         NEW c, IsVec(c), IsPlace(bl.blocks, Here(bl)),
         Agrees(now, void, s.blocks, s.finalized, Here(bl), c),
         NewStand(new, now, void, s, e, opened)
  PROVE  Justified(sim, now, void, bl, c, {}, s, e, opened)
<1>1. IsPlace(s.blocks, Here(bl))
  BY PlacesGrow
<1>2. ASSUME NEW pos, NEW conf, <<pos, conf>> \in now, <<pos, conf>> \notin sim \/ (pos = Here(bl) /\ conf = c)
      PROVE  IsPlace(s.blocks, pos) /\ IsVec(conf) /\ Stands(now, void, s, e, opened, pos, conf)
  <2>1. CASE pos = Here(bl) /\ conf = c
    BY <2>1, <1>1 DEF Stands
  <2>2. CASE <<pos, conf>> \notin sim
    <3>1. <<pos, conf>> \in new
      BY <2>2, <1>2
    <3> QED
      BY <3>1 DEF NewStand
  <2> QED
    BY <2>1, <2>2, <1>2
<1> QED
  BY <1>2 DEF Justified

LEMMA NoneStand ==
  ASSUME NEW now, NEW void, NEW s, NEW e, NEW opened
  PROVE  NewStand({}, now, void, s, e, opened)
BY DEF NewStand

LEMMA OneStands ==
  ASSUME NEW now, NEW void, NEW s, NEW e, NEW opened, NEW p, NEW q, IsPlace(s.blocks, p), IsVec(q),
         Stands(now, void, s, e, opened, p, q)
  PROVE  NewStand({<<p, q>>}, now, void, s, e, opened)
BY DEF NewStand

LEMMA BothStand ==
  ASSUME NEW now, NEW void, NEW s, NEW e, NEW opened, NEW new, NEW other,
         NewStand(new, now, void, s, e, opened), NewStand(other, now, void, s, e, opened)
  PROVE  NewStand(new \cup other, now, void, s, e, opened)
BY DEF NewStand

\* A statement the builder has ended its block for.
LEMMA StmtMeans ==
  ASSUME NEW lists, NEW begins, NEW lps, NEW bl, NEW u, NEW sim, NEW void, NEW root, NEW c, NEW d, NEW more,
         Staged(lists, begins, lps, bl, u, sim, void, root, c, d, more), Head(u).stmt \in Statements,
         NEW s, Continues(bl, s), NEW new, NEW now, now = sim \cup new,
         Agrees(now, void, s.blocks, s.finalized, Here(bl), c),
         NewStand(new, now, void, s, d, {})
  PROVE  Simulates(now, void, root, lps, s, <<>> \o Tail(u))
<1> DEFINE x == Head(u)
           after == EnteredIn(Tail(u))
<1>1. StmtStaged(lists, begins, lps, bl, sim, c, d, x, KindAt(Tail(u), 1, "End"), after)
  BY StagedStatement
<1> HIDE DEF x, after
<1>2. /\ IsVec(c) /\ IsPlace(bl.blocks, Here(bl)) /\ Written(bl, begins, after)
      /\ OpenedBy(x, c, d) = {} /\ AreEmpty(bl.blocks, after) /\ after \subseteq DOMAIN bl.blocks
  BY <1>1 DEF StmtStaged
<1>3. Grows(bl, s) /\ AreEmpty(s.blocks, after)
  BY <1>2, ContinuesGrows, EmptyStays
<1>4. Justified(sim, now, void, bl, c, OpenedBy(x, c, d), s, d, {})
  BY <1>2, <1>3, JustifiedHere
<1>5. sim \subseteq now
  OBVIOUS
<1> QED
  BY <1>3, <1>4, <1>5, MeansNothingElse DEF x, after

LEMMA DeadContinues ==
  ASSUME NEW r, NEW begins, NEW pending, Written(r, begins, pending)
  PROVE  Continues(r, DeadBlock(r))
<1> DEFINE t == NewBlocks(r, 1)
           c == FreshBlock(r, 1)
<1>1. Continues(r, t)
  BY NewContinues
<1>2. t.finalized = r.finalized /\ IsBuilder(t)
  <2>1. Written(t, begins, pending \cup ((Len(r.blocks) + 1) .. (Len(r.blocks) + 1))) /\ t.finalized = r.finalized
    BY WrittenNew
  <2> HIDE DEF t
  <2> QED
    BY <2>1, WrittenProps
<1>3. c \notin r.finalized
  BY WrittenProps DEF FreshBlock
<1> HIDE DEF t, c
<1>4. Continues(t, SwitchToBlock(t, c))
  BY <1>2, <1>3, SwitchContinues
<1>5. Continues(r, SwitchToBlock(t, c))
  BY <1>1, <1>4, ContinuesOn
<1> QED
  BY <1>5 DEF DeadBlock, t, c

LEMMA ReturnMeans ==
  ASSUME NEW lists, NEW begins, NEW lps, NEW bl, NEW u, NEW sim, NEW void, NEW root, NEW c, NEW d, NEW more,
         Staged(lists, begins, lps, bl, u, sim, void, root, c, d, more), Head(u).stmt = "Return"
  PROVE  \E now : Simulates(now, void, root, lps, DeadBlock(Terminate(bl, Return(Head(u).label))), <<>> \o Tail(u))
<1> DEFINE x == Head(u)
           after == EnteredIn(Tail(u))
           term == Return(x.label)
           r == Terminate(bl, term)
           s == DeadBlock(r)
<1>1. x.stmt \in Statements
  BY DEF Statements
<1>2. StmtStaged(lists, begins, lps, bl, sim, c, d, x, KindAt(Tail(u), 1, "End"), after)
  BY <1>1, StagedStatement
<1>3. x.stmt = "Return"
  OBVIOUS
<1> HIDE DEF x, after
<1>4. IsVec(d) /\ c = <<x>> \o d /\ ~ IsTerminated(bl) /\ Written(bl, begins, after)
  BY <1>2 DEF StmtStaged
<1>5. TermOK(bl.blocks, term) /\ term.kind # "Goto"
  BY EndsOK
<1>6. SameWays(sim, void, term, c)
  <2>1. ~ IsSilent(c) /\ SourceOffer(void, c) = Does("Return", x.label, 0)
    BY <1>3, <1>4, FirstStmt, OfferedStmt
  <2>2. term.kind = "Return" /\ term.label = x.label /\ term.targets = <<>>
    BY DEF Return, Terminator
  <2>3. Len(<<>>) = 0 /\ 1 .. 0 = {}
    OBVIOUS
  <2> HIDE DEF term
  <2> QED
    BY <2>1, <2>2, <2>3 DEF SameWays
<1> HIDE DEF term
<1>7. EndsWith(bl, r, term) /\ Written(r, begins, after)
  BY <1>4, <1>5, TermContinues, WrittenTerm
<1> HIDE DEF r
<1>8. Continues(bl, s) /\ EndedHere(bl, s, term)
  <2>1. Continues(r, s) /\ Continues(bl, bl)
    BY <1>7, DeadContinues, ContinuesSelf
  <2> HIDE DEF s
  <2> QED
    BY <2>1, <1>4, <1>7, EndsHere
<1> HIDE DEF s
<1>9. Agrees(sim, void, s.blocks, s.finalized, Here(bl), c)
  BY <1>6, <1>8, EndAgrees
<1>10. NewStand({}, sim, void, s, d, {}) /\ sim = sim \cup {}
  BY NoneStand
<1>11. Simulates(sim, void, root, lps, s, <<>> \o Tail(u))
  <2>1. Head(u).stmt \in Statements
    BY <1>1 DEF x
  <2> QED
    BY <2>1, <1>8, <1>9, <1>10, StmtMeans
<1> QED
  BY <1>11 DEF s, r, term, x

LEMMA DivergesAgrees ==
  ASSUME NEW sim, NEW void, NEW d, IsVec(d)
  PROVE  IsVec(<<Diverges>> \o d) /\ SameWays(sim, void, Diverge, <<Diverges>> \o d)
<1> DEFINE conf == <<Diverges>> \o d
<1>1. Diverges.stmt = "Diverges"
  BY DEF Diverges
<1>2. IsVec(conf) /\ ~ IsSilent(conf)
  <2>1. ASSUME NEW x, x.stmt = "Diverges" PROVE IsVec(<<x>> \o d) /\ ~ IsSilent(<<x>> \o d)
    BY <2>1, FirstStmt
  <2> QED
    BY <2>1, <1>1
<1>3. SourceOffer(void, conf) = Does("Diverge", "", 0)
  <2>1. ASSUME NEW x, x.stmt = "Diverges" PROVE SourceOffer(void, <<x>> \o d) = Does("Diverge", "", 0)
    BY <2>1, OfferedStmt
  <2> QED
    BY <2>1, <1>1
<1> HIDE DEF conf
<1>4. Diverge.kind = "Diverge" /\ Diverge.label = "" /\ Diverge.targets = <<>>
  BY DEF Diverge, Terminator
<1>5. Len(<<>>) = 0 /\ 1 .. 0 = {}
  OBVIOUS
<1> QED
  BY <1>2, <1>3, <1>4, <1>5 DEF SameWays, conf

\* The source at c makes a call and goes on with conf.
Calls(void, c, label, conf) ==
  /\ ~ IsSilent(c) /\ SourceOffer(void, c) = Does("Call", label, 1)
  /\ \A way : SourceAfter(c, way) = conf

LEMMA StmtCalls ==
  ASSUME NEW x, NEW d, IsVec(d), NEW c, c = <<x>> \o d, NEW void
  PROVE  /\ x.stmt = "Call" => Calls(void, c, x.label, d)
         /\ x.stmt = "Never" => Calls(void, c, x.label, <<Diverges>> \o d)
<1>1. ASSUME NEW way
      PROVE  AfterIs(x, d, way, SourceAfter(c, way))
  BY AfterStmt
<1>2. x.stmt \in {"Call", "Never"} => ~ IsSilent(c) /\ SourceOffer(void, c) = Does("Call", x.label, 1)
  BY FirstStmt, OfferedStmt
<1>3. ASSUME NEW way
      PROVE  /\ x.stmt = "Call" => SourceAfter(c, way) = d
             /\ x.stmt = "Never" => SourceAfter(c, way) = <<Diverges>> \o d
  BY <1>1 DEF AfterIs
<1> QED
  BY <1>2, <1>3 DEF Calls

\* The builder has made the call at c and is where it comes back to, in step with conf.
CallMade(bl, there, now, void, begins, after, c, conf) ==
  /\ Written(there, begins, after) /\ ~ IsTerminated(there)
  /\ IsPlace(there.blocks, Here(there))
  /\ \A s : Continues(there, s) => Continues(bl, s) /\ Agrees(now, void, s.blocks, s.finalized, Here(bl), c)

LEMMA CallIsMade ==
  ASSUME NEW begins, NEW bl, NEW after, Written(bl, begins, after), ~ IsTerminated(bl),
         NEW void, NEW c, NEW label, NEW conf, Calls(void, c, label, conf), NEW now
  PROVE  LET next == FreshBlock(bl, 1)
             there == SwitchToBlock(Terminate(NewBlocks(bl, 1), Call(label, next)), next)
         IN  <<Here(there), conf>> \in now => CallMade(bl, there, now, void, begins, after, c, conf)
<1> DEFINE l == Len(bl.blocks)
           next == FreshBlock(bl, 1)
           r == NewBlocks(bl, 1)
           term == Call(label, next)
           called == Terminate(r, term)
           there == SwitchToBlock(called, next)
<1> SUFFICES ASSUME <<Here(there), conf>> \in now
             PROVE  CallMade(bl, there, now, void, begins, after, c, conf)
  OBVIOUS
<1>1. l \in Nat /\ after \subseteq 2 .. l /\ next = l + 1
  BY WrittenProps DEF FreshBlock
<1>2. (l + 1) .. (l + 1) = {next} /\ (after \cup {next}) \ {next} = after
  <2> HIDE DEF l, next
  <2> QED
    BY <1>1
<1>3. /\ Written(r, begins, after \cup ((l + 1) .. (l + 1)))
      /\ r.current = bl.current /\ r.finalized = bl.finalized
  BY WrittenNew
<1>4. Continues(bl, r) /\ \A i \in (l + 1) .. (l + 1) : r.blocks[i].stmts = <<>>
  BY NewContinues
<1>5. Written(there, begins, after) /\ ~ IsTerminated(there)
  BY WrittenCall
<1> HIDE DEF next, r
<1>6. Written(r, begins, after \cup {next}) /\ ~ IsTerminated(r) /\ r.blocks[next].stmts = <<>>
  BY <1>2, <1>3, <1>4 DEF IsTerminated
<1>7. next \in DOMAIN r.blocks \ {EntryBlock}
  BY <1>6 DEF Written, PendingOK
<1>8. TermOK(r.blocks, term) /\ term.kind # "Goto"
  BY <1>7, TermsOK
<1>9. term.kind = "Call" /\ term.label = label /\ term.targets = <<next>>
  BY DEF Call, Terminator
<1> HIDE DEF term
<1>10. EndsWith(r, called, term) /\ Written(called, begins, after \cup {next})
  BY <1>6, <1>8, TermContinues, WrittenTerm
<1> HIDE DEF called
<1>11. IsTerminated(called) /\ Continues(r, called)
  BY <1>10 DEF IsTerminated, EndsWith
<1>12. /\ Written(there, begins, (after \cup {next}) \ {next})
       /\ there.current = next /\ there.finalized = called.finalized /\ there.blocks = called.blocks
       /\ ~ IsTerminated(there) /\ next \notin begins
  <2>1. next \in after \cup {next}
    OBVIOUS
  <2> QED
    BY <2>1, <1>10, <1>11, WrittenSwitch
<1> HIDE DEF there
<1>13. Continues(called, there)
  BY <1>12 DEF Continues
<1>14. Here(there) = At(next, 1)
  <2>1. there.blocks[next].stmts = <<>>
    BY <1>6, <1>7, <1>11, <1>12 DEF Continues
  <2>2. Len(<<>>) + 1 = 1
    OBVIOUS
  <2> QED
    BY <2>1, <2>2, <1>12 DEF Here
<1>15. SameWays(now, void, term, c)
  <2>1. /\ ~ IsSilent(c) /\ SourceOffer(void, c) = Does("Call", label, 1)
        /\ \A way : SourceAfter(c, way) = conf
    BY DEF Calls
  <2>2. Len(<<next>>) = 1 /\ <<next>>[1] = next
    BY OneVec
  <2>3. ASSUME NEW targets, targets = <<next>>, NEW way \in 1 .. Len(targets)
        PROVE  <<At(targets[way], 1), SourceAfter(c, way)>> \in now
    <3>1. targets[way] = next
      BY <2>2, <2>3
    <3> QED
      BY <3>1, <2>1, <1>14
  <2> QED
    BY <2>1, <2>2, <2>3, <1>9 DEF SameWays
<1>16. ASSUME NEW s, Continues(there, s)
       PROVE  Continues(bl, s) /\ Agrees(now, void, s.blocks, s.finalized, Here(bl), c)
  <2>1. Continues(called, s)
    BY <1>13, <1>16, ContinuesOn
  <2>2. Continues(bl, s) /\ EndedHere(bl, s, term)
    BY <2>1, <1>3, <1>4, <1>10, EndsHere
  <2> QED
    BY <2>2, <1>15, EndAgrees
<1>17. IsPlace(there.blocks, Here(there))
  BY <1>5, HereIsPlace
<1> QED
  BY <1>5, <1>16, <1>17 DEF CallMade

LEMMA CallMeans ==
  ASSUME NEW lists, NEW begins, NEW lps, NEW bl, NEW u, NEW sim, NEW void, NEW root, NEW c, NEW d, NEW more,
         Staged(lists, begins, lps, bl, u, sim, void, root, c, d, more), Head(u).stmt = "Call"
  PROVE  LET next == FreshBlock(bl, 1)
             there == SwitchToBlock(Terminate(NewBlocks(bl, 1), Call(Head(u).label, next)), next)
         IN  \E now : Simulates(now, void, root, lps, there, <<>> \o Tail(u))
<1> DEFINE x == Head(u)
           after == EnteredIn(Tail(u))
           next == FreshBlock(bl, 1)
           there == SwitchToBlock(Terminate(NewBlocks(bl, 1), Call(x.label, next)), next)
           new == {<<Here(there), d>>}
           now == sim \cup new
<1>1. x.stmt \in Statements /\ x.stmt = "Call"
  BY DEF Statements
<1>2. StmtStaged(lists, begins, lps, bl, sim, c, d, x, KindAt(Tail(u), 1, "End"), after)
  BY <1>1, StagedStatement
<1> HIDE DEF x, after
<1>3. IsVec(d) /\ c = <<x>> \o d /\ ~ IsTerminated(bl) /\ Written(bl, begins, after)
  BY <1>2 DEF StmtStaged
<1>4. Calls(void, c, x.label, d)
  BY <1>1, <1>3, StmtCalls
<1>5. CallMade(bl, there, now, void, begins, after, c, d)
  <2>1. <<Here(there), d>> \in now
    OBVIOUS
  <2> HIDE DEF now
  <2> QED
    BY <2>1, <1>3, <1>4, CallIsMade
<1> HIDE DEF there
<1>6. /\ Continues(bl, there) /\ Agrees(now, void, there.blocks, there.finalized, Here(bl), c)
      /\ IsPlace(there.blocks, Here(there)) /\ ~ IsTerminated(there)
  <2>1. Continues(there, there)
    BY ContinuesSelf
  <2> HIDE DEF now
  <2> QED
    BY <2>1, <1>5 DEF CallMade
<1>7. NewStand(new, now, void, there, d, {})
  <2>1. Stands(now, void, there, d, {}, Here(there), d)
    BY <1>6 DEF Stands
  <2> HIDE DEF now
  <2> QED
    BY <2>1, <1>3, <1>6, OneStands
<1>8. Simulates(now, void, root, lps, there, <<>> \o Tail(u))
  <2>1. Head(u).stmt \in Statements
    BY <1>1 DEF x
  <2>2. now = sim \cup new
    OBVIOUS
  <2> HIDE DEF now, new
  <2> QED
    BY <2>1, <2>2, <1>6, <1>7, StmtMeans
<1> HIDE DEF now
<1> QED
  BY <1>8 DEF there, x

LEMMA NeverMeans ==
  ASSUME NEW lists, NEW begins, NEW lps, NEW bl, NEW u, NEW sim, NEW void, NEW root, NEW c, NEW d, NEW more,
         Staged(lists, begins, lps, bl, u, sim, void, root, c, d, more), Head(u).stmt = "Never"
  PROVE  LET next == FreshBlock(bl, 1)
             called == Terminate(NewBlocks(bl, 1), Call(Head(u).label, next))
             s == DeadBlock(Terminate(SwitchToBlock(called, next), Diverge))
         IN  \E now : Simulates(now, void, root, lps, s, <<>> \o Tail(u))
<1> DEFINE x == Head(u)
           after == EnteredIn(Tail(u))
           next == FreshBlock(bl, 1)
           there == SwitchToBlock(Terminate(NewBlocks(bl, 1), Call(x.label, next)), next)
           over == Terminate(there, Diverge)
           s == DeadBlock(over)
           conf == <<Diverges>> \o d
           place == Here(there)
           new == {<<place, conf>>}
           now == sim \cup new
<1>1. x.stmt \in Statements /\ x.stmt = "Never"
  BY DEF Statements
<1>2. StmtStaged(lists, begins, lps, bl, sim, c, d, x, KindAt(Tail(u), 1, "End"), after)
  BY <1>1, StagedStatement
<1> HIDE DEF x, after
<1>3. IsVec(d) /\ c = <<x>> \o d /\ ~ IsTerminated(bl) /\ Written(bl, begins, after)
  BY <1>2 DEF StmtStaged
<1>4. Calls(void, c, x.label, conf)
  BY <1>1, <1>3, StmtCalls
<1>5. CallMade(bl, there, now, void, begins, after, c, conf)
  <2>1. <<Here(there), conf>> \in now
    OBVIOUS
  <2> HIDE DEF now, conf
  <2> QED
    BY <2>1, <1>3, <1>4, CallIsMade
<1> HIDE DEF there
<1>6. Written(there, begins, after) /\ ~ IsTerminated(there) /\ IsPlace(there.blocks, place)
  <2> HIDE DEF now, conf
  <2> QED
    BY <1>5 DEF CallMade
<1>7. TermOK(there.blocks, Diverge) /\ Diverge.kind # "Goto"
  BY EndsOK
<1>8. EndsWith(there, over, Diverge) /\ Written(over, begins, after)
  BY <1>6, <1>7, TermContinues, WrittenTerm
<1> HIDE DEF over
<1>9. Continues(over, s)
  BY <1>8, DeadContinues
<1> HIDE DEF s
<1>10. Continues(there, s) /\ EndedHere(there, s, Diverge)
  <2>1. Continues(there, there)
    BY ContinuesSelf
  <2> QED
    BY <2>1, <1>6, <1>8, <1>9, EndsHere
<1>11. Continues(bl, s) /\ Agrees(now, void, s.blocks, s.finalized, Here(bl), c)
  <2> HIDE DEF now, conf
  <2> QED
    BY <1>5, <1>10 DEF CallMade
<1>12. IsVec(conf) /\ SameWays(now, void, Diverge, conf)
  BY <1>3, DivergesAgrees
<1>13. NewStand(new, now, void, s, d, {})
  <2>1. Agrees(now, void, s.blocks, s.finalized, place, conf)
    BY <1>10, <1>12, EndAgrees
  <2>2. IsPlace(s.blocks, place)
    <3>1. Grows(there, s)
      BY <1>6, <1>10, ContinuesGrows
    <3> QED
      BY <3>1, <1>6, PlacesGrow
  <2>3. Stands(now, void, s, d, {}, place, conf)
    BY <2>1 DEF Stands
  <2> HIDE DEF now, conf, place
  <2> QED
    BY <2>2, <2>3, <1>12, OneStands
<1>14. Simulates(now, void, root, lps, s, <<>> \o Tail(u))
  <2>1. Head(u).stmt \in Statements
    BY <1>1 DEF x
  <2>2. now = sim \cup new
    OBVIOUS
  <2> HIDE DEF now, new
  <2> QED
    BY <2>1, <2>2, <1>11, <1>13, StmtMeans
<1> HIDE DEF now
<1> QED
  BY <1>14 DEF s, over, there, x

LEMMA JumpMeans ==
  ASSUME NEW lists, NEW begins, NEW lps, NEW bl, NEW u, NEW sim, NEW void, NEW root, NEW c, NEW d, NEW more,
         Staged(lists, begins, lps, bl, u, sim, void, root, c, d, more), Head(u).stmt \in {"Break", "Continue"}
  PROVE  LET loop == lps[Head(u).loop]
             target == IF Head(u).stmt = "Break" THEN loop.end ELSE loop.begin
         IN  \E now : Simulates(now, void, root, lps, Terminate(bl, Goto(target)), <<>> \o Tail(u))
<1> DEFINE x == Head(u)
           after == EnteredIn(Tail(u))
           loop == lps[x.loop]
           target == IF x.stmt = "Break" THEN loop.end ELSE loop.begin
           term == Goto(target)
           s == Terminate(bl, term)
           conf == Unfolded(c)
           here == Here(bl)
           new == {<<here, conf>>}
           now == sim \cup new
<1>1. x.stmt \in Statements
  BY DEF Statements
<1>2. StmtStaged(lists, begins, lps, bl, sim, c, d, x, KindAt(Tail(u), 1, "End"), after)
  BY <1>1, StagedStatement
<1>3. x.stmt \in {"Break", "Continue"}
  OBVIOUS
<1> HIDE DEF x, after
<1>4. /\ IsVec(d) /\ c = <<x>> \o d /\ ~ IsTerminated(bl) /\ Written(bl, begins, after)
      /\ LoopsMean(sim, lps, d, LoopsInto(lps, after)) /\ LoopsOK(lps, bl.blocks, begins)
      /\ IsScopedStmt(lists, x, LoopsInto(lps, after), EndBefore(KindAt(Tail(u), 1, "End")))
      /\ IsPlace(bl.blocks, here)
  BY <1>2 DEF StmtStaged
<1>5. x.loop \in LoopsInto(lps, after)
  BY <1>3, <1>4 DEF IsScopedStmt
<1>6. IsSilent(c) /\ conf = (IF x.stmt = "Break" THEN Tail(FromLoop(d, x.loop)) ELSE FromLoop(d, x.loop))
  BY <1>3, <1>4, FirstStmt, UnfoldedStmt
<1>7. LoopMeans(sim, d, x.loop, loop)
  BY <1>4, <1>5 DEF LoopsMean
<1>8. <<At(target, 1), conf>> \in sim
  BY <1>6, <1>7 DEF LoopMeans
<1>9. IsVec(conf)
  BY <1>8 DEF Staged, HeadMeans, ArePlaces
<1>10. target \in DOMAIN bl.blocks \ {EntryBlock}
  <2>1. loop.end \in DOMAIN bl.blocks \ {EntryBlock} /\ loop.begin \in begins
    BY <1>4, <1>5 DEF LoopsInto, LoopsOK
  <2>2. begins \subseteq DOMAIN bl.blocks \ {EntryBlock}
    BY <1>4 DEF Written, BeginsOK
  <2> QED
    BY <2>1, <2>2
<1> HIDE DEF target, conf, here
<1>11. TermOK(bl.blocks, term) /\ term.kind = "Goto" /\ term.targets[1] = target
  BY <1>10, TermsOK
<1> HIDE DEF term
<1>12. EndsWith(bl, s, term)
  BY <1>4, <1>11, TermContinues
<1> HIDE DEF s
<1>13. Continues(bl, s) /\ EndedHere(bl, s, term)
  BY <1>4, <1>12, ContinuesSelf, EndsHere
<1>14. Agrees(now, void, s.blocks, s.finalized, here, c)
  BY <1>6 DEF Agrees, SourceMoves, conf
<1>15. NewStand(new, now, void, s, d, {})
  <2>1. <<At(term.targets[1], 1), conf>> \in now
    BY <1>8, <1>11
  <2> HIDE DEF now
  <2>2. Agrees(now, void, s.blocks, s.finalized, here, conf)
    BY <2>1, <1>11, <1>13, JumpAgrees DEF here
  <2>3. IsPlace(s.blocks, here)
    BY <1>4, <1>13, ContinuesGrows, PlacesGrow
  <2>4. Stands(now, void, s, d, {}, here, conf)
    BY <2>2 DEF Stands
  <2> QED
    BY <2>3, <2>4, <1>9, OneStands
<1>16. Simulates(now, void, root, lps, s, <<>> \o Tail(u))
  <2>1. Head(u).stmt \in Statements
    BY <1>1 DEF x
  <2>2. now = sim \cup new
    OBVIOUS
  <2> HIDE DEF now, new
  <2> QED
    BY <2>1, <2>2, <1>13, <1>14, <1>15, StmtMeans DEF here
<1> HIDE DEF now
<1> QED
  BY <1>16 DEF s, term, target, x

LEMMA LoopsMeanMore ==
  ASSUME NEW sim, NEW now, sim \subseteq now, NEW lps, NEW conf, NEW inside, LoopsMean(sim, lps, conf, inside)
  PROVE  LoopsMean(now, lps, conf, inside)
BY DEF LoopsMean, LoopMeans

\* A statement that leaves something to do in its place.
LEMMA StmtMeansElse ==
  ASSUME NEW lists, NEW begins, NEW lps, NEW bl, NEW u, NEW sim, NEW void, NEW root, NEW c, NEW d, NEW more,
         Staged(lists, begins, lps, bl, u, sim, void, root, c, d, more), Head(u).stmt \in Statements,
         NEW s, Continues(bl, s), NEW new, NEW now, now = sim \cup new,
         NEW lps2, LoopsStay(lps, lps2, EnteredIn(Tail(u))),
         NEW v, NEW e, NEW opened, Planned(now, lps2, v, EnteredIn(Tail(u)), e, d, opened),
         AreEmpty(s.blocks, EnteredIn(v)),
         Agrees(now, void, s.blocks, s.finalized, Here(bl), c),
         NewStand(new, now, void, s, e, opened)
  PROVE  Simulates(now, void, root, lps2, s, v \o Tail(u))
<1> DEFINE x == Head(u)
           after == EnteredIn(Tail(u))
<1>1. StmtStaged(lists, begins, lps, bl, sim, c, d, x, KindAt(Tail(u), 1, "End"), after)
  BY StagedStatement
<1> HIDE DEF x, after
<1>2. /\ IsVec(c) /\ IsPlace(bl.blocks, Here(bl)) /\ Written(bl, begins, after)
      /\ OpenedBy(x, c, d) = {} /\ AreEmpty(bl.blocks, after) /\ after \subseteq DOMAIN bl.blocks
  BY <1>1 DEF StmtStaged
<1>3. Grows(bl, s) /\ AreEmpty(s.blocks, after)
  BY <1>2, ContinuesGrows, EmptyStays
<1>4. Justified(sim, now, void, bl, c, OpenedBy(x, c, d), s, e, opened)
  BY <1>2, <1>3, JustifiedHere
<1>5. AreEmpty(s.blocks, EnteredIn(v) \cup after)
  BY <1>3 DEF AreEmpty
<1>6. HeadMeans(sim, void, root, lps, bl, u, c, d, more) /\ sim \subseteq now
  BY DEF Staged
<1> QED
  BY <1>3, <1>4, <1>5, <1>6, MeansBack DEF x, after

LEMMA BlockMeans ==
  ASSUME NEW lists, NEW begins, NEW lps, NEW bl, NEW u, NEW sim, NEW void, NEW root, NEW c, NEW d, NEW more,
         Staged(lists, begins, lps, bl, u, sim, void, root, c, d, more), Head(u).stmt = "Block"
  PROVE  \E now : Simulates(now, void, root, lps, bl, Head(u).stmts \o Tail(u))
<1> DEFINE x == Head(u)
           after == EnteredIn(Tail(u))
           next == KindAt(Tail(u), 1, "End")
           stmts == x.stmts
           e == stmts \o d
           here == Here(bl)
           new == {<<here, e>>}
           now == sim \cup new
<1>1. x.stmt \in Statements
  BY DEF Statements
<1>2. StmtStaged(lists, begins, lps, bl, sim, c, d, x, next, after)
  BY <1>1, StagedStatement
<1>3. x.stmt = "Block" /\ AreScoped(lists)
  BY DEF Staged
<1> HIDE DEF x, after, next
<1>4. /\ IsVec(d) /\ c = <<x>> \o d /\ ~ IsTerminated(bl) /\ LoopsMean(sim, lps, d, LoopsInto(lps, after))
      /\ IsScopedStmt(lists, x, LoopsInto(lps, after), EndBefore(next))
      /\ IsPlace(bl.blocks, here)
  BY <1>2 DEF StmtStaged
<1>5. List(stmts, LoopsInto(lps, after), EndBefore(next)) \in lists
  BY <1>3, <1>4 DEF IsScopedStmt
<1>6. IsVec(stmts) /\ EnteredIn(stmts) = {}
  BY <1>3, <1>5, ListStmts
<1> HIDE DEF stmts, here
<1>7. IsVec(e)
  BY <1>4, <1>6, ConcatVec
<1>8. IsSilent(c) /\ Unfolded(c) = e
  BY <1>3, <1>4, FirstStmt, UnfoldedStmt DEF stmts
<1>9. Planned(now, lps, stmts, after, e, d, {})
  <2>1. LoopsMean(now, lps, d, LoopsInto(lps, after))
    BY <1>4, LoopsMeanMore
  <2> HIDE DEF now
  <2> QED
    BY <2>1, <1>3, <1>4, <1>5, PlannedList
<1> HIDE DEF e
<1>10. Agrees(now, void, bl.blocks, bl.finalized, here, c)
  BY <1>8 DEF Agrees, SourceMoves
<1>11. NewStand(new, now, void, bl, e, {})
  <2> HIDE DEF now
  <2>1. Stands(now, void, bl, e, {}, here, e)
    BY <1>4 DEF Stands, here
  <2> QED
    BY <2>1, <1>4, <1>7, OneStands
<1>12. Simulates(now, void, root, lps, bl, stmts \o Tail(u))
  <2>1. Head(u).stmt \in Statements
    BY <1>1 DEF x
  <2>2. now = sim \cup new /\ Continues(bl, bl) /\ LoopsStay(lps, lps, EnteredIn(Tail(u))) /\ AreEmpty(bl.blocks, EnteredIn(stmts))
    BY <1>6, ContinuesSelf DEF LoopsStay, AreEmpty
  <2> HIDE DEF now, new
  <2> QED
    BY <2>1, <2>2, <1>9, <1>10, <1>11, StmtMeansElse DEF here, after
<1> HIDE DEF now
<1> QED
  BY <1>12 DEF stmts, x

\* The end of a part: the builder ends its block, or has done so.
LEMMA EndMeans ==
  ASSUME NEW lists, NEW begins, NEW lps, NEW bl, NEW u, NEW sim, NEW void, NEW root, NEW c, NEW d, NEW more,
         Staged(lists, begins, lps, bl, u, sim, void, root, c, d, more),
         Head(u).stmt \in {"Close", "Decide", "Unreachable"},
         NEW s, Continues(bl, s),
         IsTerminated(bl) \/ Agrees(sim, void, s.blocks, s.finalized, Here(bl), c)
  PROVE  Simulates(sim, void, root, lps, s, <<>> \o Tail(u))
<1> DEFINE x == Head(u)
           after == EnteredIn(Tail(u))
<1>1. /\ IsVec(c) /\ Written(bl, begins, Entered(x) \cup after) /\ IsPlace(bl.blocks, Here(bl))
      /\ AreEmpty(bl.blocks, Entered(x) \cup after) /\ Entered(x) \cup after \subseteq DOMAIN bl.blocks
  BY StagedProps
<1>2. x.stmt \in {"Close", "Decide", "Unreachable"}
  OBVIOUS
<1> HIDE DEF x, after
<1>3. Entered(x) \cup after = after /\ OpenedBy(x, c, d) = {}
  BY <1>2 DEF Entered, OpenedBy
<1>4. Grows(bl, s) /\ AreEmpty(s.blocks, after)
  BY <1>1, <1>3, ContinuesGrows, EmptyStays
<1>5. Justified(sim, sim, void, bl, c, OpenedBy(x, c, d), s, d, {})
  <2>1. CASE IsTerminated(bl)
    BY <2>1, <1>3 DEF Justified
  <2>2. CASE Agrees(sim, void, s.blocks, s.finalized, Here(bl), c)
    <3>1. NewStand({}, sim, void, s, d, {}) /\ sim = sim \cup {}
      BY NoneStand
    <3> QED
      BY <3>1, <2>2, <1>1, <1>3, <1>4, JustifiedHere
  <2> QED
    BY <2>1, <2>2
<1> QED
  BY <1>4, <1>5, MeansNothingElse DEF x, after

LEMMA CloseMeans ==
  ASSUME NEW lists, NEW begins, NEW lps, NEW bl, NEW u, NEW sim, NEW void, NEW root, NEW c, NEW d, NEW more,
         Staged(lists, begins, lps, bl, u, sim, void, root, c, d, more), Head(u).stmt = "Close"
  PROVE  LET s == IF IsTerminated(bl) THEN bl ELSE Terminate(bl, Goto(Head(u).block))
         IN  \E now : Simulates(now, void, root, lps, s, <<>> \o Tail(u))
<1> DEFINE x == Head(u)
           after == EnteredIn(Tail(u))
           next == KindAt(Tail(u), 1, "End")
           term == Goto(x.block)
           s == Terminate(bl, term)
<1>1. /\ ItemMeans(sim, lps, x, c, d, after) /\ Written(bl, begins, Entered(x) \cup after)
      /\ Taken(lists, begins, lps, bl, u, x, next, after)
  BY StagedProps
<1>2. x.stmt = "Close"
  OBVIOUS
<1> HIDE DEF x, after, next
<1>3. CASE IsTerminated(bl)
  <2>1. Simulates(sim, void, root, lps, bl, <<>> \o Tail(u))
    BY <1>2, <1>3, ContinuesSelf, EndMeans DEF x
  <2> QED
    BY <2>1, <1>3
<1>4. CASE ~ IsTerminated(bl)
  <2>1. <<At(x.block, 1), c>> \in sim
    BY <1>1, <1>2 DEF ItemMeans
  <2>2. x.block \in DOMAIN bl.blocks \ {EntryBlock} /\ Written(bl, begins, after)
    <3>1. Entered(x) \cup after = after
      BY <1>2 DEF Entered
    <3>2. x.block \in begins \cup after
      BY <1>1, <1>2 DEF Taken, ItemOK, Statements
    <3> QED
      BY <3>1, <3>2, <1>1 DEF Written, BeginsOK, PendingOK
  <2>3. TermOK(bl.blocks, term) /\ term.kind = "Goto" /\ term.targets[1] = x.block
    BY <2>2, TermsOK
  <2> HIDE DEF term
  <2>4. EndsWith(bl, s, term)
    BY <2>2, <2>3, <1>4, TermContinues
  <2> HIDE DEF s
  <2>5. Continues(bl, s) /\ EndedHere(bl, s, term)
    BY <2>2, <2>4, ContinuesSelf, EndsHere
  <2>6. Agrees(sim, void, s.blocks, s.finalized, Here(bl), c)
    BY <2>1, <2>3, <2>5, JumpAgrees
  <2>7. Simulates(sim, void, root, lps, s, <<>> \o Tail(u))
    BY <2>5, <2>6, <1>2, EndMeans DEF x
  <2> QED
    BY <2>7, <1>4 DEF s, term, x
<1> QED
  BY <1>3, <1>4

LEMMA UnreachableMeans ==
  ASSUME NEW lists, NEW begins, NEW lps, NEW bl, NEW u, NEW sim, NEW void, NEW root, NEW c, NEW d, NEW more,
         Staged(lists, begins, lps, bl, u, sim, void, root, c, d, more), Head(u).stmt = "Unreachable"
  PROVE  \E now : Simulates(now, void, root, lps, Terminate(bl, Diverge), <<>> \o Tail(u))
<1> DEFINE x == Head(u)
           after == EnteredIn(Tail(u))
           s == Terminate(bl, Diverge)
<1>1. /\ ItemMeans(sim, lps, x, c, d, after) /\ Written(bl, begins, Entered(x) \cup after)
      /\ IF IsTerminated(bl) THEN x.stmt \in {"Enter", "Arms", "Close"} ELSE x.stmt \notin {"Enter", "Arms"}
  BY StagedProps
<1>2. x.stmt = "Unreachable"
  OBVIOUS
<1> HIDE DEF x, after
<1>3. PICK k : IsVec(k) /\ c = <<Diverges>> \o k
  BY <1>1, <1>2 DEF ItemMeans
<1>4. EndsWith(bl, s, Diverge)
  BY <1>1, <1>2, EndsOK, TermContinues
<1> HIDE DEF s
<1>5. Continues(bl, s) /\ EndedHere(bl, s, Diverge)
  BY <1>1, <1>4, ContinuesSelf, EndsHere
<1>6. SameWays(sim, void, Diverge, c)
  BY <1>3, DivergesAgrees
<1>7. Agrees(sim, void, s.blocks, s.finalized, Here(bl), c)
  BY <1>5, <1>6, EndAgrees
<1>8. Simulates(sim, void, root, lps, s, <<>> \o Tail(u))
  BY <1>5, <1>7, <1>2, EndMeans DEF x
<1> QED
  BY <1>8 DEF s

LEMMA EnterMeans ==
  ASSUME NEW lists, NEW begins, NEW lps, NEW bl, NEW u, NEW sim, NEW void, NEW root, NEW c, NEW d, NEW more,
         Staged(lists, begins, lps, bl, u, sim, void, root, c, d, more), Head(u).stmt = "Enter"
  PROVE  \E now : Simulates(now, void, root, lps, SwitchToBlock(bl, Head(u).block), <<>> \o Tail(u))
<1> DEFINE x == Head(u)
           after == EnteredIn(Tail(u))
           block == x.block
           s == SwitchToBlock(bl, block)
           place == At(block, 1)
<1>1. /\ IsVec(d) /\ Written(bl, begins, Entered(x) \cup after)
      /\ IF IsTerminated(bl) THEN x.stmt \in {"Enter", "Arms", "Close"} ELSE x.stmt \notin {"Enter", "Arms"}
      /\ AreEmpty(bl.blocks, Entered(x) \cup after)
      /\ Entered(x) \cup after \subseteq DOMAIN bl.blocks
  BY StagedProps
<1>2. x.stmt = "Enter"
  OBVIOUS
<1> HIDE DEF x, after
<1>3. Entered(x) = {block} /\ OpenedBy(x, c, d) = {<<place, d>>} /\ IsTerminated(bl)
  BY <1>1, <1>2 DEF Entered, OpenedBy
<1>4. ASSUME NEW pending, pending = Entered(x) \cup after
      PROVE  /\ Written(s, begins, pending \ {block}) /\ s.current = block /\ s.blocks = bl.blocks
             /\ s.finalized = bl.finalized /\ ~ IsTerminated(s)
  <2>1. Written(bl, begins, pending) /\ block \in pending
    BY <1>1, <1>3, <1>4
  <2> HIDE DEF block
  <2> QED
    BY <2>1, <1>3, WrittenSwitch
<1>5. PICK pending : /\ Written(s, begins, pending) /\ s.current = block /\ s.blocks = bl.blocks
                     /\ s.finalized = bl.finalized /\ ~ IsTerminated(s)
  BY <1>4
<1> HIDE DEF s
<1>6. block \in DOMAIN s.blocks /\ s.blocks[block].stmts = <<>>
  BY <1>1, <1>3, <1>5 DEF AreEmpty
<1> HIDE DEF block
<1>7. Here(s) = place
  <2>1. Len(<<>>) + 1 = 1
    OBVIOUS
  <2> QED
    BY <2>1, <1>5, <1>6 DEF Here
<1>8. IsPlace(s.blocks, place)
  BY <1>5, <1>6, StartIsPlace
<1>9. Grows(bl, s) /\ AreEmpty(s.blocks, after)
  <2>1. Continues(bl, s)
    BY <1>5 DEF Continues
  <2> QED
    BY <2>1, <1>1, <1>5, ContinuesGrows DEF AreEmpty
<1> HIDE DEF place
<1>10. Justified(sim, sim, void, bl, c, OpenedBy(x, c, d), s, d, {})
  <2>1. ASSUME NEW pos, NEW conf, <<pos, conf>> \in OpenedBy(x, c, d)
        PROVE  IsPlace(s.blocks, pos) /\ IsVec(conf) /\ Stands(sim, void, s, d, {}, pos, conf)
    <3>1. pos = place /\ conf = d
      BY <2>1, <1>3
    <3> QED
      BY <3>1, <1>1, <1>5, <1>7, <1>8 DEF Stands
  <2> QED
    BY <2>1, <1>3 DEF Justified
<1>11. Simulates(sim, void, root, lps, s, <<>> \o Tail(u))
  BY <1>9, <1>10, MeansNothingElse DEF x, after
<1> QED
  BY <1>11 DEF s, block, x

\* The source and a branch offer the same.
LEMMA BranchWays ==
  ASSUME NEW sim, NEW void, NEW conf, ~ IsSilent(conf), NEW label,
         SourceOffer(void, conf) = Does("Branch", label, 2), NEW then, NEW else,
         <<At(then, 1), SourceAfter(conf, 1)>> \in sim, <<At(else, 1), SourceAfter(conf, 2)>> \in sim
  PROVE  SameWays(sim, void, Branch(label, then, else), conf)
<1> DEFINE term == Branch(label, then, else)
<1>1. term.kind = "Branch" /\ term.label = label /\ term.targets = <<then, else>>
  BY DEF Branch, Terminator
<1> HIDE DEF term
<1>2. Len(<<then, else>>) = 2 /\ <<then, else>>[1] = then /\ <<then, else>>[2] = else
  OBVIOUS
<1>3. \A way \in 1 .. 2 : way = 1 \/ way = 2
  OBVIOUS
<1>4. ASSUME NEW targets, targets = <<then, else>>, NEW way \in 1 .. 2
      PROVE  <<At(targets[way], 1), SourceAfter(conf, way)>> \in sim
  <2>1. targets[1] = then /\ targets[2] = else
    BY <1>2, <1>4
  <2> QED
    BY <2>1, <1>3
<1>5. Len(term.targets) = 2 /\ \A way \in 1 .. 2 : <<At(term.targets[way], 1), SourceAfter(conf, way)>> \in sim
  BY <1>1, <1>2, <1>4
<1>6. term.kind # "Goto" /\ SourceOffer(void, conf) = Does(term.kind, term.label, Len(term.targets))
  BY <1>1, <1>5
<1>7. SameWays(sim, void, term, conf)
  BY <1>5, <1>6 DEF SameWays
<1> QED
  BY <1>7 DEF term

LEMMA DecideMeans ==
  ASSUME NEW lists, NEW begins, NEW lps, NEW bl, NEW u, NEW sim, NEW void, NEW root, NEW c, NEW d, NEW more,
         Staged(lists, begins, lps, bl, u, sim, void, root, c, d, more), Head(u).stmt = "Decide"
  PROVE  \E now : Simulates(now, void, root, lps,
                            Terminate(bl, Branch(Head(u).label, Head(u).then, Head(u).else)), <<>> \o Tail(u))
<1> DEFINE x == Head(u)
           after == EnteredIn(Tail(u))
           next == KindAt(Tail(u), 1, "End")
           term == Branch(x.label, x.then, x.else)
           s == Terminate(bl, term)
<1>1. /\ ItemMeans(sim, lps, x, c, d, after) /\ Written(bl, begins, Entered(x) \cup after)
      /\ IF IsTerminated(bl) THEN x.stmt \in {"Enter", "Arms", "Close"} ELSE x.stmt \notin {"Enter", "Arms"}
      /\ Taken(lists, begins, lps, bl, u, x, next, after)
  BY StagedProps
<1>2. x.stmt = "Decide"
  OBVIOUS
<1> HIDE DEF x, after, next
<1>3. PICK w, k : /\ IsVec(k)
                  /\ c = <<Test(w)>> \o k
                  /\ x.label = w.label
                  /\ <<At(x.then, 1), (w.body \o <<w>>) \o k>> \in sim
                  /\ <<At(x.else, 1), k>> \in sim
  BY <1>1, <1>2 DEF ItemMeans
<1>4. Entered(x) \cup after = after /\ ~ IsTerminated(bl)
  BY <1>1, <1>2 DEF Entered
<1>5. x.then \in DOMAIN bl.blocks \ {EntryBlock} /\ x.else \in DOMAIN bl.blocks \ {EntryBlock}
  <2>1. x.then \in after /\ x.else \in after
    BY <1>1, <1>2 DEF Taken, ItemOK, Statements
  <2> QED
    BY <2>1, <1>1, <1>4 DEF Written, PendingOK
<1>6. TermOK(bl.blocks, term) /\ term.kind # "Goto"
  BY <1>5, BranchOK
<1>7. SameWays(sim, void, term, c)
  <2>1. ASSUME NEW y, y.stmt = "Test", y.while = w, NEW conf, conf = <<y>> \o k
        PROVE  /\ ~ IsSilent(conf) /\ SourceOffer(void, conf) = Does("Branch", w.label, 2)
               /\ SourceAfter(conf, 1) = (w.body \o <<w>>) \o k /\ SourceAfter(conf, 2) = k
    <3>1. ~ IsSilent(conf) /\ SourceOffer(void, conf) = Does("Branch", w.label, 2)
      <4>1. ~ IsSilent(<<y>> \o k)
        BY <2>1, <1>3, FirstStmt
      <4>2. SourceOffer(void, <<y>> \o k) = Does("Branch", y.while.label, 2)
        BY <2>1, <1>3, OfferedStmt, ZenonT(60)
      <4> QED
        BY <4>1, <4>2, <2>1
    <3>2. ASSUME NEW way PROVE SourceAfter(conf, way) = (IF way = 1 THEN (w.body \o <<w>>) \o k ELSE k)
      <4>1. AfterIs(y, k, way, SourceAfter(<<y>> \o k, way))
        BY <1>3, AfterStmt
      <4> QED
        BY <4>1, <2>1 DEF AfterIs
    <3>3. 2 # 1
      OBVIOUS
    <3> QED
      BY <3>1, <3>2, <3>3
  <2>2. Test(w).stmt = "Test" /\ Test(w).while = w
    BY DEF Test
  <2>3. /\ ~ IsSilent(c) /\ SourceOffer(void, c) = Does("Branch", w.label, 2)
        /\ SourceAfter(c, 1) = (w.body \o <<w>>) \o k /\ SourceAfter(c, 2) = k
    BY <2>1, <2>2, <1>3
  <2> QED
    BY <2>3, <1>3, BranchWays
<1> HIDE DEF term
<1>8. EndsWith(bl, s, term)
  BY <1>1, <1>4, <1>6, TermContinues
<1> HIDE DEF s
<1>9. Continues(bl, s) /\ EndedHere(bl, s, term)
  BY <1>1, <1>8, ContinuesSelf, EndsHere
<1>10. Agrees(sim, void, s.blocks, s.finalized, Here(bl), c)
  BY <1>7, <1>9, EndAgrees
<1>11. Simulates(sim, void, root, lps, s, <<>> \o Tail(u))
  BY <1>9, <1>10, <1>2, EndMeans DEF x
<1> QED
  BY <1>11 DEF s, term, x

-----------------------------------------------------------------------------
\* Items that open blocks of their own.
LEMMA PlannedThen ==
  ASSUME NEW sim, NEW lps, NEW u, NEW x, NEW v, v = <<x>>, NEW after, NEW both, both = Entered(x) \cup after,
         NEW c, NEW d, NEW e, NEW opens, Planned(sim, lps, u, both, c, d, opens), ItemMeans(sim, lps, x, d, e, after)
  PROVE  Planned(sim, lps, u \o v, after, c, e, opens \cup OpenedBy(x, d, e))
<1>1. Planned(sim, lps, v, after, d, e, OpenedBy(x, d, e))
  BY PlannedOne
<1>2. EnteredIn(v) = Entered(x)
  BY OneItem
<1>3. Planned(sim, lps, u, EnteredIn(v) \cup after, c, d, opens)
  BY <1>2
<1> QED
  BY <1>1, <1>3, PlannedConcat

LEMMA EnterMeansItem ==
  ASSUME NEW sim, NEW lps, NEW bb, NEW c, NEW d, IsVec(c), IsVec(d), NEW after
  PROVE  ItemMeans(sim, lps, Enter(bb), c, d, after) /\ OpenedBy(Enter(bb), c, d) = {<<At(bb, 1), d>>}
<1> DEFINE x == Enter(bb)
<1>1. x.stmt = "Enter" /\ x.block = bb
  BY ItemFields
<1> HIDE DEF x
<1>2. ItemMeans(sim, lps, x, c, d, after) /\ OpenedBy(x, c, d) = {<<At(bb, 1), d>>}
  BY <1>1 DEF ItemMeans, OpenedBy, Statements
<1> QED
  BY <1>2 DEF x

LEMMA CloseMeansItem ==
  ASSUME NEW sim, NEW lps, NEW m, NEW c, NEW d, IsVec(c), IsVec(d), <<At(m, 1), c>> \in sim, NEW after
  PROVE  ItemMeans(sim, lps, Close(m), c, d, after) /\ OpenedBy(Close(m), c, d) = {}
<1> DEFINE x == Close(m)
<1>1. x.stmt = "Close" /\ x.block = m
  BY ItemFields
<1> HIDE DEF x
<1>2. ItemMeans(sim, lps, x, c, d, after) /\ OpenedBy(x, c, d) = {}
  BY <1>1 DEF ItemMeans, OpenedBy, Statements
<1> QED
  BY <1>2 DEF x

LEMMA PlannedSection ==
  ASSUME NEW sim, NEW lists, AreScoped(lists), NEW lps, NEW stmts, NEW after, NEW end,
         List(stmts, LoopsInto(lps, after), end) \in lists,
         NEW d, IsVec(d), LoopsMean(sim, lps, d, LoopsInto(lps, after)),
         NEW m, <<At(m, 1), d>> \in sim, NEW c, IsVec(c), NEW f, IsVec(f), NEW bb
  PROVE  Planned(sim, lps, Section(bb, stmts, m), after, c, f, {<<At(bb, 1), stmts \o d>>})
<1> DEFINE x == Enter(bb)
           y == Close(m)
           v == <<x>>
           w == <<y>>
           conf == stmts \o d
           opens == {<<At(bb, 1), conf>>}
<1>1. IsVec(stmts) /\ EnteredIn(stmts) = {}
  BY ListStmts
<1>2. Planned(sim, lps, stmts, after, conf, d, {})
  BY PlannedList
<1>3. IsVec(conf)
  BY <1>1, ConcatVec
<1> HIDE DEF conf
<1>4. ItemMeans(sim, lps, x, c, conf, after) /\ OpenedBy(x, c, conf) = opens
  BY <1>3, EnterMeansItem
<1>5. ItemMeans(sim, lps, y, d, f, after) /\ OpenedBy(y, d, f) = {} /\ Entered(y) = {}
  BY CloseMeansItem, ItemFields
<1> HIDE DEF x, y, opens
<1>6. Planned(sim, lps, v, after, c, conf, opens)
  BY <1>4, PlannedOne
<1>7. w = <<y>>
  OBVIOUS
<1> HIDE DEF v, w
<1>8. Planned(sim, lps, v \o stmts, after, c, d, opens)
  <2>1. Planned(sim, lps, v, EnteredIn(stmts) \cup after, c, conf, opens)
    BY <1>1, <1>6
  <2>2. ASSUME NEW none, none = {}, Planned(sim, lps, stmts, after, conf, d, none)
        PROVE  Planned(sim, lps, v \o stmts, after, c, d, opens \cup none)
    BY <2>1, <2>2, PlannedConcat
  <2>3. opens \cup {} = opens
    OBVIOUS
  <2> QED
    BY <2>2, <2>3, <1>2
<1>9. Planned(sim, lps, (v \o stmts) \o w, after, c, f, opens \cup OpenedBy(y, d, f))
  <2> DEFINE u == v \o stmts
  <2>1. Planned(sim, lps, u, after, c, d, opens) /\ after = Entered(y) \cup after
    BY <1>5, <1>8
  <2> HIDE DEF u
  <2>2. Planned(sim, lps, u \o w, after, c, f, opens \cup OpenedBy(y, d, f))
    BY <2>1, <1>5, <1>7, PlannedThen
  <2> QED
    BY <2>2 DEF u
<1>10. opens \cup OpenedBy(y, d, f) = opens
  BY <1>5
<1>11. Section(bb, stmts, m) = (v \o stmts) \o w
  BY DEF Section, v, w, x, y
<1> QED
  BY <1>9, <1>10, <1>11 DEF opens, conf

\* The last section of a statement, and where it ends.
LEMMA PlannedEnd ==
  ASSUME NEW sim, NEW lists, AreScoped(lists), NEW lps, NEW after, NEW merge, NEW both, both = {merge} \cup after,
         NEW stmts, NEW end, List(stmts, LoopsInto(lps, both), end) \in lists,
         NEW d, IsVec(d), LoopsMean(sim, lps, d, LoopsInto(lps, both)),
         NEW m, <<At(m, 1), d>> \in sim, NEW g, IsVec(g), NEW f, IsVec(f), NEW bb
  PROVE  Planned(sim, lps, Section(bb, stmts, m) \o <<Enter(merge)>>, after, g, f,
                 {<<At(bb, 1), stmts \o d>>, <<At(merge, 1), f>>})
<1> DEFINE section == Section(bb, stmts, m)
           y == Enter(merge)
           w == <<y>>
           one == {<<At(bb, 1), stmts \o d>>}
<1>1. Planned(sim, lps, section, both, g, d, one)
  BY PlannedSection
<1>2. ItemMeans(sim, lps, y, d, f, after) /\ OpenedBy(y, d, f) = {<<At(merge, 1), f>>} /\ Entered(y) = {merge}
  <2>1. ItemMeans(sim, lps, y, d, f, after) /\ OpenedBy(y, d, f) = {<<At(merge, 1), f>>}
    BY EnterMeansItem
  <2>2. Entered(y) = {merge}
    BY ItemFields
  <2> QED
    BY <2>1, <2>2
<1> HIDE DEF section, y, one
<1>3. w = <<y>> /\ both = Entered(y) \cup after
  BY <1>2
<1> HIDE DEF w
<1>4. Planned(sim, lps, section \o w, after, g, f, one \cup OpenedBy(y, d, f))
  BY <1>1, <1>2, <1>3, PlannedThen
<1>5. one \cup OpenedBy(y, d, f) = {<<At(bb, 1), stmts \o d>>, <<At(merge, 1), f>>}
  BY <1>2 DEF one
<1> QED
  BY <1>4, <1>5 DEF section, w, y

-----------------------------------------------------------------------------
\* A statement that ends its block with a branch, into blocks of its own.
Opens(opened, fresh) == \A pos, conf : <<pos, conf>> \in opened => IsVec(conf) /\ \E bb \in fresh : pos = At(bb, 1)

LEMMA OpensMeans ==
  ASSUME NEW lists, NEW begins, NEW lps, NEW bl, NEW u, NEW sim, NEW void, NEW root, NEW c, NEW d, NEW more,
         Staged(lists, begins, lps, bl, u, sim, void, root, c, d, more), Head(u).stmt \in Statements,
         NEW n \in Nat, NEW term, TermOK(NewBlocks(bl, n).blocks, term), term.kind # "Goto",
         NEW fresh, fresh = (Len(bl.blocks) + 1) .. (Len(bl.blocks) + n),
         NEW opened, Opens(opened, fresh), NEW now, now = sim \cup opened, SameWays(now, void, term, c),
         NEW v, NEW e, Planned(now, lps, v, EnteredIn(Tail(u)), e, d, opened), EnteredIn(v) \subseteq fresh
  PROVE  Simulates(now, void, root, lps, Terminate(NewBlocks(bl, n), term), v \o Tail(u))
<1> DEFINE x == Head(u)
           after == EnteredIn(Tail(u))
           r == NewBlocks(bl, n)
           s == Terminate(r, term)
<1>1. StmtStaged(lists, begins, lps, bl, sim, c, d, x, KindAt(Tail(u), 1, "End"), after)
  BY StagedStatement
<1> HIDE DEF x, after
<1>2. ~ IsTerminated(bl) /\ Written(bl, begins, after) /\ LoopsOK(lps, bl.blocks, begins)
  BY <1>1 DEF StmtStaged
<1>3. /\ Written(r, begins, fresh \cup after) /\ r.current = bl.current /\ ~ IsTerminated(r)
      /\ fresh \subseteq DOMAIN r.blocks \ {EntryBlock}
  BY <1>2, FreshBlocks
<1>4. Continues(bl, r) /\ \A i \in fresh : r.blocks[i].stmts = <<>>
  BY <1>2, NewContinues
<1> HIDE DEF r
<1>5. EndsWith(r, s, term) /\ Written(s, begins, fresh \cup after)
  <2>1. TermOK(r.blocks, term)
    BY DEF r
  <2> QED
    BY <2>1, <1>3, TermContinues, WrittenTerm
<1> HIDE DEF s
<1>6. Continues(r, s) /\ DOMAIN s.blocks = DOMAIN r.blocks
  BY <1>5 DEF EndsWith
<1>7. Continues(bl, s) /\ EndedHere(bl, s, term)
  BY <1>2, <1>3, <1>4, <1>5, ContinuesSelf, EndsHere
<1>8. AreEmpty(s.blocks, EnteredIn(v))
  BY <1>3, <1>4, <1>6 DEF AreEmpty, Continues
<1>9. Agrees(now, void, s.blocks, s.finalized, Here(bl), c)
  BY <1>7, EndAgrees
<1>10. NewStand(opened, now, void, s, e, opened)
  <2>1. ASSUME NEW pos, NEW conf, <<pos, conf>> \in opened
        PROVE  IsPlace(s.blocks, pos) /\ IsVec(conf) /\ Stands(now, void, s, e, opened, pos, conf)
    <3>1. IsVec(conf) /\ \E bb \in fresh : pos = At(bb, 1)
      BY <2>1 DEF Opens
    <3>2. PICK bb \in fresh : pos = At(bb, 1)
      BY <3>1
    <3>3. IsPlace(s.blocks, At(bb, 1))
      BY <1>3, <1>5, <1>6, StartIsPlace
    <3> QED
      BY <2>1, <3>1, <3>2, <3>3 DEF Stands
  <2> QED
    BY <2>1 DEF NewStand
<1>11. LoopsStay(lps, lps, EnteredIn(Tail(u)))
  BY DEF LoopsStay
<1>12. Simulates(now, void, root, lps, s, v \o Tail(u))
  BY <1>7, <1>8, <1>9, <1>10, <1>11, StmtMeansElse DEF x
<1> QED
  BY <1>12 DEF s, r

\* The new blocks of a statement, in which the same loops run as before.
AreNew(fresh, lps, blocks, after) ==
  /\ fresh \cap after = {} /\ fresh \subseteq DOMAIN blocks \ {EntryBlock}
  /\ \A i \in DOMAIN lps : lps[i].end \notin fresh
  /\ \A A \in SUBSET fresh : LoopsInto(lps, A \cup after) = LoopsInto(lps, after)

LEMMA FreshOnes ==
  ASSUME NEW lists, NEW begins, NEW lps, NEW bl, NEW sim, NEW c, NEW d, NEW x, NEW next, NEW after,
         StmtStaged(lists, begins, lps, bl, sim, c, d, x, next, after), NEW n \in Nat
  PROVE  /\ Len(bl.blocks) \in Nat
         /\ AreNew((Len(bl.blocks) + 1) .. (Len(bl.blocks) + n), lps, NewBlocks(bl, n).blocks, after)
<1> DEFINE l == Len(bl.blocks)
           fresh == (l + 1) .. (l + n)
<1>1. ~ IsTerminated(bl) /\ Written(bl, begins, after) /\ LoopsOK(lps, bl.blocks, begins)
  BY DEF StmtStaged
<1>2. /\ l \in Nat /\ fresh \cap after = {} /\ fresh \subseteq DOMAIN NewBlocks(bl, n).blocks \ {EntryBlock}
      /\ \A i \in DOMAIN lps : lps[i].end \notin fresh
  BY <1>1, FreshBlocks
<1> HIDE DEF l, fresh
<1>3. \A A \in SUBSET fresh : LoopsInto(lps, A \cup after) = LoopsInto(lps, after)
  BY <1>2 DEF LoopsInto
<1>4. AreNew(fresh, lps, NewBlocks(bl, n).blocks, after)
  BY <1>2, <1>3 DEF AreNew
<1> QED
  BY <1>2, <1>4 DEF l, fresh

LEMMA IfMeans ==
  ASSUME NEW lists, NEW begins, NEW lps, NEW bl, NEW u, NEW sim, NEW void, NEW root, NEW c, NEW d, NEW more,
         Staged(lists, begins, lps, bl, u, sim, void, root, c, d, more), Head(u).stmt = "If"
  PROVE  LET then == FreshBlock(bl, 1)
             merge == FreshBlock(bl, 2)
         IN  \E now : Simulates(now, void, root, lps,
                        Terminate(NewBlocks(bl, 2), Branch(Head(u).label, then, merge)),
                        (<<Enter(then)>> \o Head(u).then \o <<Close(merge), Enter(merge)>>) \o Tail(u))
<1> DEFINE x == Head(u)
           after == EnteredIn(Tail(u))
           next == KindAt(Tail(u), 1, "End")
           stmts == x.then
           then == FreshBlock(bl, 1)
           merge == FreshBlock(bl, 2)
           l == Len(bl.blocks)
           n == 2
           fresh == (l + 1) .. (l + n)
           term == Branch(x.label, then, merge)
           e == stmts \o d
           opened == {<<At(then, 1), e>>, <<At(merge, 1), d>>}
           now == sim \cup opened
           both == {merge} \cup after
           v == Section(then, stmts, merge) \o <<Enter(merge)>>
<1>1. x.stmt \in Statements
  BY DEF Statements
<1>2. StmtStaged(lists, begins, lps, bl, sim, c, d, x, next, after)
  BY <1>1, StagedStatement
<1>3. x.stmt = "If" /\ AreScoped(lists)
  BY DEF Staged
<1> HIDE DEF x, after, next
<1>4. /\ IsVec(d) /\ c = <<x>> \o d /\ LoopsMean(sim, lps, d, LoopsInto(lps, after))
      /\ IsScopedStmt(lists, x, LoopsInto(lps, after), EndBefore(next))
  BY <1>2 DEF StmtStaged
<1>5. List(stmts, LoopsInto(lps, after), MayJump) \in lists
  BY <1>3, <1>4 DEF IsScopedStmt
<1>6. IsVec(stmts) /\ EnteredIn(stmts) = {}
  BY <1>3, <1>5, ListStmts
<1>7. IsVec(e)
  BY <1>4, <1>6, ConcatVec
<1>8. /\ l \in Nat /\ fresh \subseteq DOMAIN NewBlocks(bl, n).blocks \ {EntryBlock}
      /\ \A A \in SUBSET fresh : LoopsInto(lps, A \cup after) = LoopsInto(lps, after)
  <2>1. n \in Nat
    OBVIOUS
  <2> HIDE DEF n
  <2>2. l \in Nat /\ AreNew(fresh, lps, NewBlocks(bl, n).blocks, after)
    BY <2>1, <1>2, FreshOnes
  <2> QED
    BY <2>2 DEF AreNew
<1>9. fresh = {then, merge}
  <2>1. then = l + 1 /\ merge = l + 2
    BY DEF FreshBlock
  <2> HIDE DEF then, merge, l
  <2> QED
    BY <2>1, <1>8
<1>10. n \in Nat /\ fresh = (Len(bl.blocks) + 1) .. (Len(bl.blocks) + n)
  OBVIOUS
<1> HIDE DEF then, merge, l, n, fresh
<1>11. TermOK(NewBlocks(bl, n).blocks, term) /\ term.kind # "Goto"
  BY <1>8, <1>9, BranchOK
<1>12. LoopsInto(lps, both) = LoopsInto(lps, after)
  <2>1. {merge} \in SUBSET fresh
    BY <1>9
  <2> QED
    BY <2>1, <1>8
<1>13. SameWays(now, void, term, c)
  <2>1. ~ IsSilent(c) /\ SourceOffer(void, c) = Does("Branch", x.label, 2)
    BY <1>3, <1>4, FirstStmt, OfferedStmt
  <2>2. ASSUME NEW way PROVE SourceAfter(c, way) = (IF way = 1 THEN e ELSE d)
    <3>1. AfterIs(x, d, way, SourceAfter(<<x>> \o d, way))
      BY <1>4, AfterStmt
    <3> QED
      BY <3>1, <1>3, <1>4 DEF AfterIs
  <2>3. SourceAfter(c, 1) = e /\ SourceAfter(c, 2) = d
    BY <2>2
  <2> HIDE DEF e
  <2> QED
    BY <2>1, <2>3, BranchWays
<1> HIDE DEF term, both
<1>14. Planned(now, lps, v, after, d, d, opened)
  <2>1. LoopsMean(now, lps, d, LoopsInto(lps, both))
    BY <1>4, <1>12, LoopsMeanMore
  <2>2. List(stmts, LoopsInto(lps, both), MayJump) \in lists /\ both = {merge} \cup after
    BY <1>5, <1>12 DEF both
  <2>3. <<At(merge, 1), d>> \in now
    OBVIOUS
  <2> HIDE DEF now, stmts
  <2> QED
    BY <2>1, <2>2, <2>3, <1>3, <1>4, PlannedEnd
<1>15. Opens(opened, fresh)
  <2> HIDE DEF e
  <2> QED
    BY <1>4, <1>7, <1>9 DEF Opens
<1>16. EnteredIn(v) \subseteq fresh
  <2> DEFINE section == Section(then, stmts, merge)
             y == Enter(merge)
             w == <<y>>
  <2>1. IsVec(section) /\ EnteredIn(section) = {then}
    BY <1>6, SectionEntered
  <2>2. Entered(y) = {merge}
    BY ItemFields
  <2> HIDE DEF section, y
  <2>3. EnteredIn(section \o w) = EnteredIn(section) \cup Entered(y)
    BY <2>1, EnteredThen
  <2> QED
    BY <2>1, <2>2, <2>3, <1>9 DEF section, y
<1>17. v = <<Enter(then)>> \o stmts \o <<Close(merge), Enter(merge)>>
  <2> DEFINE f == <<Enter(then)>>
             p == f \o stmts
             g == Close(merge)
             y == Enter(merge)
  <2>1. IsVec(f)
    BY OneVec
  <2> HIDE DEF f, g, y, stmts
  <2>2. IsVec(p)
    BY <2>1, <1>6, ConcatVec
  <2> HIDE DEF p
  <2>3. p \o <<g, y>> = (p \o <<g>>) \o <<y>>
    BY <2>2, TwoMore
  <2> QED
    BY <2>3 DEF p, f, g, y, Section
<1> HIDE DEF v, e, opened
<1>18. Simulates(now, void, root, lps, Terminate(NewBlocks(bl, n), term), v \o Tail(u))
  <2>1. Head(u).stmt \in Statements /\ Planned(now, lps, v, EnteredIn(Tail(u)), d, d, opened)
    BY <1>1, <1>14 DEF x, after
  <2>2. now = sim \cup opened
    OBVIOUS
  <2> HIDE DEF now
  <2> QED
    BY <2>1, <2>2, <1>10, <1>11, <1>13, <1>15, <1>16, OpensMeans
<1> HIDE DEF now
<1> QED
  BY <1>17, <1>18 DEF n, term, then, merge, stmts, x

LEMMA IfElseMeans ==
  ASSUME NEW lists, NEW begins, NEW lps, NEW bl, NEW u, NEW sim, NEW void, NEW root, NEW c, NEW d, NEW more,
         Staged(lists, begins, lps, bl, u, sim, void, root, c, d, more), Head(u).stmt = "IfElse"
  PROVE  LET then == FreshBlock(bl, 1)
             merge == FreshBlock(bl, 2)
             else == FreshBlock(bl, 3)
         IN  \E now : Simulates(now, void, root, lps,
                        Terminate(NewBlocks(bl, 3), Branch(Head(u).label, then, else)),
                        (<<Enter(else)>> \o Head(u).else \o <<Close(merge), Enter(then)>>
                           \o Head(u).then \o <<Close(merge), Enter(merge)>>) \o Tail(u))
<1> DEFINE x == Head(u)
           after == EnteredIn(Tail(u))
           next == KindAt(Tail(u), 1, "End")
           stmts == x.then
           others == x.else
           then == FreshBlock(bl, 1)
           merge == FreshBlock(bl, 2)
           else == FreshBlock(bl, 3)
           l == Len(bl.blocks)
           n == 3
           fresh == (l + 1) .. (l + n)
           term == Branch(x.label, then, else)
           e == stmts \o d
           f == others \o d
           one == {<<At(else, 1), f>>}
           two == {<<At(then, 1), e>>, <<At(merge, 1), d>>}
           opened == one \cup two
           now == sim \cup opened
           both == {merge} \cup after
           all == {then, merge} \cup after
           first == Section(else, others, merge)
           second == Section(then, stmts, merge)
           y == Enter(merge)
           w == <<y>>
           v == first \o (second \o w)
<1>1. x.stmt \in Statements
  BY DEF Statements
<1>2. StmtStaged(lists, begins, lps, bl, sim, c, d, x, next, after)
  BY <1>1, StagedStatement
<1>3. x.stmt = "IfElse" /\ AreScoped(lists)
  BY DEF Staged
<1> HIDE DEF x, after, next
<1>4. /\ IsVec(d) /\ c = <<x>> \o d /\ LoopsMean(sim, lps, d, LoopsInto(lps, after))
      /\ IsScopedStmt(lists, x, LoopsInto(lps, after), EndBefore(next))
  BY <1>2 DEF StmtStaged
<1>5. /\ List(stmts, LoopsInto(lps, after), MayJump) \in lists
      /\ List(others, LoopsInto(lps, after), MayJump) \in lists
  BY <1>3, <1>4 DEF IsScopedStmt
<1>6. IsVec(stmts) /\ EnteredIn(stmts) = {} /\ IsVec(others) /\ EnteredIn(others) = {}
  BY <1>3, <1>5, ListStmts
<1>7. IsVec(e) /\ IsVec(f)
  BY <1>4, <1>6, ConcatVec
<1>8. /\ l \in Nat /\ fresh \subseteq DOMAIN NewBlocks(bl, n).blocks \ {EntryBlock}
      /\ \A A \in SUBSET fresh : LoopsInto(lps, A \cup after) = LoopsInto(lps, after)
  <2>1. n \in Nat
    OBVIOUS
  <2> HIDE DEF n
  <2>2. l \in Nat /\ AreNew(fresh, lps, NewBlocks(bl, n).blocks, after)
    BY <2>1, <1>2, FreshOnes
  <2> QED
    BY <2>2 DEF AreNew
<1>9. fresh = {then, merge, else}
  <2>1. then = l + 1 /\ merge = l + 2 /\ else = l + 3
    BY DEF FreshBlock
  <2> HIDE DEF then, merge, else, l
  <2> QED
    BY <2>1, <1>8
<1>10. n \in Nat /\ fresh = (Len(bl.blocks) + 1) .. (Len(bl.blocks) + n)
  OBVIOUS
<1> HIDE DEF then, merge, else, l, n, fresh
<1>11. TermOK(NewBlocks(bl, n).blocks, term) /\ term.kind # "Goto"
  BY <1>8, <1>9, BranchOK
<1>12. LoopsInto(lps, both) = LoopsInto(lps, after) /\ LoopsInto(lps, all) = LoopsInto(lps, after)
  <2>1. {merge} \in SUBSET fresh /\ {then, merge} \in SUBSET fresh
    BY <1>9
  <2> QED
    BY <2>1, <1>8
<1>13. SameWays(now, void, term, c)
  <2>1. ~ IsSilent(c) /\ SourceOffer(void, c) = Does("Branch", x.label, 2)
    BY <1>3, <1>4, FirstStmt, OfferedStmt
  <2>2. ASSUME NEW way PROVE SourceAfter(c, way) = (IF way = 1 THEN stmts ELSE others) \o d
    <3>1. AfterIs(x, d, way, SourceAfter(<<x>> \o d, way))
      BY <1>4, AfterStmt
    <3> QED
      BY <3>1, <1>3, <1>4 DEF AfterIs
  <2>3. SourceAfter(c, 1) = e /\ SourceAfter(c, 2) = f
    BY <2>2
  <2> HIDE DEF e, f
  <2> QED
    BY <2>1, <2>3, BranchWays
<1> HIDE DEF term, both, all
<1>14. LoopsMean(now, lps, d, LoopsInto(lps, after)) /\ <<At(merge, 1), d>> \in now
  BY <1>4, LoopsMeanMore
<1> HIDE DEF now, stmts, others
<1>15. Planned(now, lps, second \o w, after, d, d, two) /\ EnteredIn(second \o w) = {then, merge}
  <2>1. LoopsMean(now, lps, d, LoopsInto(lps, both)) /\ List(stmts, LoopsInto(lps, both), MayJump) \in lists
        /\ both = {merge} \cup after
    BY <1>5, <1>12, <1>14 DEF both
  <2>2. Planned(now, lps, second \o w, after, d, d, two)
    BY <2>1, <1>3, <1>4, <1>14, PlannedEnd
  <2>3. IsVec(second) /\ EnteredIn(second) = {then}
    BY <1>6, SectionEntered
  <2>4. Entered(y) = {merge}
    BY ItemFields
  <2> HIDE DEF second, y
  <2>5. EnteredIn(second \o w) = EnteredIn(second) \cup Entered(y)
    BY <2>3, EnteredThen
  <2>6. EnteredIn(second \o w) = {then, merge}
    BY <2>3, <2>4, <2>5
  <2> QED
    BY <2>2, <2>6 DEF second, y
<1>16. Planned(now, lps, first, all, d, d, one) /\ IsVec(first) /\ EnteredIn(first) = {else}
  <2>1. LoopsMean(now, lps, d, LoopsInto(lps, all)) /\ List(others, LoopsInto(lps, all), MayJump) \in lists
    BY <1>5, <1>12, <1>14
  <2> QED
    BY <2>1, <1>3, <1>4, <1>6, <1>14, PlannedSection, SectionEntered
<1> HIDE DEF first, one, two
<1>17. Planned(now, lps, v, after, d, d, opened) /\ EnteredIn(v) \subseteq fresh
  <2> DEFINE z == second \o w
  <2>1. Planned(now, lps, z, after, d, d, two) /\ EnteredIn(z) = {then, merge}
    BY <1>15
  <2> HIDE DEF z
  <2>2. IsVec(z)
    BY <2>1 DEF Planned
  <2>3. Planned(now, lps, first, EnteredIn(z) \cup after, d, d, one)
    BY <2>1, <1>16 DEF all
  <2>4. Planned(now, lps, first \o z, after, d, d, one \cup two)
    BY <2>1, <2>3, PlannedConcat
  <2>5. EnteredIn(first \o z) = EnteredIn(first) \cup EnteredIn(z)
    BY <2>2, <1>16, EnteredConcat
  <2>6. EnteredIn(first \o z) \subseteq fresh
    BY <2>1, <2>5, <1>9, <1>16
  <2> QED
    BY <2>4, <2>6 DEF z
<1>18. Opens(opened, fresh)
  <2> HIDE DEF e, f
  <2> QED
    BY <1>4, <1>7, <1>9 DEF Opens, one, two
<1>19. v = <<Enter(else)>> \o others \o <<Close(merge), Enter(then)>> \o stmts \o <<Close(merge), y>>
  <2> DEFINE k == <<Enter(then)>>
             g == <<Close(merge)>>
             z == <<Close(merge), y>>
  <2>1. <<Enter(else)>> \o others \o <<Close(merge), Enter(then)>> = first \o k
    <3> DEFINE h == <<Enter(else)>>
               p == h \o others
               i == Close(merge)
               j == Enter(then)
    <3>1. IsVec(h)
      BY OneVec
    <3> HIDE DEF h, i, j
    <3>2. IsVec(p)
      BY <3>1, <1>6, ConcatVec
    <3> HIDE DEF p
    <3>3. p \o <<i, j>> = (p \o <<i>>) \o <<j>>
      BY <3>2, TwoMore
    <3> QED
      BY <3>3 DEF p, h, i, j, first, Section
  <2>2. IsVec(k) /\ IsVec(g) /\ IsVec(w) /\ z = g \o w
    BY OneVec, TwoVec
  <2>3. second = (k \o stmts) \o g
    BY DEF Section
  <2> HIDE DEF k, g, z, second, w
  <2>4. ((first \o k) \o stmts) \o z = (first \o ((k \o stmts) \o g)) \o w
    BY <2>2, <1>6, <1>16, SectionAfter, SMTT(30)
  <2>5. (first \o second) \o w = first \o (second \o w)
    <3>1. IsVec(second)
      BY <1>6, SectionEntered DEF second
    <3> QED
      BY <3>1, <2>2, <1>16, AssocVec
  <2> QED
    BY <2>1, <2>3, <2>4, <2>5 DEF z
<1> HIDE DEF v, e, f, opened
<1>20. Simulates(now, void, root, lps, Terminate(NewBlocks(bl, n), term), v \o Tail(u))
  <2>1. Head(u).stmt \in Statements /\ Planned(now, lps, v, EnteredIn(Tail(u)), d, d, opened)
    BY <1>1, <1>17 DEF x, after
  <2>2. now = sim \cup opened
    BY DEF now
  <2> QED
    BY <2>1, <2>2, <1>10, <1>11, <1>13, <1>17, <1>18, OpensMeans
<1> QED
  BY <1>19, <1>20 DEF n, term, then, merge, else, stmts, others, x

-----------------------------------------------------------------------------
\* A loop, and the test of it.
LEMMA IntoContinues ==
  ASSUME NEW r, NEW begins, NEW pending, Written(r, begins, pending), ~ IsTerminated(r), NEW c \in pending
  PROVE  LET term == Goto(c)
             q == Terminate(r, term)
             s == SwitchToBlock(q, c)
         IN  /\ term.kind = "Goto" /\ term.targets[1] = c
             /\ EndsWith(r, q, term) /\ Continues(q, s) /\ s.blocks = q.blocks
<1> DEFINE term == Goto(c)
           q == Terminate(r, term)
           s == SwitchToBlock(q, c)
<1>1. c \in DOMAIN r.blocks \ {EntryBlock} /\ c \notin r.finalized /\ c # r.current
  BY DEF Written, PendingOK
<1>2. TermOK(r.blocks, term) /\ term.kind = "Goto" /\ term.targets[1] = c
  BY <1>1, TermsOK
<1> HIDE DEF term
<1>3. EndsWith(r, q, term)
  BY <1>2, TermContinues
<1>4. IsBuilder(q)
  <2>1. BlocksOK(q)
    BY <1>2, TerminatedBlocks
  <2> HIDE DEF q
  <2> QED
    BY <2>1 DEF BlocksOK
<1> HIDE DEF q
<1>5. c \notin q.finalized
  BY <1>1, <1>3 DEF EndsWith
<1>6. s = [q EXCEPT !.current = c]
  BY <1>5 DEF SwitchToBlock
<1>7. s.blocks = q.blocks
  BY <1>4, <1>6, BuilderChanged
<1>8. Continues(q, s)
  BY <1>4, <1>5, SwitchContinues
<1> HIDE DEF s
<1> QED
  BY <1>2, <1>3, <1>7, <1>8 DEF s, q, term

LEMMA LoopsInsertedMean ==
  ASSUME NEW sim, NEW now, sim \subseteq now, NEW lps, NEW loop, NEW inside, loop \notin inside, inside \subseteq DOMAIN lps,
         NEW cond, NEW merge, NEW d, LoopsMean(sim, lps, d, inside)
  PROVE  LoopsMean(now, Inserted(lps, loop, cond, merge), d, inside)
<1> DEFINE lps2 == Inserted(lps, loop, cond, merge)
<1>1. \A l \in inside : lps2[l] = lps[l]
  BY DEF Inserted
<1> HIDE DEF lps2
<1>2. LoopsMean(now, lps2, d, inside)
  BY <1>1 DEF LoopsMean, LoopMeans
<1> QED
  BY <1>2 DEF lps2

RunsIn(now, lps2, inside, x, d, cond, merge) ==
  /\ x.stmt = "While" /\ x.loop \notin inside /\ IsVec(d) /\ LoopsMean(now, lps2, d, inside)
  /\ lps2[x.loop] = [begin |-> cond, end |-> merge]
  /\ <<At(cond, 1), <<x>> \o d>> \in now /\ <<At(merge, 1), d>> \in now

LEMMA LoopRuns ==
  ASSUME NEW now, NEW lps2, NEW inside, NEW x, NEW d, NEW cond, NEW merge, RunsIn(now, lps2, inside, x, d, cond, merge),
         NEW y, y.stmt \in {"While", "Test"}, LoopOf(y) = x
  PROVE  LoopsMean(now, lps2, <<y>> \o d, inside \cup {x.loop})
<1> DEFINE conf == <<y>> \o d
           c == <<x>> \o d
           loop == x.loop
<1>0. /\ x.stmt = "While" /\ loop \notin inside /\ IsVec(d) /\ LoopsMean(now, lps2, d, inside)
      /\ lps2[loop] = [begin |-> cond, end |-> merge]
      /\ <<At(cond, 1), c>> \in now /\ <<At(merge, 1), d>> \in now
  BY DEF RunsIn
<1>1. LoopsMean(now, lps2, conf, inside)
  <2>1. \A l \in inside : ~ IsLoop(y, l)
    BY <1>0 DEF IsLoop
  <2> QED
    BY <2>1, <1>0, LoopsBehindOne
<1>2. HasLoop(conf, loop) /\ FromLoop(conf, loop) = <<LoopOf(y)>> \o d
  <2>1. IsLoop(y, loop)
    BY DEF IsLoop
  <2> HIDE DEF loop
  <2> QED
    BY <2>1, <1>0, LoopInFront
<1>3. FromLoop(conf, loop) = c
  BY <1>2
<1>4. Tail(c) = d
  BY <1>0, ConsVec
<1> HIDE DEF conf, loop, c
<1>5. lps2[loop].begin = cond /\ lps2[loop].end = merge
  BY <1>0
<1>6. LoopMeans(now, conf, loop, lps2[loop])
  BY <1>0, <1>2, <1>3, <1>4, <1>5 DEF LoopMeans, c
<1>7. LoopsMean(now, lps2, conf, inside \cup {loop})
  BY <1>1, <1>6 DEF LoopsMean
<1> QED
  BY <1>7 DEF conf, loop

LEMMA DecideMeansItem ==
  ASSUME NEW sim, NEW lps, NEW w, NEW k, IsVec(k), NEW bb, NEW m,
         <<At(bb, 1), (w.body \o <<w>>) \o k>> \in sim, <<At(m, 1), k>> \in sim,
         NEW c, IsVec(c), c = <<Test(w)>> \o k, NEW after
  PROVE  LET x == Decide(w.label, bb, m)
         IN  ItemMeans(sim, lps, x, c, k, after) /\ OpenedBy(x, c, k) = {} /\ Entered(x) = {}
<1> DEFINE x == Decide(w.label, bb, m)
<1>1. x.stmt = "Decide" /\ x.label = w.label /\ x.then = bb /\ x.else = m
  BY DEF Decide
<1> HIDE DEF x
<1>2. \E y, j : /\ IsVec(j)
                /\ c = <<Test(y)>> \o j
                /\ x.label = y.label
                /\ <<At(x.then, 1), (y.body \o <<y>>) \o j>> \in sim
                /\ <<At(x.else, 1), j>> \in sim
  BY <1>1, Zenon
<1>3. ItemMeans(sim, lps, x, c, k, after) /\ OpenedBy(x, c, k) = {} /\ Entered(x) = {}
  BY <1>1, <1>2 DEF ItemMeans, OpenedBy, Statements, Entered
<1> QED
  BY <1>3 DEF x

LEMMA AssocOne ==
  ASSUME NEW u, IsVec(u), NEW x, NEW d, IsVec(d)
  PROVE  (u \o <<x>>) \o d = u \o (<<x>> \o d)
<1> DEFINE o == <<x>>
<1>1. IsVec(o)
  BY OneVec
<1> HIDE DEF o
<1>2. (u \o o) \o d = u \o (o \o d)
  BY <1>1, AssocVec
<1> QED
  BY <1>2 DEF o

\* What a loop leaves to do.
WhileItems(x, cond, body, merge) ==
  (x.setup \o <<Decide(x.label, body, merge)>>) \o (Section(body, x.body, cond) \o <<Enter(merge)>>)

WhileLeads(now, lps2, x, cond, body, merge, after, d, c, t) ==
  LET v == WhileItems(x, cond, body, merge)
  IN  /\ Planned(now, lps2, v, after, x.setup \o t, d, {<<At(body, 1), x.body \o c>>, <<At(merge, 1), d>>})
      /\ EnteredIn(v) = {body, merge}

WhileStaged(now, lists, lps2, inside, cond, body, merge, after, x, d, c, t) ==
  /\ AreScoped(lists)
  /\ LoopsInto(lps2, {merge} \cup after) = inside /\ LoopsInto(lps2, {body} \cup ({merge} \cup after)) = inside
  /\ List(x.setup, inside, GoesOn) \in lists /\ List(x.body, inside, MayJump) \in lists
  /\ IsVec(d) /\ IsVec(c) /\ IsVec(t) /\ t = <<Test(x)>> \o d
  /\ LoopsMean(now, lps2, c, inside) /\ LoopsMean(now, lps2, t, inside)
  /\ <<At(cond, 1), c>> \in now /\ <<At(body, 1), (x.body \o <<x>>) \o d>> \in now /\ <<At(merge, 1), d>> \in now

LEMMA WhilePlanned ==
  ASSUME NEW now, NEW lists, NEW lps2, NEW after, NEW inside, NEW cond, NEW body, NEW merge,
         NEW x, NEW d, NEW c, NEW t, WhileStaged(now, lists, lps2, inside, cond, body, merge, after, x, d, c, t)
  PROVE  WhileLeads(now, lps2, x, cond, body, merge, after, d, c, t)
<1> DEFINE both == {merge} \cup after
           all == {body} \cup both
           stmts == x.body
           setup == x.setup
           y == Decide(x.label, body, merge)
           z == Enter(merge)
           w == <<z>>
           section == Section(body, stmts, cond)
           end == section \o w
           g == <<y>>
           q == setup \o g
           e == setup \o t
           opened == {<<At(body, 1), stmts \o c>>, <<At(merge, 1), d>>}
<1>1. /\ AreScoped(lists) /\ List(setup, LoopsInto(lps2, all), GoesOn) \in lists
      /\ List(stmts, LoopsInto(lps2, both), MayJump) \in lists
      /\ IsVec(stmts) /\ EnteredIn(stmts) = {} /\ IsVec(setup) /\ EnteredIn(setup) = {}
  <2>1. /\ AreScoped(lists) /\ List(setup, LoopsInto(lps2, all), GoesOn) \in lists
        /\ List(stmts, LoopsInto(lps2, both), MayJump) \in lists
    BY DEF WhileStaged
  <2> QED
    BY <2>1, ListStmts
<1>2. Planned(now, lps2, end, after, d, d, opened)
  <2>1. IsVec(c) /\ IsVec(d) /\ LoopsMean(now, lps2, c, LoopsInto(lps2, both)) /\ <<At(cond, 1), c>> \in now
    BY DEF WhileStaged
  <2> HIDE DEF stmts
  <2>2. Planned(now, lps2, Section(body, stmts, cond) \o <<Enter(merge)>>, after, d, d,
                {<<At(body, 1), stmts \o c>>, <<At(merge, 1), d>>})
    BY <2>1, <1>1, PlannedEnd
  <2> QED
    BY <2>2
<1>3. IsVec(section) /\ EnteredIn(section) = {body} /\ IsVec(w) /\ EnteredIn(w) = {merge}
  <2>1. IsVec(section) /\ EnteredIn(section) = {body}
    BY <1>1, SectionEntered
  <2>2. IsVec(w) /\ EnteredIn(w) = Entered(z) /\ Entered(z) = {merge}
    BY OneVec, OneItem, ItemFields
  <2> QED
    BY <2>1, <2>2
<1> HIDE DEF section, w
<1>4. EnteredIn(end) = {body, merge}
  <2>1. EnteredIn(section \o w) = EnteredIn(section) \cup EnteredIn(w)
    BY <1>3, EnteredConcat
  <2> QED
    BY <2>1, <1>3
<1>5. /\ ItemMeans(now, lps2, y, t, d, all) /\ OpenedBy(y, t, d) = {} /\ Entered(y) = {}
  <2>1. /\ IsVec(d) /\ IsVec(t) /\ t = <<Test(x)>> \o d
        /\ <<At(body, 1), (x.body \o <<x>>) \o d>> \in now /\ <<At(merge, 1), d>> \in now
    BY DEF WhileStaged
  <2> QED
    BY <2>1, DecideMeansItem
<1> HIDE DEF y
<1>6. Planned(now, lps2, q, all, e, d, {})
  <2>1. Planned(now, lps2, setup, all, e, t, {})
    <3>1. IsVec(t) /\ LoopsMean(now, lps2, t, LoopsInto(lps2, all))
      BY DEF WhileStaged
    <3> HIDE DEF setup
    <3> QED
      BY <3>1, <1>1, PlannedList
  <2>2. g = <<y>> /\ all = Entered(y) \cup all
    BY <1>5
  <2> HIDE DEF g, setup
  <2>3. ASSUME NEW none, none = {}, Planned(now, lps2, setup, all, e, t, none)
        PROVE  Planned(now, lps2, setup \o g, all, e, d, none \cup OpenedBy(y, t, d))
    BY <2>2, <2>3, <1>5, PlannedThen
  <2>4. {} \cup OpenedBy(y, t, d) = {}
    BY <1>5
  <2> QED
    BY <2>1, <2>3, <2>4
<1>7. IsVec(q) /\ EnteredIn(q) = {}
  <2>1. IsVec(g) /\ EnteredIn(g) = {}
    BY <1>5, OneVec, OneItem
  <2> HIDE DEF g, setup
  <2>2. IsVec(setup \o g)
    BY <2>1, <1>1, ConcatVec, Zenon
  <2>3. EnteredIn(setup \o g) = EnteredIn(setup) \cup EnteredIn(g)
    BY <2>1, <1>1, EnteredConcat, Zenon
  <2> QED
    BY <2>1, <2>2, <2>3, <1>1
<1> HIDE DEF q, e, opened
<1>8. Planned(now, lps2, q \o end, after, e, d, opened) /\ EnteredIn(q \o end) = {body, merge}
  <2>1. IsVec(end)
    BY <1>2 DEF Planned
  <2>2. all = EnteredIn(end) \cup after
    BY <1>4
  <2> HIDE DEF end
  <2>3. Planned(now, lps2, q, EnteredIn(end) \cup after, e, d, {})
    BY <2>2, <1>6
  <2>4. ASSUME NEW none, none = {}, Planned(now, lps2, q, EnteredIn(end) \cup after, e, d, none)
        PROVE  Planned(now, lps2, q \o end, after, e, d, none \cup opened)
    BY <2>4, <1>2, PlannedConcat
  <2>5. {} \cup opened = opened
    OBVIOUS
  <2>6. EnteredIn(q \o end) = EnteredIn(q) \cup EnteredIn(end)
    BY <2>1, <1>7, EnteredConcat
  <2> QED
    BY <2>3, <2>4, <2>5, <2>6, <1>4, <1>7
<1> QED
  BY <1>8 DEF section, w, q, y, e, opened, WhileItems, WhileLeads

AreVecs(u, v, w) == IsVec(u) /\ IsVec(v) /\ IsVec(w)

LEMMA AssocVecs ==
  ASSUME NEW u, NEW v, NEW w, AreVecs(u, v, w)
  PROVE  (u \o v) \o w = u \o (v \o w)
BY AssocVec DEF AreVecs

Regrouped(q, e, stmts, v, w, r) == ((q \o e) \o stmts) \o r = (q \o ((e \o stmts) \o v)) \o w

LEMMA SectionAfterVecs ==
  ASSUME NEW q, NEW e, NEW stmts, NEW v, NEW w, NEW r, AreVecs(q, e, stmts), AreVecs(stmts, v, w), r = v \o w
  PROVE  Regrouped(q, e, stmts, v, w, r)
BY SectionAfter DEF AreVecs, Regrouped

WhileTodo(x, cond, body, merge) ==
  x.setup \o <<Decide(x.label, body, merge), Enter(body)>> \o x.body \o <<Close(cond), Enter(merge)>>

LEMMA WhileItemsAre ==
  ASSUME NEW x, IsVec(x.setup), IsVec(x.body), EnteredIn(x.body) = {}, NEW body, NEW cond, NEW merge
  PROVE  WhileItems(x, cond, body, merge) = WhileTodo(x, cond, body, merge)
<1> DEFINE setup == x.setup
           stmts == x.body
           y == Decide(x.label, body, merge)
           z == Enter(merge)
           section == Section(body, stmts, cond)
           v == (setup \o <<y>>) \o (section \o <<z>>)
           i == Enter(body)
           j == Close(cond)
           g == <<i>>
           h == <<j>>
           k == <<z>>
           end == <<j, z>>
           p == setup \o <<y>>
<1>1. IsVec(g) /\ IsVec(h) /\ IsVec(k) /\ end = h \o k
  BY OneVec, TwoVec
<1>2. setup \o <<y, i>> = p \o g /\ IsVec(p)
  <2> HIDE DEF i, y, setup
  <2>1. setup \o <<y, i>> = (setup \o <<y>>) \o <<i>>
    BY TwoMore DEF setup
  <2>2. IsVec(<<y>>)
    BY OneVec
  <2> QED
    BY <2>1, <2>2, ConcatVec DEF setup
<1>3. section = (g \o stmts) \o h /\ IsVec(section)
  <2>1. IsVec(section)
    BY SectionEntered
  <2> QED
    BY <2>1 DEF Section
<1>4. v = p \o (section \o k)
  OBVIOUS
<1> HIDE DEF g, h, k, end, p, section, v
<1>5. AreVecs(p, g, stmts) /\ AreVecs(stmts, h, k) /\ AreVecs(p, section, k)
  BY <1>1, <1>2, <1>3 DEF AreVecs
<1>6. end = h \o k /\ section = (g \o stmts) \o h /\ v = p \o (section \o k)
  BY <1>1, <1>3, <1>4
<1> HIDE DEF stmts
<1>7. v = ((p \o g) \o stmts) \o end
  <2>1. ((p \o g) \o stmts) \o end = (p \o ((g \o stmts) \o h)) \o k
    <3>1. AreVecs(p, g, stmts) /\ AreVecs(stmts, h, k) /\ end = h \o k
      BY <1>5, <1>6
    <3>2. Regrouped(p, g, stmts, h, k, end)
      BY <3>1, SectionAfterVecs, Zenon
    <3> QED
      BY <3>2 DEF Regrouped
  <2>2. (p \o section) \o k = p \o (section \o k)
    BY <1>5, AssocVecs
  <2> QED
    BY <2>1, <2>2, <1>6
<1>8. v = (setup \o <<y, i>>) \o stmts \o end
  BY <1>2, <1>7
<1> QED
  BY <1>8 DEF end, v, p, k, section, stmts, WhileItems, WhileTodo

LEMMA WhileMeans ==
  ASSUME NEW lists, NEW begins, NEW lps, NEW bl, NEW u, NEW sim, NEW void, NEW root, NEW c, NEW d, NEW more,
         Staged(lists, begins, lps, bl, u, sim, void, root, c, d, more), Head(u).stmt = "While"
  PROVE  LET cond == FreshBlock(bl, 1)
             body == FreshBlock(bl, 2)
             merge == FreshBlock(bl, 3)
         IN  \E now : Simulates(now, void, root, Inserted(lps, Head(u).loop, cond, merge),
                        SwitchToBlock(Terminate(NewBlocks(bl, 3), Goto(cond)), cond),
                        (Head(u).setup \o <<Decide(Head(u).label, body, merge), Enter(body)>> \o Head(u).body
                           \o <<Close(cond), Enter(merge)>>) \o Tail(u))
<1> DEFINE x == Head(u)
           after == EnteredIn(Tail(u))
           next == KindAt(Tail(u), 1, "End")
           inside == LoopsInto(lps, after)
           within == inside \cup {x.loop}
           stmts == x.body
           setup == x.setup
           l == Len(bl.blocks)
           cond == FreshBlock(bl, 1)
           body == FreshBlock(bl, 2)
           merge == FreshBlock(bl, 3)
           n == 3
           fresh == (l + 1) .. (l + n)
           both == {merge} \cup after
           all == {body} \cup both
           r == NewBlocks(bl, n)
           term == Goto(cond)
           q == Terminate(r, term)
           s == SwitchToBlock(q, cond)
           lps2 == Inserted(lps, x.loop, cond, merge)
           t == <<Test(x)>> \o d
           e == setup \o t
           f == stmts \o c
           place == At(cond, 1)
           opened == {<<At(body, 1), f>>, <<At(merge, 1), d>>}
           new == ({<<place, c>>} \cup {<<place, e>>}) \cup opened
           now == sim \cup new
           v == WhileItems(x, cond, body, merge)
<1>1. x.stmt \in Statements
  BY DEF Statements
<1>2. StmtStaged(lists, begins, lps, bl, sim, c, d, x, next, after)
  BY <1>1, StagedStatement
<1>3. x.stmt = "While" /\ AreScoped(lists)
  BY DEF Staged
<1>4. after = EnteredIn(Tail(u)) /\ x = Head(u)
  OBVIOUS
<1> HIDE DEF x, after, next
<1>5. /\ IsVec(d) /\ IsVec(c) /\ c = <<x>> \o d /\ LoopsMean(sim, lps, d, inside)
      /\ IsScopedStmt(lists, x, inside, EndBefore(next))
      /\ ~ IsTerminated(bl) /\ Written(bl, begins, after) /\ LoopsOK(lps, bl.blocks, begins)
      /\ bl.current \notin begins
  BY <1>2, <1>3 DEF StmtStaged, Straight
<1>6. x.loop \notin inside /\ List(setup, within, GoesOn) \in lists /\ List(stmts, within, MayJump) \in lists
  BY <1>3, <1>5 DEF IsScopedStmt
<1>7. IsVec(stmts) /\ EnteredIn(stmts) = {} /\ IsVec(setup) /\ EnteredIn(setup) = {}
  BY <1>3, <1>6, ListStmts
<1>8. /\ l \in Nat /\ Written(r, begins, fresh \cup after) /\ r.current = bl.current /\ ~ IsTerminated(r)
      /\ r.current \in 1 .. l
      /\ fresh \cap after = {} /\ fresh \subseteq DOMAIN r.blocks \ {EntryBlock}
      /\ \A i \in DOMAIN lps : lps[i].end \notin fresh
      /\ Continues(bl, r) /\ \A i \in fresh : r.blocks[i].stmts = <<>>
  <2>1. n \in Nat
    OBVIOUS
  <2> HIDE DEF n
  <2>2. /\ l \in Nat /\ Written(r, begins, fresh \cup after) /\ r.current = bl.current /\ ~ IsTerminated(r)
        /\ r.current \in 1 .. l
        /\ fresh \cap after = {} /\ fresh \subseteq DOMAIN r.blocks \ {EntryBlock}
        /\ \A i \in DOMAIN lps : lps[i].end \notin fresh
    BY <2>1, <1>5, FreshBlocks
  <2>3. Continues(bl, r) /\ \A i \in fresh : r.blocks[i].stmts = <<>>
    BY <2>1, <1>5, NewContinues
  <2> QED
    BY <2>2, <2>3
<1>9. fresh = {cond, body, merge}
  <2>1. cond = l + 1 /\ body = l + 2 /\ merge = l + 3
    BY DEF FreshBlock
  <2> HIDE DEF cond, body, merge, l, r
  <2> QED
    BY <2>1, <1>8
<1> HIDE DEF cond, body, merge, l, n, fresh, r
<1>10. /\ term.kind = "Goto" /\ term.targets[1] = cond
       /\ EndsWith(r, q, term) /\ Continues(q, s) /\ s.blocks = q.blocks
  <2>1. ASSUME NEW pending, pending = fresh \cup after
        PROVE  /\ term.kind = "Goto" /\ term.targets[1] = cond
               /\ EndsWith(r, q, term) /\ Continues(q, s) /\ s.blocks = q.blocks
    <3>1. Written(r, begins, pending) /\ cond \in pending
      BY <2>1, <1>8, <1>9
    <3> HIDE DEF term, q, s
    <3> QED
      BY <3>1, <1>8, IntoContinues DEF term, q, s
  <2> QED
    BY <2>1
<1>11. /\ Written(s, begins \cup {cond}, (fresh \cup after) \ {cond})
       /\ s.current = cond /\ ~ IsTerminated(s)
  <2>1. ASSUME NEW pending, pending = fresh \cup after
        PROVE  Written(s, begins \cup {cond}, pending \ {cond}) /\ s.current = cond /\ ~ IsTerminated(s)
    <3>1. Written(r, begins, pending) /\ cond \in pending
      BY <2>1, <1>8, <1>9
    <3>2. ~ IsTerminated(r) /\ r.current \notin begins
      BY <1>5, <1>8
    <3>3. s = SwitchToBlock(Terminate(r, Goto(cond)), cond)
      OBVIOUS
    <3> HIDE DEF s
    <3> QED
      BY <3>1, <3>2, <3>3, WrittenInto
  <2> QED
    BY <2>1
<1> HIDE DEF term, q, s
<1>12. Continues(bl, s) /\ EndedHere(bl, s, term)
  BY <1>5, <1>8, <1>10, EndsHere
<1>13. Continues(r, s) /\ DOMAIN s.blocks = DOMAIN r.blocks
  BY <1>10, ContinuesOn DEF EndsWith
<1>14. Here(s) = place
  <2>1. s.blocks[cond].stmts = <<>>
    BY <1>8, <1>9, <1>13 DEF Continues
  <2>2. Len(<<>>) + 1 = 1
    OBVIOUS
  <2> QED
    BY <2>1, <2>2, <1>11 DEF Here
<1>15. /\ LoopsStay(lps, lps2, after)
       /\ LoopsInto(lps2, both) = within /\ LoopsInto(lps2, all) = within
       /\ lps2[x.loop] = [begin |-> cond, end |-> merge]
  <2>1. merge \notin after /\ merge \in fresh
    BY <1>8, <1>9
  <2>2. /\ \A A \in SUBSET after : LoopsInto(lps2, A) = LoopsInto(lps, A)
        /\ \A A \in SUBSET fresh : merge \in A => LoopsInto(lps2, A \cup after) = LoopsInto(lps, after) \cup {x.loop}
    BY <2>1, <1>6, <1>8, LoopInserted
  <2>3. LoopsInto(lps2, both) = within /\ LoopsInto(lps2, all) = within
    <3>1. {merge} \in SUBSET fresh /\ {body, merge} \in SUBSET fresh
      BY <1>9
    <3>2. all = {body, merge} \cup after
      OBVIOUS
    <3> QED
      BY <3>1, <3>2, <2>2
  <2>4. ASSUME NEW A \in SUBSET after, NEW i \in LoopsInto(lps, A) PROVE lps2[i] = lps[i]
    <3>1. i \in inside /\ i \in DOMAIN lps
      BY DEF LoopsInto
    <3> QED
      BY <3>1, <1>6 DEF Inserted
  <2>5. lps2[x.loop] = [begin |-> cond, end |-> merge]
    BY DEF Inserted
  <2>6. LoopsStay(lps, lps2, after)
    BY <2>2, <2>4 DEF LoopsStay
  <2> QED
    BY <2>3, <2>5, <2>6
<1>16. LoopsMean(now, lps2, d, inside)
  <2>1. sim \subseteq now /\ inside \subseteq DOMAIN lps
    BY DEF LoopsInto
  <2> HIDE DEF now, inside
  <2> QED
    BY <2>1, <1>5, <1>6, LoopsInsertedMean
<1>17. <<place, c>> \in now /\ <<place, e>> \in now /\ <<At(body, 1), f>> \in now /\ <<At(merge, 1), d>> \in now
  OBVIOUS
<1>18. t = <<Test(x)>> \o d /\ e = setup \o t /\ f = stmts \o c /\ IsVec(t)
  BY <1>5, ConsVec
<1>19. IsVec(e) /\ IsVec(f)
  <2> HIDE DEF setup, stmts, t
  <2> QED
    BY <1>5, <1>7, <1>18, ConcatVec
<1>20. (setup \o <<Test(x)>>) \o d = e /\ (stmts \o <<x>>) \o d = f
  <2> HIDE DEF setup, stmts
  <2>1. (setup \o <<Test(x)>>) \o d = setup \o (<<Test(x)>> \o d)
    BY <1>5, <1>7, AssocOne
  <2>2. (stmts \o <<x>>) \o d = stmts \o (<<x>> \o d)
    BY <1>5, <1>7, AssocOne
  <2> QED
    BY <2>1, <2>2, <1>5
<1> HIDE DEF lps2, inside
<1>21. LoopsMean(now, lps2, c, within) /\ LoopsMean(now, lps2, t, within)
  <2>1. x.stmt \in {"While", "Test"} /\ LoopOf(x) = x
    BY <1>3 DEF LoopOf
  <2>2. Test(x).stmt \in {"While", "Test"} /\ LoopOf(Test(x)) = x
    BY DEF Test, LoopOf
  <2>3. <<At(cond, 1), <<x>> \o d>> \in now /\ <<At(merge, 1), d>> \in now
    BY <1>5, <1>17
  <2> HIDE DEF now, t
  <2>4. ASSUME NEW i, i.stmt \in {"While", "Test"}, LoopOf(i) = x
        PROVE  LoopsMean(now, lps2, <<i>> \o d, within)
    <3>1. RunsIn(now, lps2, inside, x, d, cond, merge)
      BY <2>3, <1>3, <1>5, <1>6, <1>15, <1>16 DEF RunsIn
    <3>2. within = inside \cup {x.loop}
      OBVIOUS
    <3> HIDE DEF within
    <3> QED
      BY <3>1, <3>2, <2>4, LoopRuns
  <2>5. LoopsMean(now, lps2, <<x>> \o d, within)
    BY <2>1, <2>4
  <2>6. LoopsMean(now, lps2, <<Test(x)>> \o d, within)
    BY <2>2, <2>4
  <2> QED
    BY <2>5, <2>6, <1>5, <1>18
<1> HIDE DEF t, e, f, now, within
<1>22. Planned(now, lps2, v, after, e, d, opened) /\ EnteredIn(v) = {body, merge}
  <2>1. <<At(body, 1), (x.body \o <<x>>) \o d>> \in now /\ <<At(cond, 1), c>> \in now
    BY <1>17, <1>20
  <2>2. both = {merge} \cup after /\ all = {body} \cup both
    OBVIOUS
  <2> HIDE DEF both, all
  <2>3. opened = {<<At(body, 1), x.body \o c>>, <<At(merge, 1), d>>}
    BY <1>18
  <2> HIDE DEF opened
  <2> QED
    <3>1. WhileStaged(now, lists, lps2, within, cond, body, merge, after, x, d, c, t)
      BY <2>1, <1>3, <1>5, <1>6, <1>15, <1>17, <1>18, <1>21 DEF WhileStaged, both, all
    <3>2. WhileLeads(now, lps2, x, cond, body, merge, after, d, c, t)
      BY <3>1, WhilePlanned
    <3>3. /\ Planned(now, lps2, v, after, x.setup \o t, d, {<<At(body, 1), x.body \o c>>, <<At(merge, 1), d>>})
          /\ EnteredIn(v) = {body, merge}
      BY <3>2 DEF WhileLeads
    <3> QED
      BY <3>3, <2>3, <1>18
<1> HIDE DEF place
<1>23. IsSilent(c) /\ Unfolded(c) = e
  BY <1>3, <1>5, <1>20, FirstStmt, UnfoldedStmt
<1>24. Agrees(now, void, s.blocks, s.finalized, Here(bl), c)
  <2>1. <<At(term.targets[1], 1), c>> \in now
    BY <1>10, <1>17 DEF place
  <2> QED
    BY <2>1, <1>10, <1>12, JumpAgrees
<1>25. NewStand(new, now, void, s, e, opened)
  <2>1. ASSUME NEW bb \in fresh PROVE IsPlace(s.blocks, At(bb, 1))
    BY <1>8, <1>11, <1>13, StartIsPlace
  <2>2. IsPlace(s.blocks, place)
    BY <2>1, <1>9 DEF place
  <2>3. Stands(now, void, s, e, opened, place, c)
    BY <1>17, <1>23 DEF Stands, Agrees, SourceMoves
  <2>4. Stands(now, void, s, e, opened, place, e)
    BY <1>11, <1>14 DEF Stands
  <2>5. NewStand({<<place, c>>}, now, void, s, e, opened)
    <3> HIDE DEF opened
    <3> QED
      BY <2>2, <2>3, <1>5, OneStands
  <2>6. NewStand({<<place, e>>}, now, void, s, e, opened)
    <3> HIDE DEF opened
    <3> QED
      BY <2>2, <2>4, <1>19, OneStands
  <2>7. NewStand(opened, now, void, s, e, opened)
    <3>1. ASSUME NEW pos, NEW conf, <<pos, conf>> \in opened
          PROVE  IsPlace(s.blocks, pos) /\ IsVec(conf) /\ Stands(now, void, s, e, opened, pos, conf)
      <4>1. Stands(now, void, s, e, opened, pos, conf)
        BY <3>1 DEF Stands
      <4>2. (pos = At(body, 1) /\ conf = f) \/ (pos = At(merge, 1) /\ conf = d)
        BY <3>1
      <4>3. IsPlace(s.blocks, At(body, 1)) /\ IsPlace(s.blocks, At(merge, 1))
        BY <2>1, <1>9
      <4> QED
        BY <4>1, <4>2, <4>3, <1>5, <1>19
    <3> HIDE DEF opened
    <3> QED
      BY <3>1 DEF NewStand
  <2> HIDE DEF opened
  <2>8. NewStand({<<place, c>>} \cup {<<place, e>>}, now, void, s, e, opened)
    BY <2>5, <2>6, BothStand
  <2> QED
    BY <2>7, <2>8, BothStand
<1>26. AreEmpty(s.blocks, EnteredIn(v))
  BY <1>8, <1>9, <1>13, <1>22 DEF AreEmpty, Continues
<1>27. v = WhileTodo(x, cond, body, merge)
  BY <1>7, WhileItemsAre
<1> HIDE DEF v, opened, new
<1>28. Simulates(now, void, root, lps2, s, v \o Tail(u))
  <2>1. Head(u).stmt \in Statements /\ LoopsStay(lps, lps2, EnteredIn(Tail(u)))
        /\ Planned(now, lps2, v, EnteredIn(Tail(u)), e, d, opened)
    BY <1>1, <1>4, <1>15, <1>22
  <2>2. now = sim \cup new
    BY DEF now
  <2> QED
    BY <2>1, <2>2, <1>12, <1>24, <1>25, <1>26, StmtMeansElse
<1> QED
  BY <1>27, <1>28 DEF s, q, r, n, term, lps2, cond, body, merge, stmts, setup, x, WhileTodo

-----------------------------------------------------------------------------
\* A match: what its blocks are in step with, and the values no arm covers.
MatchOpened(arms, body, diverge, merge, d) ==
  ({<<At(body + (j - 1), 1), arms[j] \o d>> : j \in 1 .. Len(arms)} \cup {<<At(diverge, 1), <<Diverges>> \o d>>})
    \cup {<<At(merge, 1), d>>}

LEMMA MatchPlanned ==
  ASSUME NEW sim, NEW lps, NEW after, NEW arms, NEW body, NEW diverge, NEW merge, NEW d, IsVec(d),
         <<At(merge, 1), d>> \in sim,
         NEW all, all = {diverge} \cup ({merge} \cup after), LoopsMean(sim, lps, d, LoopsInto(lps, all))
  PROVE  Planned(sim, lps, MatchTodo(arms, body, diverge, merge), after, d, d,
                 MatchOpened(arms, body, diverge, merge, d))
<1> DEFINE x1 == Arms(arms, body, merge)
           x2 == Enter(diverge)
           x3 == Unreachable
           x4 == Enter(merge)
           both == {merge} \cup after
           e == <<Diverges>> \o d
           o1 == {<<At(body + (j - 1), 1), arms[j] \o d>> : j \in 1 .. Len(arms)}
           o2 == {<<At(diverge, 1), e>>}
           o4 == {<<At(merge, 1), d>>}
           w1 == <<x1>>
           w2 == <<x2>>
           w3 == <<x3>>
           w4 == <<x4>>
<1>1. IsVec(e)
  BY DivergesAgrees
<1>2. \E k : IsVec(k) /\ e = <<Diverges>> \o k
  OBVIOUS
<1> HIDE DEF e
<1>3. ItemMeans(sim, lps, x1, d, d, all) /\ OpenedBy(x1, d, d) = o1
  <2>1. x1.stmt = "Arms" /\ x1.arms = arms /\ x1.body = body /\ x1.merge = merge
    BY DEF Arms
  <2> HIDE DEF x1
  <2>2. ItemMeans(sim, lps, x1, d, d, all)
    BY <2>1 DEF ItemMeans, Statements
  <2>3. OpenedBy(x1, d, d) = o1
    BY <2>1 DEF OpenedBy
  <2> QED
    BY <2>2, <2>3
<1>4. ItemMeans(sim, lps, x2, d, e, both) /\ OpenedBy(x2, d, e) = o2 /\ Entered(x2) = {diverge}
  <2>1. ItemMeans(sim, lps, x2, d, e, both) /\ OpenedBy(x2, d, e) = o2
    BY <1>1, EnterMeansItem
  <2>2. Entered(x2) = {diverge}
    BY ItemFields
  <2> QED
    BY <2>1, <2>2
<1>5. ItemMeans(sim, lps, x3, e, d, both) /\ OpenedBy(x3, e, d) = {} /\ Entered(x3) = {}
  <2>1. x3.stmt = "Unreachable"
    BY DEF Unreachable
  <2> HIDE DEF x3
  <2>2. ItemMeans(sim, lps, x3, e, d, both)
    BY <2>1, <1>1, <1>2 DEF ItemMeans, Statements
  <2>3. OpenedBy(x3, e, d) = {} /\ Entered(x3) = {}
    BY <2>1 DEF OpenedBy, Entered
  <2> QED
    BY <2>2, <2>3
<1>6. ItemMeans(sim, lps, x4, d, d, after) /\ OpenedBy(x4, d, d) = o4 /\ Entered(x4) = {merge}
  <2>1. ItemMeans(sim, lps, x4, d, d, after) /\ OpenedBy(x4, d, d) = o4
    BY EnterMeansItem
  <2>2. Entered(x4) = {merge}
    BY ItemFields
  <2> QED
    BY <2>1, <2>2
<1>7. MatchTodo(arms, body, diverge, merge) = ((w1 \o w2) \o w3) \o w4
  <2>1. MatchTodo(arms, body, diverge, merge) = <<x1, x2, x3, x4>>
    BY DEF MatchTodo
  <2> HIDE DEF x1, x2, x3, x4
  <2>2. IsFour(<<x1, x2, x3, x4>>, x1, x2, x3, x4)
    BY FourVec, Zenon
  <2> QED
    BY <2>1, <2>2, Zenon DEF IsFour
<1> HIDE DEF x1, x2, x3, x4, o1, o2, o4
<1>8. w1 = <<x1>> /\ w2 = <<x2>> /\ w3 = <<x3>> /\ w4 = <<x4>>
  OBVIOUS
<1> HIDE DEF w1, w2, w3, w4
<1>9. all = Entered(x2) \cup both /\ both = Entered(x3) \cup both /\ both = Entered(x4) \cup after
  BY <1>4, <1>5, <1>6
<1> HIDE DEF both
<1>10. Planned(sim, lps, w1, all, d, d, o1)
  BY <1>3, <1>8, PlannedOne
<1> DEFINE u2 == w1 \o w2
           u3 == u2 \o w3
<1>11. Planned(sim, lps, u2, both, d, e, o1 \cup OpenedBy(x2, d, e))
  BY <1>4, <1>8, <1>9, <1>10, PlannedThen
<1>12. Planned(sim, lps, u2, both, d, e, o1 \cup o2)
  BY <1>4, <1>11
<1> HIDE DEF u2
<1> DEFINE o12 == o1 \cup o2
<1> HIDE DEF o12
<1>13. Planned(sim, lps, u2, both, d, e, o12)
  BY <1>12 DEF o12
<1>14. Planned(sim, lps, u3, both, d, d, o12 \cup OpenedBy(x3, e, d))
  BY <1>5, <1>8, <1>9, <1>13, PlannedThen
<1>15. Planned(sim, lps, u3, both, d, d, o12)
  <2>1. o12 \cup OpenedBy(x3, e, d) = o12
    BY <1>5
  <2> HIDE DEF u3
  <2> QED
    BY <2>1, <1>14
<1> HIDE DEF u3
<1>16. Planned(sim, lps, u3 \o w4, after, d, d, o12 \cup OpenedBy(x4, d, d))
  BY <1>6, <1>8, <1>9, <1>15, PlannedThen
<1>17. o12 \cup OpenedBy(x4, d, d) = MatchOpened(arms, body, diverge, merge, d)
  BY <1>6 DEF MatchOpened, o12, o1, o2, o4, e
<1> QED
  BY <1>7, <1>16, <1>17 DEF u3, u2

\* What a match over n arms has once its blocks are made and those of its nodes ended.
MatchBlocks(bl, begins, after, tree, merge, diverge, fresh, r, term) ==
  /\ Len(bl.blocks) \in Nat
  /\ Written(r, begins, fresh \cup after) /\ r.current = bl.current /\ ~ IsTerminated(r)
  /\ fresh \subseteq DOMAIN r.blocks /\ Continues(bl, r) /\ AreEmpty(r.blocks, fresh)
  /\ \A at \in 2 .. Len(tree) :
       /\ diverge + (at - 1) \in r.finalized
       /\ r.blocks[diverge + (at - 1)] = [stmts |-> <<>>, term |-> EndOf(tree[at], merge, diverge)]
  /\ TermOK(r.blocks, term) /\ (term.kind = "Goto" => term.targets[1] \in fresh)

LEMMA MatchBuilt ==
  ASSUME NEW bl, NEW begins, NEW after, Written(bl, begins, after), ~ IsTerminated(bl),
         NEW lps, LoopsOK(lps, bl.blocks, begins), NEW n \in Nat, NEW tree, IsTree(tree, n)
  PROVE  LET merge == FreshBlock(bl, 1)
             diverge == FreshBlock(bl, n + 2)
             ends == [i \in 1 .. (Len(tree) - 1) |-> EndOf(tree[i + 1], merge, diverge)]
             fresh == (Len(bl.blocks) + 1) .. (Len(bl.blocks) + (n + 2))
             r == NewEnds(NewBlocks(bl, n + 2), ends)
             term == EndOf(tree[1], merge, diverge)
         IN  MatchBlocks(bl, begins, after, tree, merge, diverge, fresh, r, term)
<1> DEFINE l == Len(bl.blocks)
           m == n + 2
           merge == FreshBlock(bl, 1)
           diverge == FreshBlock(bl, m)
           k == Len(tree) - 1
           ends == [i \in 1 .. k |-> EndOf(tree[i + 1], merge, diverge)]
           fresh == (l + 1) .. (l + m)
           q == NewBlocks(bl, m)
           r == NewEnds(q, ends)
           term == EndOf(tree[1], merge, diverge)
<1>1. HasNodes(bl, begins, after, lps, n, k, fresh, ends, q, r, term)
  BY MatchWritten
<1>2. diverge = l + m /\ m = n + 2 /\ m \in Nat /\ fresh = (l + 1) .. (l + m)
      /\ k = Len(tree) - 1 /\ ends = [i \in 1 .. k |-> EndOf(tree[i + 1], merge, diverge)]
  BY DEF FreshBlock
<1>3. Len(tree) \in Nat \ {0}
  <2>1. IsVec(tree) /\ tree # <<>>
    BY DEF IsTree
  <2> QED
    BY <2>1, VecProps
<1>4. Continues(bl, q) /\ \A i \in fresh : q.blocks[i].stmts = <<>>
  <2> HIDE DEF m
  <2> QED
    BY <1>2, NewContinues
<1> HIDE DEF m, merge, diverge, k, fresh, q, term, ends
<1>5. /\ l \in Nat /\ IsVec(ends) /\ Len(ends) = k
      /\ Written(q, begins, fresh \cup after) /\ Len(q.blocks) = l + m
  BY <1>1, <1>2 DEF HasNodes
<1>6. /\ Continues(q, r)
      /\ \A i \in 1 .. Len(ends) : /\ Len(q.blocks) + i \in r.finalized
                                   /\ r.blocks[Len(q.blocks) + i] = [stmts |-> <<>>, term |-> ends[i]]
  BY <1>5, EndsContinue
<1> HIDE DEF r
<1>7. /\ Written(r, begins, fresh \cup after) /\ r.current = bl.current /\ ~ IsTerminated(r)
      /\ fresh \subseteq DOMAIN r.blocks
      /\ TermOK(r.blocks, term) /\ (term.kind = "Goto" => term.targets[1] \in fresh)
  BY <1>1 DEF HasNodes
<1>8. fresh \subseteq DOMAIN q.blocks
  <2>1. DOMAIN q.blocks = 1 .. (l + m)
    BY <1>5, WrittenProps
  <2> HIDE DEF l
  <2> QED
    BY <2>1, <1>2, <1>5
<1>9. Continues(bl, r) /\ AreEmpty(r.blocks, fresh)
  <2>1. Continues(bl, r)
    BY <1>4, <1>6, ContinuesOn
  <2> QED
    BY <2>1, <1>4, <1>6, <1>8 DEF Continues, AreEmpty
<1>10. ASSUME NEW at \in 2 .. Len(tree)
       PROVE  /\ diverge + (at - 1) \in r.finalized
              /\ r.blocks[diverge + (at - 1)] = [stmts |-> <<>>, term |-> EndOf(tree[at], merge, diverge)]
  <2> DEFINE i == at - 1
  <2>1. i \in 1 .. k /\ i + 1 = at /\ i = at - 1
    BY <1>2, <1>3
  <2> HIDE DEF i
  <2>2. ends[i] = EndOf(tree[at], merge, diverge)
    BY <2>1, <1>2
  <2>3. diverge + i = Len(q.blocks) + i
    BY <1>2, <1>5
  <2> QED
    BY <2>1, <2>2, <2>3, <1>5, <1>6
<1>11. MatchBlocks(bl, begins, after, tree, merge, diverge, fresh, r, term)
  BY <1>5, <1>7, <1>9, <1>10 DEF MatchBlocks
<1> QED
  BY <1>11 DEF l, m, merge, diverge, k, fresh, q, r, term, ends

\* What the blocks of the arms and of the nodes of the match x are in step with.
NodesKnown(now, x, merge, diverge, d) ==
  /\ \A arm \in 1 .. Len(x.arms) : <<At(merge + arm, 1), x.arms[arm] \o d>> \in now
  /\ <<At(diverge, 1), <<Diverges>> \o d>> \in now
  /\ \A at \in 2 .. Len(x.tree) : <<At(diverge + (at - 1), 1), <<Deciding(x, at)>> \o d>> \in now

\* A node that fails or tells cases apart, and the end of its block.
LEMMA NodeWays ==
  ASSUME NEW x, NEW n \in Nat, n = Len(x.arms), IsTree(x.tree, n), NEW d, IsVec(d),
         NEW now, NEW merge, NEW diverge, NodesKnown(now, x, merge, diverge, d), NEW void,
         NEW at \in DOMAIN x.tree, x.tree[at].node # "Leaf"
  PROVE  SameWays(now, void, EndOf(x.tree[at], merge, diverge), <<Deciding(x, at)>> \o d)
<1> DEFINE tree == x.tree
           node == tree[at]
           y == Deciding(x, at)
           conf == <<y>> \o d
           term == EndOf(node, merge, diverge)
           ways == node.ways
<1>1. y.stmt = "Deciding" /\ y.match = x /\ NodeOf(y) = node
  BY DEF Deciding, NodeOf
<1>2. \/ node.node = "Fail"
      \/ /\ node.node = "Cases" /\ IsVec(ways)
         /\ ToSet(ways) \subseteq {Uncovered} \cup ((at + 1) .. Len(tree))
  BY DEF IsTree
<1>3. at \in Nat \ {0} /\ Len(tree) \in Nat
  <2>1. IsVec(tree)
    BY DEF IsTree
  <2> QED
    BY <2>1, VecProps
<1> HIDE DEF y
<1>4. ~ IsSilent(conf)
  BY <1>1, FirstStmt
<1>5. /\ node.node = "Fail" => SourceOffer(void, conf) = Does("Diverge", "", 0)
      /\ node.node = "Cases" => SourceOffer(void, conf) = Does("Switch", node.label, Len(ways))
  BY <1>1, OfferedStmt DEF IsAt
<1>6. ASSUME NEW way, node.node = "Cases"
      PROVE  SourceAfter(conf, way) = (IF ways[way] = Uncovered THEN <<Diverges>> ELSE <<Deciding(x, ways[way])>>) \o d
  <2>1. AfterIs(y, d, way, SourceAfter(conf, way))
    BY AfterStmt
  <2> QED
    BY <2>1, <1>1, <1>6 DEF AfterIs, IsAt
<1> HIDE DEF conf
<1>7. CASE node.node = "Fail"
  <2>1. term = Diverge
    BY <1>7 DEF EndOf
  <2>2. Diverge.kind = "Diverge" /\ Diverge.label = "" /\ Diverge.targets = <<>> /\ Len(<<>>) = 0 /\ 1 .. 0 = {}
    BY DEF Diverge, Terminator
  <2> HIDE DEF term, node
  <2> QED
    BY <2>1, <2>2, <1>4, <1>5, <1>7 DEF SameWays, term, conf, y, node
<1>8. CASE node.node = "Cases"
  <2> DEFINE targets == [i \in 1 .. Len(ways) |-> IF ways[i] = Uncovered THEN diverge ELSE diverge + (ways[i] - 1)]
  <2>1. term = Switch(node.label, targets)
    BY <1>8 DEF EndOf
  <2>2. term.kind = "Switch" /\ term.label = node.label /\ term.targets = targets
    BY <2>1 DEF Switch, Terminator
  <2>3. Len(ways) \in Nat /\ \A i \in 1 .. Len(ways) : ways[i] \in ToSet(ways)
    BY <1>2, <1>8, VecProps
  <2>4. Len(targets) = Len(ways)
    <3>1. targets \in [1 .. Len(ways) -> {IF ways[i] = Uncovered THEN diverge ELSE diverge + (ways[i] - 1) : i \in 1 .. Len(ways)}]
      OBVIOUS
    <3> HIDE DEF targets
    <3> QED
      BY <3>1, <2>3, FunctionIsVec
  <2>5. ASSUME NEW way \in 1 .. Len(ways)
        PROVE  <<At(targets[way], 1), SourceAfter(conf, way)>> \in now
    <3>1. CASE ways[way] = Uncovered
      <4>1. targets[way] = diverge /\ SourceAfter(conf, way) = <<Diverges>> \o d
        BY <3>1, <1>6, <1>8
      <4> QED
        BY <4>1 DEF NodesKnown
    <3>2. CASE ways[way] # Uncovered
      <4>1. ways[way] \in 2 .. Len(tree)
        BY <3>2, <2>3, <1>2, <1>3, <1>8
      <4>2. targets[way] = diverge + (ways[way] - 1) /\ SourceAfter(conf, way) = <<Deciding(x, ways[way])>> \o d
        BY <3>2, <1>6, <1>8
      <4> QED
        BY <4>1, <4>2 DEF NodesKnown
    <3> QED
      BY <3>1, <3>2
  <2> HIDE DEF targets, term, node, ways
  <2>6. SameWays(now, void, term, conf)
    BY <2>2, <2>4, <2>5, <1>4, <1>5, <1>8 DEF SameWays
  <2> QED
    BY <2>6 DEF term, conf, y, node
<1> QED
  BY <1>2, <1>7, <1>8

\* The place where a node is lowered, and what remains of the source when it is there.
LEMMA NodeAgrees ==
  ASSUME NEW x, NEW n \in Nat, n = Len(x.arms), IsTree(x.tree, n), NEW d, IsVec(d),
         NEW now, NEW merge, NEW diverge, NodesKnown(now, x, merge, diverge, d), NEW void,
         NEW at \in DOMAIN x.tree, NEW blocks, NEW finished, NEW pos, AtEnd(blocks, finished, pos),
         blocks[pos.block].term = EndOf(x.tree[at], merge, diverge),
         x.tree[at].node = "Leaf" => <<pos, x.arms[x.tree[at].arm] \o d>> \in now
  PROVE  /\ Agrees(now, void, blocks, finished, pos, <<Deciding(x, at)>> \o d)
         /\ x.tree[at].node = "Leaf" => Agrees(now, void, blocks, finished, pos, x.arms[x.tree[at].arm] \o d)
<1> DEFINE node == x.tree[at]
           y == Deciding(x, at)
           conf == <<y>> \o d
           term == EndOf(node, merge, diverge)
<1>1. CASE node.node # "Leaf"
  <2>1. SameWays(now, void, term, conf)
    BY <1>1, NodeWays
  <2> QED
    BY <2>1, <1>1 DEF Agrees, BothEnd
<1>2. CASE node.node = "Leaf"
  <2>1. y.stmt = "Deciding" /\ y.match = x /\ NodeOf(y) = node
    BY DEF Deciding, NodeOf
  <2>2. node.arm \in 1 .. n
    BY <1>2 DEF IsTree
  <2> HIDE DEF y
  <2>3. IsSilent(conf) /\ Unfolded(conf) = x.arms[node.arm] \o d
    <3>1. IsSilent(conf)
      BY <2>1, <1>2, FirstStmt
    <3>2. Unfolded(conf) = y.match.arms[NodeOf(y).arm] \o d
      BY <2>1, UnfoldedStmt
    <3> HIDE DEF conf, node
    <3> QED
      BY <3>1, <3>2, <2>1
  <2>4. Agrees(now, void, blocks, finished, pos, conf)
    BY <2>3, <1>2 DEF Agrees, SourceMoves
  <2>5. term.kind = "Goto" /\ term.targets[1] = merge + node.arm
    BY <1>2 DEF EndOf, Goto, Terminator
  <2>6. <<At(merge + node.arm, 1), x.arms[node.arm] \o d>> \in now
    BY <2>2 DEF NodesKnown
  <2>7. Agrees(now, void, blocks, finished, pos, x.arms[node.arm] \o d)
    BY <2>5, <2>6 DEF Agrees, BodyJumps
  <2> QED
    BY <2>4, <2>7, <1>2 DEF y
<1> QED
  BY <1>1, <1>2

\* Where the nodes are lowered, the first where the match stands.
NodePlace(bl, diverge, at) == IF at = 1 THEN Here(bl) ELSE At(diverge + (at - 1), 1)

LEMMA MatchMeans ==
  ASSUME NEW lists, NEW begins, NEW lps, NEW bl, NEW u, NEW sim, NEW void, NEW root, NEW c, NEW d, NEW more,
         Staged(lists, begins, lps, bl, u, sim, void, root, c, d, more), Head(u).stmt = "Match"
  PROVE  LET arms == Head(u).arms
             tree == Head(u).tree
             n == Len(arms)
             merge == FreshBlock(bl, 1)
             diverge == FreshBlock(bl, n + 2)
             ends == [i \in 1 .. (Len(tree) - 1) |-> EndOf(tree[i + 1], merge, diverge)]
         IN  \E now : Simulates(now, void, root, lps,
                        Terminate(NewEnds(NewBlocks(bl, n + 2), ends), EndOf(tree[1], merge, diverge)),
                        <<Arms(arms, FreshBlock(bl, 2), merge), Enter(diverge), Unreachable, Enter(merge)>> \o Tail(u))
<1> DEFINE x == Head(u)
           after == EnteredIn(Tail(u))
           next == KindAt(Tail(u), 1, "End")
           arms == x.arms
           tree == x.tree
           n == Len(arms)
           l == Len(bl.blocks)
           m == n + 2
           merge == FreshBlock(bl, 1)
           body == FreshBlock(bl, 2)
           diverge == FreshBlock(bl, m)
           ends == [i \in 1 .. (Len(tree) - 1) |-> EndOf(tree[i + 1], merge, diverge)]
           fresh == (l + 1) .. (l + m)
           r == NewEnds(NewBlocks(bl, m), ends)
           term == EndOf(tree[1], merge, diverge)
           s == Terminate(r, term)
           opened == MatchOpened(arms, body, diverge, merge, d)
           leaves == {at \in DOMAIN tree : tree[at].node = "Leaf"}
           decides == {<<NodePlace(bl, diverge, at), <<Deciding(x, at)>> \o d>> : at \in DOMAIN tree}
           takes == {<<NodePlace(bl, diverge, at), arms[tree[at].arm] \o d>> : at \in leaves}
           new == opened \cup (decides \cup takes)
           now == sim \cup new
           all == {diverge} \cup ({merge} \cup after)
           v == MatchTodo(arms, body, diverge, merge)
<1>1. x.stmt \in Statements
  BY DEF Statements
<1>2. StmtStaged(lists, begins, lps, bl, sim, c, d, x, next, after)
  BY <1>1, StagedStatement
<1>3. x.stmt = "Match" /\ AreScoped(lists)
  BY DEF Staged
<1> HIDE DEF x, after, next
<1>4. /\ IsVec(d) /\ c = <<x>> \o d /\ LoopsMean(sim, lps, d, LoopsInto(lps, after))
      /\ ~ IsTerminated(bl) /\ Written(bl, begins, after) /\ LoopsOK(lps, bl.blocks, begins)
      /\ IsScopedStmt(lists, x, LoopsInto(lps, after), EndBefore(next)) /\ bl.current \notin begins
  BY <1>2, <1>3 DEF StmtStaged, Straight
<1>5. /\ IsVec(arms) /\ IsTree(tree, n)
      /\ \A arm \in ToSet(arms) : List(arm, LoopsInto(lps, after), MayJump) \in lists
  BY <1>3, <1>4 DEF IsScopedStmt
<1> HIDE DEF arms
<1>6. n \in Nat /\ \A i \in 1 .. n : arms[i] \in ToSet(arms)
  BY <1>5, VecProps
<1>7. \A i \in 1 .. n : IsVec(arms[i] \o d)
  <2>1. ASSUME NEW i \in 1 .. n PROVE IsVec(arms[i] \o d)
    <3>1. IsVec(arms[i])
      BY <1>3, <1>5, <1>6, ListStmts
    <3> QED
      BY <3>1, <1>4, ConcatVec
  <2> QED
    BY <2>1
<1>8. n = Len(x.arms) /\ tree = x.tree /\ arms = x.arms
  BY DEF arms
<1> HIDE DEF n, tree
<1>9. DOMAIN tree = 1 .. Len(tree) /\ Len(tree) \in Nat \ {0}
  <2>1. IsVec(tree) /\ tree # <<>>
    BY <1>5 DEF IsTree
  <2> QED
    BY <2>1, VecProps
<1>10. MatchBlocks(bl, begins, after, tree, merge, diverge, fresh, r, term)
  BY <1>4, <1>5, <1>6, MatchBuilt
<1>11. fresh \cap after = {} /\ LoopsInto(lps, all) = LoopsInto(lps, after)
  <2>1. m \in Nat /\ l \in Nat
    BY <1>6, <1>10 DEF MatchBlocks
  <2>2. merge = l + 1 /\ diverge = l + m /\ m \in Nat \ {0}
    BY <1>6 DEF FreshBlock
  <2> HIDE DEF m
  <2>3. AreNew(fresh, lps, NewBlocks(bl, m).blocks, after)
    BY <2>1, <1>2, FreshOnes
  <2>4. all = {diverge, merge} \cup after /\ fresh = (l + 1) .. (l + m)
    OBVIOUS
  <2> HIDE DEF all, fresh, merge, diverge, l
  <2>5. {diverge, merge} \in SUBSET fresh
    BY <2>1, <2>2, <2>4
  <2> QED
    BY <2>3, <2>4, <2>5 DEF AreNew
<1>12. /\ merge = l + 1 /\ body = l + 2 /\ diverge = l + m /\ fresh = (l + 1) .. (l + m) /\ m = n + 2
  BY DEF FreshBlock
<1> HIDE DEF l, m, merge, body, diverge, ends, fresh, r, term
<1>13. /\ l \in Nat
       /\ Written(r, begins, fresh \cup after) /\ r.current = bl.current /\ ~ IsTerminated(r)
       /\ fresh \subseteq DOMAIN r.blocks /\ Continues(bl, r) /\ AreEmpty(r.blocks, fresh)
       /\ \A at \in 2 .. Len(tree) :
            /\ diverge + (at - 1) \in r.finalized
            /\ r.blocks[diverge + (at - 1)] = [stmts |-> <<>>, term |-> EndOf(tree[at], merge, diverge)]
       /\ TermOK(r.blocks, term) /\ (term.kind = "Goto" => term.targets[1] \in fresh)
  BY <1>10 DEF MatchBlocks, l
<1>14. /\ \A i \in 1 .. n : body + (i - 1) \in fresh /\ body + (i - 1) = merge + i
       /\ merge \in fresh /\ diverge \in fresh /\ body .. (body + n - 1) \subseteq fresh
  BY <1>6, <1>12, <1>13
<1>15. EndsWith(r, s, term) /\ Written(s, begins, fresh \cup after)
  <2>1. EndsWith(r, s, term)
    BY <1>13, TermContinues
  <2>2. PICK pending : pending = fresh \cup after
    OBVIOUS
  <2>3. /\ Written(r, begins, pending)
        /\ term.kind = "Goto" => r.current \notin begins /\ term.targets[1] \in begins \cup pending
    BY <2>2, <1>4, <1>13
  <2>4. Written(s, begins, pending)
    BY <2>3, <1>13, WrittenTerm
  <2> QED
    BY <2>1, <2>2, <2>4
<1> HIDE DEF s
<1>16. Continues(r, s) /\ DOMAIN s.blocks = DOMAIN r.blocks
  BY <1>15 DEF EndsWith
<1>17. Continues(bl, s) /\ EndedHere(bl, s, term)
  BY <1>4, <1>13, <1>15, ContinuesSelf, EndsHere
<1>18. Opens(opened, fresh)
  <2>1. IsVec(<<Diverges>> \o d)
    BY <1>4, DivergesAgrees
  <2>2. ASSUME NEW pos, NEW conf, <<pos, conf>> \in opened
        PROVE  IsVec(conf) /\ \E bb \in fresh : pos = At(bb, 1)
    <3>1. CASE \E i \in 1 .. n : pos = At(body + (i - 1), 1) /\ conf = arms[i] \o d
      BY <3>1, <1>7, <1>14
    <3>2. CASE pos = At(diverge, 1) /\ conf = <<Diverges>> \o d
      BY <3>2, <2>1, <1>14
    <3>3. CASE pos = At(merge, 1) /\ conf = d
      BY <3>3, <1>4, <1>14
    <3> QED
      BY <2>2, <3>1, <3>2, <3>3 DEF MatchOpened, n
  <2> QED
    BY <2>2 DEF Opens
<1>19. /\ \A i \in 1 .. n : <<At(merge + i, 1), arms[i] \o d>> \in opened
       /\ <<At(diverge, 1), <<Diverges>> \o d>> \in opened /\ <<At(merge, 1), d>> \in opened
  BY <1>14 DEF MatchOpened, n
<1>20. Planned(now, lps, v, after, d, d, opened)
  <2>1. LoopsMean(now, lps, d, LoopsInto(lps, all))
    BY <1>4, <1>11, LoopsMeanMore
  <2>2. <<At(merge, 1), d>> \in now
    BY <1>19
  <2>3. all = {diverge} \cup ({merge} \cup after)
    OBVIOUS
  <2> HIDE DEF all, now
  <2> QED
    BY <2>1, <2>2, <2>3, <1>4, MatchPlanned
<1>21. EnteredIn(v) \subseteq fresh
  <2>1. EnteredIn(v) = (body .. (body + n - 1)) \cup {diverge, merge}
    BY MatchEntered DEF n
  <2> HIDE DEF v
  <2> QED
    BY <2>1, <1>14
<1> HIDE DEF all, v
<1>22. AreEmpty(s.blocks, EnteredIn(v))
  BY <1>13, <1>16, <1>21 DEF AreEmpty, Continues
<1> HIDE DEF opened
<1>23. \A at \in DOMAIN tree :
         /\ <<NodePlace(bl, diverge, at), <<Deciding(x, at)>> \o d>> \in now
         /\ tree[at].node = "Leaf" => <<NodePlace(bl, diverge, at), arms[tree[at].arm] \o d>> \in now
  OBVIOUS
<1>24. NodesKnown(now, x, merge, diverge, d)
  <2>1. \A i \in 1 .. n : <<At(merge + i, 1), arms[i] \o d>> \in now
    BY <1>19
  <2>2. <<At(diverge, 1), <<Diverges>> \o d>> \in now
    BY <1>19
  <2>3. ASSUME NEW at \in 2 .. Len(tree)
        PROVE  <<At(diverge + (at - 1), 1), <<Deciding(x, at)>> \o d>> \in now
    <3>1. at \in DOMAIN tree /\ at # 1
      BY <1>9
    <3>2. NodePlace(bl, diverge, at) = At(diverge + (at - 1), 1)
      BY <3>1 DEF NodePlace
    <3> HIDE DEF now
    <3> QED
      BY <3>1, <3>2, <1>23
  <2> HIDE DEF now
  <2> QED
    BY <2>1, <2>2, <2>3, <1>8 DEF NodesKnown
<1> HIDE DEF now
<1>25. ASSUME NEW at \in DOMAIN tree
       PROVE  /\ IsPlace(s.blocks, NodePlace(bl, diverge, at))
              /\ AtEnd(s.blocks, s.finalized, NodePlace(bl, diverge, at))
              /\ s.blocks[NodePlace(bl, diverge, at).block].term = EndOf(tree[at], merge, diverge)
  <2> DEFINE place == NodePlace(bl, diverge, at)
  <2>1. CASE at = 1
    <3>1. place = Here(bl) /\ Here(bl).block = bl.current
      BY <2>1, AtFields DEF NodePlace, Here
    <3>2. IsPlace(s.blocks, Here(bl))
      <4>1. IsPlace(bl.blocks, Here(bl)) /\ Grows(bl, s)
        BY <1>4, <1>17, HereIsPlace, ContinuesGrows
      <4> QED
        BY <4>1, PlacesGrow
    <3>3. term = EndOf(tree[at], merge, diverge)
      BY <2>1 DEF term
    <3> HIDE DEF place
    <3> QED
      BY <3>1, <3>2, <3>3, <1>17 DEF EndedHere, place
  <2>2. CASE at # 1
    <3> DEFINE i == diverge + (at - 1)
    <3>1. at \in 2 .. Len(tree)
      BY <2>2, <1>9
    <3>2. i \in r.finalized /\ r.blocks[i] = [stmts |-> <<>>, term |-> EndOf(tree[at], merge, diverge)]
      BY <3>1, <1>13
    <3> HIDE DEF i
    <3>3. i \in DOMAIN s.blocks
      <4>1. i \in DOMAIN r.blocks
        BY <3>2, <1>13, WrittenProps
      <4> QED
        BY <4>1, <1>16
    <3>4. place = At(i, 1) /\ place.block = i /\ place.line = 1
      BY <2>2, AtFields DEF NodePlace, i
    <3>5. IsPlace(s.blocks, At(i, 1))
      BY <3>3, <1>15, StartIsPlace
    <3>6. i \in s.finalized /\ s.blocks[i] = [stmts |-> <<>>, term |-> EndOf(tree[at], merge, diverge)]
      BY <3>2, <1>16 DEF Continues
    <3> HIDE DEF place
    <3>7. AtEnd(s.blocks, s.finalized, place) /\ s.blocks[place.block].term = EndOf(tree[at], merge, diverge)
      <4>1. Len(<<>>) + 1 = 1
        OBVIOUS
      <4>2. s.blocks[i].stmts = <<>> /\ s.blocks[i].term = EndOf(tree[at], merge, diverge)
        BY <3>6
      <4> QED
        BY <4>1, <4>2, <3>4, <3>6 DEF AtEnd
    <3> QED
      BY <3>4, <3>5, <3>7 DEF place
  <2> QED
    BY <2>1, <2>2
<1>26. ASSUME NEW at \in DOMAIN tree
       PROVE  LET pos == NodePlace(bl, diverge, at)
              IN  /\ Agrees(now, void, s.blocks, s.finalized, pos, <<Deciding(x, at)>> \o d)
                  /\ tree[at].node = "Leaf" => Agrees(now, void, s.blocks, s.finalized, pos, arms[tree[at].arm] \o d)
  <2>1. at \in DOMAIN x.tree /\ IsTree(x.tree, n)
    BY <1>5, <1>8
  <2>2. PICK pos : pos = NodePlace(bl, diverge, at)
    OBVIOUS
  <2>3. /\ AtEnd(s.blocks, s.finalized, pos) /\ s.blocks[pos.block].term = EndOf(x.tree[at], merge, diverge)
        /\ x.tree[at].node = "Leaf" => <<pos, x.arms[x.tree[at].arm] \o d>> \in now
    BY <2>2, <1>8, <1>23, <1>25
  <2>4. /\ Agrees(now, void, s.blocks, s.finalized, pos, <<Deciding(x, at)>> \o d)
        /\ x.tree[at].node = "Leaf" => Agrees(now, void, s.blocks, s.finalized, pos, x.arms[x.tree[at].arm] \o d)
    BY <2>1, <2>3, <1>4, <1>6, <1>8, <1>24, NodeAgrees
  <2> QED
    BY <2>2, <2>4, <1>8
<1>27. Agrees(now, void, s.blocks, s.finalized, Here(bl), c)
  <2>1. IsSilent(c) /\ Unfolded(c) = <<Deciding(x, 1)>> \o d
    BY <1>3, <1>4, FirstStmt, UnfoldedStmt
  <2>2. 1 \in DOMAIN tree /\ NodePlace(bl, diverge, 1) = Here(bl)
    BY <1>9 DEF NodePlace
  <2> QED
    BY <2>1, <2>2, <1>23 DEF Agrees, SourceMoves
<1>28. NewStand(opened, now, void, s, d, opened)
  <2>1. ASSUME NEW pos, NEW conf, <<pos, conf>> \in opened
        PROVE  IsPlace(s.blocks, pos) /\ IsVec(conf) /\ Stands(now, void, s, d, opened, pos, conf)
    <3>1. IsVec(conf) /\ \E bb \in fresh : pos = At(bb, 1)
      BY <2>1, <1>18 DEF Opens
    <3>2. PICK bb \in fresh : pos = At(bb, 1)
      BY <3>1
    <3>3. IsPlace(s.blocks, At(bb, 1))
      BY <1>13, <1>15, <1>16, StartIsPlace
    <3> QED
      BY <2>1, <3>1, <3>2, <3>3 DEF Stands
  <2> QED
    BY <2>1 DEF NewStand
<1>29. NewStand(decides, now, void, s, d, opened)
  <2>1. ASSUME NEW pos, NEW conf, <<pos, conf>> \in decides
        PROVE  IsPlace(s.blocks, pos) /\ IsVec(conf) /\ Stands(now, void, s, d, opened, pos, conf)
    <3>1. PICK at \in DOMAIN tree : pos = NodePlace(bl, diverge, at) /\ conf = <<Deciding(x, at)>> \o d
      BY <2>1
    <3>2. IsVec(conf)
      BY <3>1, <1>4, ConsVec
    <3> QED
      BY <3>1, <3>2, <1>25, <1>26 DEF Stands
  <2> QED
    BY <2>1 DEF NewStand
<1>30. NewStand(takes, now, void, s, d, opened)
  <2>1. ASSUME NEW pos, NEW conf, <<pos, conf>> \in takes
        PROVE  IsPlace(s.blocks, pos) /\ IsVec(conf) /\ Stands(now, void, s, d, opened, pos, conf)
    <3>1. PICK at \in DOMAIN tree : /\ pos = NodePlace(bl, diverge, at) /\ conf = arms[tree[at].arm] \o d
                                    /\ tree[at].node = "Leaf"
      BY <2>1
    <3>2. tree[at].arm \in 1 .. n
      BY <3>1, <1>5 DEF IsTree
    <3> QED
      BY <3>1, <3>2, <1>7, <1>25, <1>26 DEF Stands
  <2> QED
    BY <2>1 DEF NewStand
<1>31. NewStand(new, now, void, s, d, opened)
  <2>1. NewStand(decides \cup takes, now, void, s, d, opened)
    BY <1>29, <1>30, BothStand
  <2> HIDE DEF decides, takes
  <2> QED
    BY <2>1, <1>28, BothStand
<1>32. Simulates(now, void, root, lps, s, v \o Tail(u))
  <2>1. Head(u).stmt \in Statements /\ Planned(now, lps, v, EnteredIn(Tail(u)), d, d, opened)
    BY <1>1, <1>20 DEF x, after
  <2>2. LoopsStay(lps, lps, EnteredIn(Tail(u))) /\ now = sim \cup new
    BY DEF LoopsStay, now
  <2> HIDE DEF new
  <2> QED
    BY <2>1, <2>2, <1>17, <1>22, <1>27, <1>31, StmtMeansElse
<1> QED
  BY <1>32 DEF v, MatchTodo, s, r, m, n, term, body, merge, diverge, arms, tree, ends, x

LEMMA ArmsMeans ==
  ASSUME NEW lists, NEW begins, NEW lps, NEW bl, NEW u, NEW sim, NEW void, NEW root, NEW c, NEW d, NEW more,
         Staged(lists, begins, lps, bl, u, sim, void, root, c, d, more), Head(u).stmt = "Arms"
  PROVE  LET arms == Head(u).arms
             body == Head(u).body
             merge == Head(u).merge
         IN  \E now : Simulates(now, void, root, lps, bl,
                        (IF arms = <<>> THEN <<>>
                         ELSE <<Enter(body)>> \o Head(arms) \o <<Close(merge), Arms(Tail(arms), body + 1, merge)>>)
                          \o Tail(u))
<1> DEFINE x == Head(u)
           after == EnteredIn(Tail(u))
           next == KindAt(Tail(u), 1, "End")
           arms == x.arms
           body == x.body
           merge == x.merge
           later == Tail(arms)
           stmts == Head(arms)
           y == Arms(later, body + 1, merge)
           w == <<y>>
           section == Section(body, stmts, merge)
           v == section \o w
           gone == OpenedBy(x, c, d)
<1>1. /\ IsVec(c) /\ IsVec(d) /\ Taken(lists, begins, lps, bl, u, x, next, after)
      /\ ItemMeans(sim, lps, x, c, d, after)
      /\ Written(bl, begins, Entered(x) \cup after)
      /\ IF IsTerminated(bl) THEN x.stmt \in {"Enter", "Arms", "Close"} ELSE x.stmt \notin {"Enter", "Arms"}
      /\ AreEmpty(bl.blocks, Entered(x) \cup after)
  BY StagedProps
<1>2. /\ AreScoped(lists) /\ ArePlaces(sim, bl.blocks) /\ x.stmt = "Arms"
      /\ HeadMeans(sim, void, root, lps, bl, u, c, d, more)
  BY DEF Staged, HeadMeans
<1> HIDE DEF x, after, next
<1>3. /\ body \in Nat /\ merge \in after /\ IsVec(arms)
      /\ Entered(x) \cap after = {}
      /\ \A l \in DOMAIN lps : lps[l].end \notin Entered(x)
      /\ \A arm \in ToSet(arms) : List(arm, LoopsInto(lps, after), MayJump) \in lists
  BY <1>1, <1>2 DEF Taken, ItemOK, Statements
<1>4. /\ Entered(x) = body .. (body + Len(arms) - 1)
      /\ gone = {<<At(body + (j - 1), 1), arms[j] \o c>> : j \in 1 .. Len(arms)}
      /\ <<At(merge, 1), c>> \in sim /\ LoopsMean(sim, lps, c, LoopsInto(lps, after))
  BY <1>1, <1>2 DEF Entered, OpenedBy, ItemMeans
<1>5. IsTerminated(bl)
  BY <1>1, <1>2
<1>6. Grows(bl, bl)
  BY <1>1, ContinuesSelf, ContinuesGrows
<1> HIDE DEF arms, body, merge, gone
<1>7. ASSUME NEW e, NEW opened, gone \subseteq opened
      PROVE  Justified(sim, sim, void, bl, c, gone, bl, e, opened)
  BY <1>2, <1>5, <1>7 DEF Justified, ArePlaces, Stands
<1>8. CASE arms = <<>>
  <2>1. gone = {}
    <3>1. Len(<<>>) = 0 /\ 1 .. 0 = {}
      OBVIOUS
    <3> QED
      BY <3>1, <1>4, <1>8
  <2>2. ASSUME NEW none, none = {} PROVE Justified(sim, sim, void, bl, c, gone, bl, d, none)
    BY <2>1, <1>7
  <2>3. AreEmpty(bl.blocks, after)
    BY <1>1 DEF AreEmpty
  <2>4. Simulates(sim, void, root, lps, bl, <<>> \o Tail(u))
    BY <2>2, <2>3, <1>6, MeansNothingElse DEF gone, x, after
  <2> QED
    BY <2>4, <1>8 DEF arms, x
<1>9. CASE arms # <<>>
  <2>1. /\ IsVec(later) /\ Len(arms) \in Nat \ {0} /\ Len(later) = Len(arms) - 1
        /\ stmts = arms[1] /\ \A i \in 1 .. Len(later) : later[i] = arms[i + 1]
    BY <1>3, <1>9, TailVec
  <2> HIDE DEF later, stmts
  <2>2. stmts \in ToSet(arms)
    <3>1. 1 \in DOMAIN arms
      BY <2>1, <1>3, VecProps
    <3> QED
      BY <3>1, <2>1 DEF ToSet
  <2>3. /\ y.stmt = "Arms" /\ y.arms = later /\ y.body = body + 1 /\ y.merge = merge
        /\ Entered(y) = (body + 1) .. (body + 1 + Len(later) - 1)
    BY DEF Arms, Entered
  <2> HIDE DEF y
  <2>4. Entered(x) = {body} \cup Entered(y)
    <3>1. \A i : i \in Entered(x) <=> i = body \/ i \in Entered(y)
      BY <2>1, <2>3, <1>3, <1>4
    <3> QED
      BY <3>1
  <2> DEFINE both == Entered(y) \cup after
             first == {<<At(body, 1), stmts \o c>>}
             others == OpenedBy(y, c, d)
  <2>5. LoopsInto(lps, both) = LoopsInto(lps, after)
    BY <2>4, <1>3, LoopsIntoMore
  <2>6. IsVec(stmts) /\ EnteredIn(stmts) = {}
    BY <2>2, <1>2, <1>3, ListStmts
  <2>7. IsVec(section) /\ EnteredIn(section) = {body}
    BY <2>6, SectionEntered
  <2> HIDE DEF both
  <2>8. Planned(sim, lps, section, both, c, c, first)
    <3>1. List(stmts, LoopsInto(lps, both), MayJump) \in lists /\ LoopsMean(sim, lps, c, LoopsInto(lps, both))
      BY <2>2, <2>5, <1>3, <1>4
    <3> QED
      BY <3>1, <1>1, <1>2, <1>4, PlannedSection
  <2>9. ItemMeans(sim, lps, y, c, d, after)
    BY <2>3, <1>1, <1>4 DEF ItemMeans, Statements
  <2>10. others = {<<At((body + 1) + (j - 1), 1), later[j] \o c>> : j \in 1 .. Len(later)}
    BY <2>3 DEF OpenedBy
  <2>11. w = <<y>> /\ both = Entered(y) \cup after
    BY DEF both
  <2> HIDE DEF section, w, first, others
  <2>12. Planned(sim, lps, v, after, c, d, first \cup others)
    BY <2>8, <2>9, <2>11, PlannedThen DEF others
  <2>13. EnteredIn(v) = Entered(x)
    <3>1. EnteredIn(v) = EnteredIn(section) \cup Entered(y)
      BY <2>7, <2>11, EnteredThen
    <3> QED
      BY <3>1, <2>4, <2>7
  <2>14. gone \subseteq first \cup others
    <3>1. ASSUME NEW j \in 1 .. Len(arms) PROVE <<At(body + (j - 1), 1), arms[j] \o c>> \in first \cup others
      <4>1. CASE j = 1
        <5>1. body + (j - 1) = body /\ arms[j] = stmts
          BY <4>1, <2>1, <1>3
        <5> QED
          BY <5>1 DEF first
      <4>2. CASE j # 1
        <5> DEFINE k == j - 1
        <5>1. k \in 1 .. Len(later) /\ (body + 1) + (k - 1) = body + (j - 1) /\ arms[j] = later[k]
          BY <4>2, <2>1, <1>3
        <5> HIDE DEF k
        <5> QED
          BY <5>1, <2>10
      <4> QED
        BY <4>1, <4>2
    <3> QED
      BY <3>1, <1>4
  <2>15. v = <<Enter(body)>> \o stmts \o <<Close(merge), y>>
    <3> DEFINE e == <<Enter(body)>>
               p == e \o stmts
               f == Close(merge)
    <3>1. IsVec(e)
      BY OneVec
    <3> HIDE DEF e, f
    <3>2. IsVec(p)
      BY <3>1, <2>6, ConcatVec
    <3> HIDE DEF p
    <3>3. p \o <<f, y>> = (p \o <<f>>) \o <<y>>
      BY <3>2, TwoMore
    <3> QED
      BY <3>3 DEF p, f, e, section, w, Section
  <2> HIDE DEF v
  <2> DEFINE opened == first \cup others
  <2> HIDE DEF opened
  <2>16. Planned(sim, lps, v, after, c, d, opened)
    BY <2>12 DEF opened
  <2>17. Justified(sim, sim, void, bl, c, gone, bl, c, opened)
    BY <2>14, <1>7 DEF opened
  <2>18. AreEmpty(bl.blocks, EnteredIn(v) \cup after)
    BY <2>13, <1>1
  <2>19. LoopsStay(lps, lps, after)
    BY DEF LoopsStay
  <2>20. Simulates(sim, void, root, lps, bl, v \o Tail(u))
    BY <2>16, <2>17, <2>18, <2>19, <1>2, <1>6, MeansBack DEF gone, x, after
  <2> QED
    BY <2>15, <2>20, <1>9 DEF y, stmts, later, body, merge, arms, x
<1> QED
  BY <1>8, <1>9

-----------------------------------------------------------------------------
\* From the first statement to the finished body.
LEMMA NothingBehind ==
  ASSUME NEW v, IsVec(v)
  PROVE  v \o <<>> = v
<1> DEFINE S == ToSet(v)
<1>1. v \in Seq(S)
  BY DEF IsVec
<1> HIDE DEF S
<1> QED
  BY <1>1, ConcatEmptySeq

LEMMA StartsMean ==
  ASSUME NEW lists, AreScoped(lists), NEW stmts, List(stmts, {}, GoesOn) \in lists, NEW void
  PROVE  \E sim : Simulates(sim, void, stmts, <<>>, NewBuilder, stmts)
<1> DEFINE r == NewBuilder
           sim == {<<At(EntryBlock, 1), stmts>>}
<1>1. LowerOK(lists, {}, <<>>, r, stmts)
  BY StartsOK
<1>2. r.current = EntryBlock /\ r.blocks = <<EmptyBlock>> /\ r.finalized = {}
  BY DEF NewBuilder
<1> HIDE DEF r
<1>3. IsVec(stmts) /\ EnteredIn(stmts) = {}
  BY ListStmts
<1>4. /\ EntryBlock \in DOMAIN r.blocks /\ r.blocks[EntryBlock].stmts = <<>>
  <2> DEFINE v == <<EmptyBlock>>
  <2>1. DOMAIN v = {1} /\ v[1] = EmptyBlock
    BY OneVec
  <2> HIDE DEF v
  <2>2. EmptyBlock.stmts = <<>>
    BY DEF EmptyBlock
  <2> QED
    BY <2>1, <2>2, <1>2 DEF v, EntryBlock
<1>5. ~ IsTerminated(r) /\ Here(r) = At(EntryBlock, 1)
  <2>1. Len(<<>>) + 1 = 1
    OBVIOUS
  <2> QED
    BY <2>1, <1>2, <1>4 DEF IsTerminated, Here
<1>6. IsPlace(r.blocks, At(EntryBlock, 1))
  BY <1>1, <1>4, StartIsPlace DEF LowerOK
<1>7. ASSUME NEW lps, DOMAIN lps = {}, NEW none, none = {}, NEW nothing, nothing = <<>>
      PROVE  Planned(sim, lps, stmts, none, stmts, nothing, none)
  <2>1. LoopsInto(lps, none) = none
    BY <1>7 DEF LoopsInto
  <2>2. LoopsMean(sim, lps, nothing, LoopsInto(lps, none))
    BY <2>1, <1>7 DEF LoopsMean
  <2>3. IsVec(nothing) /\ List(stmts, LoopsInto(lps, none), GoesOn) \in lists
    BY <2>1, <1>7, EmptyIsVec
  <2> HIDE DEF sim
  <2>4. Planned(sim, lps, stmts, none, stmts \o nothing, nothing, {})
    BY <2>2, <2>3, PlannedList
  <2>5. stmts \o nothing = stmts
    BY <1>3, <1>7, NothingBehind
  <2> QED
    BY <2>4, <2>5, <1>7
<1>8. AllStand(sim, void, r, stmts, {})
  BY <1>5 DEF AllStand, Stands
<1>9. ArePlaces(sim, r.blocks) /\ AreEmpty(r.blocks, EnteredIn(stmts)) /\ <<At(EntryBlock, 1), stmts>> \in sim
  BY <1>3, <1>6 DEF ArePlaces, AreEmpty
<1> HIDE DEF sim
<1>10. Planned(sim, <<>>, stmts, {}, stmts, <<>>, {})
  <2>1. ASSUME NEW lps, lps = <<>> PROVE DOMAIN lps = {}
    BY <2>1
  <2> QED
    BY <2>1, <1>7
<1>11. Simulates(sim, void, stmts, <<>>, r, stmts)
  BY <1>8, <1>9, <1>10 DEF Simulates
<1> QED
  BY <1>11 DEF r

\* A finished body, all of which is in step with the source.
Follows(sim, void, blocks, root) ==
  /\ <<At(EntryBlock, 1), root>> \in sim
  /\ ArePlaces(sim, blocks)
  /\ \A pos, conf : <<pos, conf>> \in sim => Agrees(sim, void, blocks, DOMAIN blocks, pos, conf)

LEMMA FinishMeans ==
  ASSUME NEW lists, NEW begins, NEW lps, NEW bl, LowerOK(lists, begins, lps, bl, <<>>),
         NEW sim, NEW void, NEW root, Simulates(sim, void, root, lps, bl, <<>>)
  PROVE  LET s == IF IsTerminated(bl) THEN bl
                  ELSE Terminate(bl, IF void THEN Return("") ELSE Diverge)
         IN  Follows(sim, void, s.blocks, root)
<1>1. Written(bl, begins, {})
  <2>1. EnteredIn(<<>>) = {}
    BY DEF EnteredIn
  <2> QED
    BY <2>1 DEF LowerOK
<1>2. AllStand(sim, void, bl, <<>>, {})
  <2>1. PICK c, opens : Planned(sim, lps, <<>>, {}, c, <<>>, opens) /\ AllStand(sim, void, bl, c, opens)
    BY DEF Simulates
  <2>2. ASSUME NEW u, DOMAIN u = {}, Len(u) + 1 = 1, NEW e, Planned(sim, lps, u, {}, c, e, opens)
        PROVE  c = e /\ opens = {}
    BY <2>2 DEF Planned, OpenedIn
  <2>3. DOMAIN <<>> = {} /\ Len(<<>>) + 1 = 1
    OBVIOUS
  <2>4. c = <<>> /\ opens = {}
    BY <2>1, <2>2, <2>3
  <2> QED
    BY <2>1, <2>4
<1>3. <<At(EntryBlock, 1), root>> \in sim /\ ArePlaces(sim, bl.blocks)
  BY DEF Simulates
<1>4. CASE IsTerminated(bl)
  <2>1. bl.finalized = DOMAIN bl.blocks
    BY <1>1, <1>4, FinishedIsWellFormed DEF CanFinalize
  <2>2. ASSUME NEW pos, NEW conf, <<pos, conf>> \in sim
        PROVE  Agrees(sim, void, bl.blocks, DOMAIN bl.blocks, pos, conf)
    BY <2>1, <2>2, <1>2, <1>4 DEF AllStand, Stands
  <2>3. Follows(sim, void, bl.blocks, root)
    BY <2>2, <1>3 DEF Follows
  <2> QED
    BY <2>3, <1>4
<1>5. CASE ~ IsTerminated(bl)
  <2> DEFINE term == IF void THEN Return("") ELSE Diverge
             s == Terminate(bl, term)
  <2>1. TermOK(bl.blocks, term) /\ term.kind # "Goto"
    BY EndsOK
  <2>2. SameWays(sim, void, term, <<>>)
    <3>1. ~ IsSilent(<<>>) /\ SourceOffer(void, <<>>) = Does(IF void THEN "Return" ELSE "Diverge", "", 0)
      BY DEF IsSilent, SourceOffer
    <3>2. term.kind = (IF void THEN "Return" ELSE "Diverge") /\ term.label = "" /\ term.targets = <<>>
      BY DEF Return, Diverge, Terminator
    <3>3. Len(<<>>) = 0 /\ 1 .. 0 = {}
      OBVIOUS
    <3> HIDE DEF term
    <3> QED
      BY <3>1, <3>2, <3>3, <2>1 DEF SameWays
  <2> HIDE DEF term
  <2>3. EndsWith(bl, s, term)
    BY <2>1, <1>1, <1>5, TermContinues
  <2>4. s.finalized = DOMAIN s.blocks
    <3>1. Written(s, begins, {}) /\ s.current = bl.current /\ s.finalized = bl.finalized \cup {bl.current}
      BY <1>1, <1>5, <2>1, WrittenTerm
    <3> HIDE DEF s
    <3>2. IsTerminated(s)
      BY <3>1 DEF IsTerminated
    <3> QED
      BY <3>1, <3>2, FinishedIsWellFormed DEF CanFinalize
  <2> HIDE DEF s
  <2>5. Continues(bl, s) /\ EndedHere(bl, s, term)
    BY <2>3, <1>1, ContinuesSelf, EndsHere
  <2>6. Grows(bl, s)
    BY <2>5, <1>1, ContinuesGrows
  <2>7. ASSUME NEW pos, NEW conf, <<pos, conf>> \in sim
        PROVE  Agrees(sim, void, s.blocks, DOMAIN s.blocks, pos, conf) /\ IsPlace(s.blocks, pos) /\ IsVec(conf)
    <3>1. IsPlace(bl.blocks, pos) /\ IsVec(conf)
      BY <2>7, <1>3 DEF ArePlaces
    <3>2. IsPlace(s.blocks, pos)
      BY <3>1, <2>6, PlacesGrow
    <3>3. Agrees(sim, void, bl.blocks, bl.finalized, pos, conf) \/ (pos = Here(bl) /\ conf = <<>>)
      BY <2>7, <1>2 DEF AllStand, Stands
    <3>4. CASE Agrees(sim, void, bl.blocks, bl.finalized, pos, conf)
      <4>1. sim \subseteq sim
        OBVIOUS
      <4>2. Agrees(sim, void, s.blocks, s.finalized, pos, conf)
        BY <4>1, <3>1, <3>4, <2>6, AgreesMore
      <4> QED
        BY <4>2, <3>1, <3>2, <2>4
    <3>5. CASE pos = Here(bl) /\ conf = <<>>
      <4>1. Agrees(sim, void, s.blocks, s.finalized, Here(bl), <<>>)
        BY <2>2, <2>5, EndAgrees
      <4> QED
        BY <4>1, <3>1, <3>2, <3>5, <2>4
    <3> QED
      BY <3>3, <3>4, <3>5
  <2>8. Follows(sim, void, s.blocks, root)
    BY <2>7, <1>3 DEF Follows, ArePlaces
  <2> QED
    BY <2>8, <1>5 DEF s, term
<1> QED
  BY <1>4, <1>5

-----------------------------------------------------------------------------
\* The finished body and the source run along.  Where a place leads by jumps, the
\* source goes on silently, or both do the same.
Acts(sim, void, blocks, pos, conf) ==
  \/ SourceMoves(sim, pos, conf)
  \/ BothAct(sim, blocks, pos, conf)
  \/ BothEnd(sim, void, blocks, DOMAIN blocks, pos, conf)

Leads(sim, void, blocks, pos, conf) ==
  \E p : /\ IsPlace(blocks, p)
         /\ Acts(sim, void, blocks, p, conf)
         /\ Settle(blocks, p) = Settle(blocks, pos)

LEMMA WellFormedCloses ==
  ASSUME NEW blocks, IsWellFormed(blocks)
  PROVE  /\ Closed(blocks)
         /\ \A pos : IsPlace(blocks, pos) => pos \in Positions(blocks)
<1>1. \A i \in DOMAIN blocks : Len(blocks[i].stmts) \in Nat
  BY VecProps DEF IsWellFormed
<1>2. ASSUME NEW i \in DOMAIN blocks, blocks[i].term.kind = "Goto" PROVE blocks[i].term.targets[1] \in DOMAIN blocks
  <2>1. IsVec(blocks[i].term.targets) /\ ToSet(blocks[i].term.targets) \subseteq DOMAIN blocks
        /\ Len(blocks[i].term.targets) = 1
    BY <1>2 DEF IsWellFormed
  <2>2. blocks[i].term.targets[1] \in ToSet(blocks[i].term.targets)
    BY <2>1, VecProps
  <2> QED
    BY <2>1, <2>2
<1>3. Closed(blocks)
  BY <1>1, <1>2, ClosedWhen
<1>4. ASSUME NEW pos, IsPlace(blocks, pos) PROVE pos \in Positions(blocks)
  BY <1>4 DEF IsPlace, Positions
<1> QED
  BY <1>3, <1>4

LEMMA FollowsAlong ==
  ASSUME NEW blocks, IsWellFormed(blocks), NEW sim, NEW void, NEW root, Follows(sim, void, blocks, root),
         NEW pos, NEW conf, <<pos, conf>> \in sim
  PROVE  Leads(sim, void, blocks, pos, conf)
<1> DEFINE IsGoto(j) == blocks[j].term.kind = "Goto"
           target(j) == blocks[j].term.targets[1]
           Bad == {j \in DOMAIN blocks : <<At(j, 1), conf>> \in sim /\ ~ Leads(sim, void, blocks, At(j, 1), conf)}
<1>1. Closed(blocks) /\ \A p : IsPlace(blocks, p) => p \in Positions(blocks)
  BY WellFormedCloses
<1>2. ASSUME NEW p, <<p, conf>> \in sim, ~ Leads(sim, void, blocks, p, conf)
      PROVE  /\ p.block \in DOMAIN blocks /\ IsGoto(p.block) /\ target(p.block) \in Bad
  <2>1. IsPlace(blocks, p) /\ p.block \in DOMAIN blocks /\ Agrees(sim, void, blocks, DOMAIN blocks, p, conf)
    BY <1>2 DEF Follows, ArePlaces, IsPlace
  <2>2. ~ Acts(sim, void, blocks, p, conf)
    BY <1>2, <2>1 DEF Leads
  <2>3. BodyJumps(sim, blocks, DOMAIN blocks, p, conf)
    BY <2>1, <2>2 DEF Agrees, Acts
  <2>4. AtTerminator(blocks, p) /\ IsGoto(p.block) /\ <<At(target(p.block), 1), conf>> \in sim
    BY <2>3 DEF BodyJumps, AtEnd, AtTerminator
  <2>5. Settle(blocks, p) = Settle(blocks, At(target(p.block), 1))
    BY <2>1, <2>4, <1>1, SettleThere
  <2>6. ~ Leads(sim, void, blocks, At(target(p.block), 1), conf)
    BY <2>5, <1>2 DEF Leads
  <2>7. target(p.block) \in DOMAIN blocks
    <3>1. IsPlace(blocks, At(target(p.block), 1))
      BY <2>4 DEF Follows, ArePlaces
    <3> QED
      BY <3>1, AtFields DEF IsPlace
  <2> QED
    BY <2>1, <2>4, <2>6, <2>7
<1>3. Bad = {}
  <2> SUFFICES ASSUME Bad # {} PROVE FALSE
    OBVIOUS
  <2>1. Bad \in (SUBSET DOMAIN blocks) \ {{}}
    OBVIOUS
  <2>2. \A cycle \in (SUBSET DOMAIN blocks) \ {{}} : \E j \in cycle : IsGoto(j) => target(j) \notin cycle
    BY DEF IsWellFormed
  <2>3. PICK j \in Bad : IsGoto(j) => target(j) \notin Bad
    <3> HIDE DEF Bad, IsGoto, target
    <3> QED
      BY <2>1, <2>2
  <2>4. IsGoto(j) /\ target(j) \in Bad
    <3>1. <<At(j, 1), conf>> \in sim /\ ~ Leads(sim, void, blocks, At(j, 1), conf)
      BY <2>3
    <3>2. At(j, 1).block = j
      BY AtFields
    <3> HIDE DEF Bad, IsGoto, target
    <3> QED
      BY <3>1, <3>2, <1>2
  <2> QED
    BY <2>3, <2>4
<1> HIDE DEF Bad, IsGoto, target
<1> QED
  BY <1>2, <1>3

\* There the source and the body offer the same, and go on in step.
SameOffer(void, blocks, pos, conf) ==
  LET offer == Offer(blocks, pos)
  IN  [does |-> offer.does, label |-> offer.label, ways |-> offer.ways] = SourceOffer(void, conf)

InSim(sim, blocks, pos, conf) == \E p : <<p, conf>> \in sim /\ Settle(blocks, p) = pos

LEMMA ActsAlike ==
  ASSUME NEW blocks, IsWellFormed(blocks), NEW sim, NEW void, NEW root, Follows(sim, void, blocks, root),
         NEW pos, NEW conf, IsVec(conf), InSim(sim, blocks, pos, conf), ~ IsSilent(conf)
  PROVE  /\ SameOffer(void, blocks, pos, conf)
         /\ \A way \in 1 .. Offer(blocks, pos).ways : InSim(sim, blocks, After(blocks, pos, way), SourceAfter(conf, way))
<1>1. PICK q : <<q, conf>> \in sim /\ Settle(blocks, q) = pos
  BY DEF InSim
<1>2. PICK p : /\ IsPlace(blocks, p)
               /\ Acts(sim, void, blocks, p, conf)
               /\ Settle(blocks, p) = pos
  BY <1>1, FollowsAlong DEF Leads
<1>3. Closed(blocks) /\ p \in Positions(blocks)
  BY <1>2, WellFormedCloses
<1>4. CASE BothAct(sim, blocks, p, conf)
  <2> DEFINE x == Head(conf)
             d == Tail(conf)
             stmts == blocks[p.block].stmts
  <2>1. /\ p.line \in DOMAIN stmts /\ conf # <<>> /\ x.stmt = "Act" /\ stmts[p.line].label = x.label
        /\ <<At(p.block, p.line + 1), d>> \in sim
    BY <1>4 DEF BothAct
  <2>2. p.block \in DOMAIN blocks /\ p = At(p.block, p.line)
    BY <1>2 DEF IsPlace
  <2>3. ~ AtTerminator(blocks, p)
    <3>1. IsVec(stmts)
      BY <2>2 DEF IsWellFormed
    <3>2. DOMAIN stmts = 1 .. Len(stmts) /\ Len(stmts) \in Nat
      BY <3>1, VecProps
    <3> HIDE DEF stmts
    <3>3. p.line # Len(stmts) + 1
      BY <3>2, <2>1
    <3> QED
      BY <3>3 DEF AtTerminator, stmts
  <2>4. p = pos
    BY <2>3, <1>2, <1>3, SettleHere
  <2>5. Offer(blocks, pos).does = "Stmt" /\ Offer(blocks, pos).label = x.label /\ Offer(blocks, pos).ways = 1
    BY <2>1, <2>3, <2>4 DEF Offer
  <2>6. SourceOffer(void, conf) = Does("Stmt", x.label, 1)
    BY <2>1 DEF SourceOffer, IsAt
  <2>7. SameOffer(void, blocks, pos, conf)
    BY <2>5, <2>6 DEF SameOffer, Does
  <2>8. ASSUME NEW way PROVE After(blocks, pos, way) = Settle(blocks, At(p.block, p.line + 1))
    <3>1. [p EXCEPT !.line = @ + 1] = At(p.block, p.line + 1)
      BY <2>2 DEF At
    <3> QED
      BY <3>1, <2>3, <2>4 DEF After
  <2>9. ASSUME NEW way PROVE SourceAfter(conf, way) = d
    <3>1. SourceAfter(conf, way) = <<>> \o d
      BY <2>1 DEF SourceAfter, IsAt
    <3>2. IsVec(d)
      BY <2>1, TailVec
    <3> QED
      BY <3>1, <3>2, NothingBefore
  <2> QED
    BY <2>1, <2>7, <2>8, <2>9 DEF InSim
<1>5. CASE BothEnd(sim, void, blocks, DOMAIN blocks, p, conf)
  <2> DEFINE term == blocks[p.block].term
  <2>1. /\ AtTerminator(blocks, p) /\ term.kind # "Goto"
        /\ SourceOffer(void, conf) = Does(term.kind, term.label, Len(term.targets))
        /\ \A way \in 1 .. Len(term.targets) : <<At(term.targets[way], 1), SourceAfter(conf, way)>> \in sim
    BY <1>5 DEF BothEnd, AtEnd, SameWays, AtTerminator
  <2>2. p = pos
    BY <2>1, <1>2, <1>3, SettleHere
  <2>3. /\ Offer(blocks, pos).does = term.kind /\ Offer(blocks, pos).label = term.label
        /\ Offer(blocks, pos).ways = Len(term.targets)
    BY <2>1, <2>2 DEF Offer
  <2>4. SameOffer(void, blocks, pos, conf)
    BY <2>1, <2>3 DEF SameOffer, Does
  <2>5. ASSUME NEW way PROVE After(blocks, pos, way) = Settle(blocks, At(term.targets[way], 1))
    BY <2>1, <2>2 DEF After
  <2> HIDE DEF term
  <2> QED
    BY <2>1, <2>3, <2>4, <2>5 DEF InSim
<1> QED
  BY <1>2, <1>4, <1>5 DEF Acts, SourceMoves

LEMMA MovesAlong ==
  ASSUME NEW blocks, IsWellFormed(blocks), NEW sim, NEW void, NEW root, Follows(sim, void, blocks, root),
         NEW pos, NEW conf, InSim(sim, blocks, pos, conf), IsSilent(conf)
  PROVE  InSim(sim, blocks, pos, Unfolded(conf))
<1>1. PICK q : <<q, conf>> \in sim /\ Settle(blocks, q) = pos
  BY DEF InSim
<1>2. PICK p : /\ IsPlace(blocks, p)
               /\ Acts(sim, void, blocks, p, conf)
               /\ Settle(blocks, p) = pos
  BY <1>1, FollowsAlong DEF Leads
<1>3. SourceMoves(sim, p, conf)
  BY <1>2 DEF Acts, BothAct, BothEnd, SameWays, IsSilent, IsAt
<1> QED
  BY <1>2, <1>3 DEF SourceMoves, InSim

-----------------------------------------------------------------------------
\* The pipeline: what is being lowered, handed over and run does what the source
\* does.
Handed == IF phase = "waiting" THEN builder.blocks ELSE mir.blocks

ExecutionInv ==
  /\ status = "lowering" =>
       /\ phase = "waiting" /\ rest = program.root
       /\ \E sim : Simulates(sim, program.void, program.root, loops, builder, todo)
  /\ status = "done" =>
       \E sim : /\ Follows(sim, program.void, Handed, program.root)
                /\ IF phase = "run" THEN InSim(sim, mir.blocks, old_pos, rest) ELSE rest = program.root

LEMMA LeavesMeaning ==
  ASSUME ExecutionInv, status = "lowering", UNCHANGED <<vars, rest>>, NEW r, NEW v, Leave(r, v),
         \E now : Simulates(now, program.void, program.root, loops', r, v \o Tail(todo))
  PROVE  ExecutionInv'
<1>1. builder' = r /\ todo' = v \o Tail(todo) /\ status' \in {"lowering", "panicked"} /\ program' = program
  BY DEF Leave
<1>2. phase' = phase /\ rest' = rest
  BY DEF vars
<1>3. phase = "waiting" /\ rest = program.root
  BY DEF ExecutionInv
<1>4. \E now : Simulates(now, program'.void, program'.root, loops', builder', todo')
  BY <1>1
<1> QED
  BY <1>1, <1>2, <1>3, <1>4 DEF ExecutionInv

LEMMA LowerNextMeans ==
  ASSUME LowerInv, ExecutionInv, LowerNext, UNCHANGED <<vars, rest>>
  PROVE  ExecutionInv'
<1> DEFINE void == program.void
           root == program.root
<1>1. status = "lowering"
  BY DEF LowerNext, LowerAct, LowerCall, LowerNever, LowerReturn, LowerBreak, LowerContinue, LowerBlock, LowerIf, LowerIfElse,
         LowerWhile, LowerMatch, NextArm, DoClose, DoEnter, DoDecide, DoUnreachable, Finish, Take
<1>2. PICK lists, begins : AreScoped(lists) /\ LowerOK(lists, begins, loops, builder, todo)
  BY <1>1 DEF LowerInv
<1>3. PICK sim : Simulates(sim, void, root, loops, builder, todo)
  BY <1>1 DEF ExecutionInv
<1>4. ASSUME todo # <<>>
      PROVE  \E c, d, more : Staged(lists, begins, loops, builder, todo, sim, void, root, c, d, more)
  <2>1. \E c, d, more : HeadMeans(sim, void, root, loops, builder, todo, c, d, more)
    BY <1>2, <1>3, <1>4, SimulatesHead
  <2> QED
    BY <2>1, <1>2, <1>4 DEF Staged
<1>5. ASSUME NEW r, NEW v, Leave(r, v), \E now : Simulates(now, void, root, loops', r, v \o Tail(todo))
      PROVE  ExecutionInv'
  BY <1>1, <1>5, LeavesMeaning
<1> HIDE DEF void, root
<1>6. CASE LowerAct
  <2> DEFINE r == EmitAll(builder, <<Stmt(Head(todo).label, <<>>)>>)
             v == <<>>
  <2>1. todo # <<>> /\ Head(todo).stmt = "Act" /\ loops' = loops /\ Leave(r, v)
    BY <1>6 DEF LowerAct, Take
  <2>2. PICK c, d, more : Staged(lists, begins, loops, builder, todo, sim, void, root, c, d, more)
    BY <2>1, <1>4
  <2>3. \E now : Simulates(now, void, root, loops, r, v \o Tail(todo))
    BY <2>1, <2>2, ActMeans
  <2> HIDE DEF r, v
  <2> QED
    BY <2>1, <2>3, <1>5
<1>7. CASE LowerCall
  <2> DEFINE next == FreshBlock(builder, 1)
             r == SwitchToBlock(Terminate(NewBlocks(builder, 1), Call(Head(todo).label, next)), next)
             v == <<>>
  <2>1. todo # <<>> /\ Head(todo).stmt = "Call" /\ loops' = loops /\ Leave(r, v)
    BY <1>7 DEF LowerCall, Take
  <2>2. PICK c, d, more : Staged(lists, begins, loops, builder, todo, sim, void, root, c, d, more)
    BY <2>1, <1>4
  <2>3. \E now : Simulates(now, void, root, loops, r, v \o Tail(todo))
    BY <2>1, <2>2, CallMeans
  <2> HIDE DEF r, v
  <2> QED
    BY <2>1, <2>3, <1>5
<1>8. CASE LowerNever
  <2> DEFINE next == FreshBlock(builder, 1)
             called == Terminate(NewBlocks(builder, 1), Call(Head(todo).label, next))
             r == DeadBlock(Terminate(SwitchToBlock(called, next), Diverge))
             v == <<>>
  <2>1. todo # <<>> /\ Head(todo).stmt = "Never" /\ loops' = loops /\ Leave(r, v)
    BY <1>8 DEF LowerNever, Take
  <2>2. PICK c, d, more : Staged(lists, begins, loops, builder, todo, sim, void, root, c, d, more)
    BY <2>1, <1>4
  <2>3. \E now : Simulates(now, void, root, loops, r, v \o Tail(todo))
    BY <2>1, <2>2, NeverMeans
  <2> HIDE DEF r, v
  <2> QED
    BY <2>1, <2>3, <1>5
<1>9. CASE LowerReturn
  <2> DEFINE r == DeadBlock(Terminate(builder, Return(Head(todo).label)))
             v == <<>>
  <2>1. todo # <<>> /\ Head(todo).stmt = "Return" /\ loops' = loops /\ Leave(r, v)
    BY <1>9 DEF LowerReturn, Take
  <2>2. PICK c, d, more : Staged(lists, begins, loops, builder, todo, sim, void, root, c, d, more)
    BY <2>1, <1>4
  <2>3. \E now : Simulates(now, void, root, loops, r, v \o Tail(todo))
    BY <2>1, <2>2, ReturnMeans
  <2> HIDE DEF r, v
  <2> QED
    BY <2>1, <2>3, <1>5
<1>10. CASE LowerBreak
  <2> DEFINE r == Terminate(builder, Goto(loops[Head(todo).loop].end))
             v == <<>>
  <2>1. todo # <<>> /\ Head(todo).stmt = "Break" /\ loops' = loops /\ Leave(r, v)
    BY <1>10 DEF LowerBreak, Take
  <2>2. PICK c, d, more : Staged(lists, begins, loops, builder, todo, sim, void, root, c, d, more)
    BY <2>1, <1>4
  <2>3. \E now : Simulates(now, void, root, loops, r, v \o Tail(todo))
    BY <2>1, <2>2, JumpMeans
  <2> HIDE DEF r, v
  <2> QED
    BY <2>1, <2>3, <1>5
<1>11. CASE LowerContinue
  <2> DEFINE r == Terminate(builder, Goto(loops[Head(todo).loop].begin))
             v == <<>>
  <2>1. todo # <<>> /\ Head(todo).stmt = "Continue" /\ loops' = loops /\ Leave(r, v)
    BY <1>11 DEF LowerContinue, Take
  <2>2. PICK c, d, more : Staged(lists, begins, loops, builder, todo, sim, void, root, c, d, more)
    BY <2>1, <1>4
  <2>3. \E now : Simulates(now, void, root, loops, r, v \o Tail(todo))
    BY <2>1, <2>2, JumpMeans
  <2> HIDE DEF r, v
  <2> QED
    BY <2>1, <2>3, <1>5
<1>12. CASE LowerBlock
  <2> DEFINE r == builder
             v == Head(todo).stmts
  <2>1. todo # <<>> /\ Head(todo).stmt = "Block" /\ loops' = loops /\ Leave(r, v)
    BY <1>12 DEF LowerBlock, Take
  <2>2. PICK c, d, more : Staged(lists, begins, loops, builder, todo, sim, void, root, c, d, more)
    BY <2>1, <1>4
  <2>3. \E now : Simulates(now, void, root, loops, r, v \o Tail(todo))
    BY <2>1, <2>2, BlockMeans
  <2> HIDE DEF r, v
  <2> QED
    BY <2>1, <2>3, <1>5
<1>13. CASE LowerIf
  <2> DEFINE then == FreshBlock(builder, 1)
             merge == FreshBlock(builder, 2)
             r == Terminate(NewBlocks(builder, 2), Branch(Head(todo).label, then, merge))
             v == <<Enter(then)>> \o Head(todo).then \o <<Close(merge), Enter(merge)>>
  <2>1. todo # <<>> /\ Head(todo).stmt = "If" /\ loops' = loops /\ Leave(r, v)
    BY <1>13 DEF LowerIf, Take
  <2>2. PICK c, d, more : Staged(lists, begins, loops, builder, todo, sim, void, root, c, d, more)
    BY <2>1, <1>4
  <2>3. \E now : Simulates(now, void, root, loops, r, v \o Tail(todo))
    BY <2>1, <2>2, IfMeans
  <2> HIDE DEF r, v
  <2> QED
    BY <2>1, <2>3, <1>5
<1>14. CASE LowerIfElse
  <2> DEFINE then == FreshBlock(builder, 1)
             merge == FreshBlock(builder, 2)
             else == FreshBlock(builder, 3)
             r == Terminate(NewBlocks(builder, 3), Branch(Head(todo).label, then, else))
             v == <<Enter(else)>> \o Head(todo).else \o <<Close(merge), Enter(then)>>
                    \o Head(todo).then \o <<Close(merge), Enter(merge)>>
  <2>1. todo # <<>> /\ Head(todo).stmt = "IfElse" /\ loops' = loops /\ Leave(r, v)
    BY <1>14 DEF LowerIfElse, Take
  <2>2. PICK c, d, more : Staged(lists, begins, loops, builder, todo, sim, void, root, c, d, more)
    BY <2>1, <1>4
  <2>3. \E now : Simulates(now, void, root, loops, r, v \o Tail(todo))
    BY <2>1, <2>2, IfElseMeans
  <2> HIDE DEF r, v
  <2> QED
    BY <2>1, <2>3, <1>5
<1>15. CASE LowerWhile
  <2> DEFINE cond == FreshBlock(builder, 1)
             body == FreshBlock(builder, 2)
             merge == FreshBlock(builder, 3)
             inside == Inserted(loops, Head(todo).loop, cond, merge)
             r == SwitchToBlock(Terminate(NewBlocks(builder, 3), Goto(cond)), cond)
             v == Head(todo).setup \o <<Decide(Head(todo).label, body, merge), Enter(body)>> \o Head(todo).body
                    \o <<Close(cond), Enter(merge)>>
  <2>1. todo # <<>> /\ Head(todo).stmt = "While" /\ loops' = inside /\ Leave(r, v)
    BY <1>15 DEF LowerWhile, Take, WithLoop, Inserted
  <2>2. PICK c, d, more : Staged(lists, begins, loops, builder, todo, sim, void, root, c, d, more)
    BY <2>1, <1>4
  <2>3. \E now : Simulates(now, void, root, inside, r, v \o Tail(todo))
    BY <2>1, <2>2, WhileMeans
  <2> HIDE DEF r, v, inside
  <2> QED
    BY <2>1, <2>3, <1>5
<1>16. CASE LowerMatch
  <2> DEFINE arms == Head(todo).arms
             tree == Head(todo).tree
             n == Len(arms)
             merge == FreshBlock(builder, 1)
             diverge == FreshBlock(builder, n + 2)
             ends == [i \in 1 .. (Len(tree) - 1) |-> EndOf(tree[i + 1], merge, diverge)]
             r == Terminate(NewEnds(NewBlocks(builder, n + 2), ends), EndOf(tree[1], merge, diverge))
             v == <<Arms(arms, FreshBlock(builder, 2), merge), Enter(diverge), Unreachable, Enter(merge)>>
  <2>1. todo # <<>> /\ Head(todo).stmt = "Match" /\ loops' = loops /\ Leave(r, v)
    BY <1>16 DEF LowerMatch, Take
  <2>2. PICK c, d, more : Staged(lists, begins, loops, builder, todo, sim, void, root, c, d, more)
    BY <2>1, <1>4
  <2>3. \E now : Simulates(now, void, root, loops, r, v \o Tail(todo))
    BY <2>1, <2>2, MatchMeans
  <2> HIDE DEF r, v
  <2> QED
    BY <2>1, <2>3, <1>5
<1>17. CASE NextArm
  <2> DEFINE arms == Head(todo).arms
             body == Head(todo).body
             merge == Head(todo).merge
             r == builder
             v == IF arms = <<>> THEN <<>>
                  ELSE <<Enter(body)>> \o Head(arms) \o <<Close(merge), Arms(Tail(arms), body + 1, merge)>>
  <2>1. todo # <<>> /\ Head(todo).stmt = "Arms" /\ loops' = loops /\ Leave(r, v)
    BY <1>17 DEF NextArm, Take
  <2>2. PICK c, d, more : Staged(lists, begins, loops, builder, todo, sim, void, root, c, d, more)
    BY <2>1, <1>4
  <2>3. \E now : Simulates(now, void, root, loops, r, v \o Tail(todo))
    BY <2>1, <2>2, ArmsMeans
  <2> HIDE DEF r, v
  <2> QED
    BY <2>1, <2>3, <1>5
<1>18. CASE DoClose
  <2> DEFINE r == IF IsTerminated(builder) THEN builder ELSE Terminate(builder, Goto(Head(todo).block))
             v == <<>>
  <2>1. todo # <<>> /\ Head(todo).stmt = "Close" /\ loops' = loops /\ Leave(r, v)
    BY <1>18 DEF DoClose, Take
  <2>2. PICK c, d, more : Staged(lists, begins, loops, builder, todo, sim, void, root, c, d, more)
    BY <2>1, <1>4
  <2>3. \E now : Simulates(now, void, root, loops, r, v \o Tail(todo))
    BY <2>1, <2>2, CloseMeans
  <2> HIDE DEF r, v
  <2> QED
    BY <2>1, <2>3, <1>5
<1>19. CASE DoEnter
  <2> DEFINE r == SwitchToBlock(builder, Head(todo).block)
             v == <<>>
  <2>1. todo # <<>> /\ Head(todo).stmt = "Enter" /\ loops' = loops /\ Leave(r, v)
    BY <1>19 DEF DoEnter, Take
  <2>2. PICK c, d, more : Staged(lists, begins, loops, builder, todo, sim, void, root, c, d, more)
    BY <2>1, <1>4
  <2>3. \E now : Simulates(now, void, root, loops, r, v \o Tail(todo))
    BY <2>1, <2>2, EnterMeans
  <2> HIDE DEF r, v
  <2> QED
    BY <2>1, <2>3, <1>5
<1>20. CASE DoDecide
  <2> DEFINE r == Terminate(builder, Branch(Head(todo).label, Head(todo).then, Head(todo).else))
             v == <<>>
  <2>1. todo # <<>> /\ Head(todo).stmt = "Decide" /\ loops' = loops /\ Leave(r, v)
    BY <1>20 DEF DoDecide, Take
  <2>2. PICK c, d, more : Staged(lists, begins, loops, builder, todo, sim, void, root, c, d, more)
    BY <2>1, <1>4
  <2>3. \E now : Simulates(now, void, root, loops, r, v \o Tail(todo))
    BY <2>1, <2>2, DecideMeans
  <2> HIDE DEF r, v
  <2> QED
    BY <2>1, <2>3, <1>5
<1>21. CASE DoUnreachable
  <2> DEFINE r == Terminate(builder, Diverge)
             v == <<>>
  <2>1. todo # <<>> /\ Head(todo).stmt = "Unreachable" /\ loops' = loops /\ Leave(r, v)
    BY <1>21 DEF DoUnreachable, Take
  <2>2. PICK c, d, more : Staged(lists, begins, loops, builder, todo, sim, void, root, c, d, more)
    BY <2>1, <1>4
  <2>3. \E now : Simulates(now, void, root, loops, r, v \o Tail(todo))
    BY <2>1, <2>2, UnreachableMeans
  <2> HIDE DEF r, v
  <2> QED
    BY <2>1, <2>3, <1>5
<1>22. CASE Finish
  <2> DEFINE s == IF IsTerminated(builder) THEN builder
                  ELSE Terminate(builder, IF void THEN Return("") ELSE Diverge)
  <2>1. todo = <<>> /\ builder' = s /\ status' \in {"done", "panicked"} /\ program' = program
    BY <1>22 DEF Finish, void
  <2>2. Follows(sim, void, s.blocks, root)
    BY <2>1, <1>2, <1>3, FinishMeans
  <2> HIDE DEF s
  <2>3. phase' = "waiting" /\ rest' = program'.root
    BY <2>1, <1>1 DEF ExecutionInv, vars
  <2>4. Follows(sim, program'.void, Handed', program'.root)
    BY <2>1, <2>2, <2>3 DEF Handed, void, root
  <2> QED
    BY <2>1, <2>3, <2>4 DEF ExecutionInv
<1> QED
  BY <1>6, <1>7, <1>8, <1>9, <1>10, <1>11, <1>12, <1>13, <1>14, <1>15, <1>16, <1>17, <1>18, <1>19, <1>20, <1>21, <1>22
     DEF LowerNext

LEMMA SourceMeans ==
  ASSUME FromSource, IsScoped(program)
  PROVE  ExecutionInv
<1>1. PICK lists : AreScoped(lists) /\ List(program.root, {}, GoesOn) \in lists
  BY DEF IsScoped
<1> DEFINE stmts == program.root
           void == program.void
<1> HIDE DEF stmts, void
<1>2. \E sim : Simulates(sim, void, stmts, <<>>, NewBuilder, stmts)
  BY <1>1, StartsMean DEF stmts
<1>3. /\ status = "lowering" /\ phase = "waiting" /\ rest = program.root
      /\ loops = <<>> /\ builder = NewBuilder /\ todo = stmts
  BY DEF FromSource, LowerInit, stmts
<1> QED
  BY <1>2, <1>3 DEF ExecutionInv, stmts, void

LEMMA ExecutionInitInv == PipelineInit /\ IsScoped(program) => ExecutionInv
BY SourceMeans DEF PipelineInit, FromBody, ExecutionInv

\* The pass keeps the body; at its end both bodies are at their entries.
LEMMA OptimiseMeans ==
  ASSUME PipelineInv, ExecutionInv, Optimise
  PROVE  ExecutionInv'
<1>1. /\ status' = status /\ program' = program /\ loops' = loops /\ builder' = builder /\ todo' = todo
      /\ rest' = rest
  BY DEF Optimise, lowerVars
<1>2. /\ phase \in {"start", "copy"} /\ mir' = mir
      /\ \/ phase' \in {"copy", "panicked"}
         \/ phase' = "run" /\ old_pos' = Settle(mir.blocks, old_pos)
  <2>1. /\ phase \in {"start", "copy"} /\ mir' = mir
        /\ phase' \in {"copy", "panicked"} \/ Finalize
    BY DEF Optimise, Pass, Prepare, BeginPath, CopyOneStmt, NextOfPath, EndPath, Copying, GoOn, Finalize
  <2>2. CASE Finalize
    <3>1. phase' \in {"run", "panicked"} /\ (phase' = "run" => old_pos' = Settle(mir.blocks, old_pos))
      BY <2>2 DEF Finalize
    <3> QED
      BY <2>1, <3>1
  <2> QED
    BY <2>1, <2>2
<1>3. old_pos = At(EntryBlock, 1)
  BY <1>2 DEF PipelineInv, Inv, AtEntry
<1>4. ASSUME status = "done"
      PROVE  \E sim : /\ Follows(sim, program'.void, Handed', program'.root)
                      /\ IF phase' = "run" THEN InSim(sim, mir'.blocks, old_pos', rest') ELSE rest' = program'.root
  <2>1. PICK sim : Follows(sim, program.void, mir.blocks, program.root) /\ rest = program.root
    BY <1>2, <1>4 DEF ExecutionInv, Handed
  <2>2. Handed' = mir.blocks
    BY <1>2 DEF Handed
  <2>3. ASSUME phase' = "run" PROVE InSim(sim, mir'.blocks, old_pos', rest')
    BY <2>1, <2>3, <1>1, <1>2, <1>3 DEF InSim, Follows
  <2> QED
    BY <2>1, <2>2, <2>3, <1>1
<1>5. status # "lowering"
  BY <1>2 DEF ExecutionInv
<1> QED
  BY <1>1, <1>4, <1>5 DEF ExecutionInv

LEMMA HandOverMeans ==
  ASSUME ExecutionInv, HandOver
  PROVE  ExecutionInv'
<1>1. /\ status = "done" /\ phase = "waiting" /\ phase' = "start" /\ mir'.blocks = builder.blocks
      /\ status' = status /\ program' = program /\ rest' = rest
  BY DEF HandOver, lowerVars
<1>2. Handed' = Handed
  BY <1>1 DEF Handed
<1> QED
  BY <1>1, <1>2 DEF ExecutionInv

LEMMA RunMeans ==
  ASSUME PipelineInv, ExecutionInv, Run
  PROVE  ExecutionInv'
<1>1. phase = "run"
  BY DEF Run
<1>2. /\ status' = status /\ program' = program /\ mir' = mir /\ phase' = phase
  BY DEF Run, Silently, Step, RunAlong, lowerVars, vars
<1>3. status # "lowering"
  BY <1>1 DEF ExecutionInv
<1>4. ASSUME status = "done"
      PROVE  \E sim : Follows(sim, program.void, mir.blocks, program.root) /\ InSim(sim, mir.blocks, old_pos', rest')
  <2>1. PICK sim : Follows(sim, program.void, mir.blocks, program.root) /\ InSim(sim, mir.blocks, old_pos, rest)
    BY <1>1, <1>4 DEF ExecutionInv, Handed
  <2>2. IsWellFormed(mir.blocks)
    BY <1>1 DEF PipelineInv, Inv, IsBody
  <2>3. IsVec(rest)
    BY <2>1 DEF InSim, Follows, ArePlaces
  <2>4. CASE Silently
    <3>1. IsSilent(rest) /\ rest' = Unfolded(rest) /\ old_pos' = old_pos
      BY <2>4 DEF Silently, vars
    <3>2. InSim(sim, mir.blocks, old_pos, Unfolded(rest))
      BY <2>1, <2>2, <3>1, MovesAlong
    <3> QED
      BY <2>1, <3>1, <3>2
  <2>5. ASSUME NEW way \in 1 .. OldOffer.ways, Step(way)
        PROVE  InSim(sim, mir.blocks, old_pos', rest')
    <3>1. /\ ~ IsSilent(rest) /\ rest' = SourceAfter(rest, way)
          /\ old_pos' = After(mir.blocks, old_pos, way)
      BY <2>5, <1>1, <1>4 DEF Step, RunAlong, Runs
    <3>2. way \in 1 .. Offer(mir.blocks, old_pos).ways
      BY DEF OldOffer
    <3>3. InSim(sim, mir.blocks, After(mir.blocks, old_pos, way), SourceAfter(rest, way))
      BY <2>1, <2>2, <2>3, <3>1, <3>2, ActsAlike
    <3> QED
      BY <3>1, <3>3
  <2> QED
    BY <2>1, <2>4, <2>5 DEF Run
<1>5. Handed' = mir.blocks
  BY <1>1, <1>2 DEF Handed
<1> QED
  BY <1>1, <1>2, <1>3, <1>4, <1>5 DEF ExecutionInv

LEMMA ExecutionNextKeepsInv ==
  ASSUME PipelineInv, ExecutionInv, [PipelineNext]_pipelineVars
  PROVE  ExecutionInv'
<1>1. CASE Lower
  BY <1>1, LowerNextMeans DEF Lower, PipelineInv
<1>2. CASE UNCHANGED pipelineVars
  <2>1. UNCHANGED <<program, todo, loops, builder, status, phase, mir, old_pos, rest>>
    BY <1>2 DEF pipelineVars, lowerVars, vars
  <2>2. Handed' = Handed
    BY <2>1 DEF Handed
  <2> QED
    BY <2>1, <2>2 DEF ExecutionInv
<1> QED
  BY <1>1, <1>2, HandOverMeans, OptimiseMeans, RunMeans DEF PipelineNext

LEMMA ExecutionInvPreserves == PipelineInv /\ ExecutionInv => CompilationPreservesExecution
<1> SUFFICES ASSUME PipelineInv, ExecutionInv, Runs, ~ IsSilent(rest)
             PROVE  /\ Observed(OldOffer) = SourceOffer(program.void, rest)
                    /\ Observed(NewOffer) = SourceOffer(program.void, rest)
  BY DEF CompilationPreservesExecution
<1>1. phase = "run" /\ status = "done"
  BY DEF Runs
<1>2. PICK sim : Follows(sim, program.void, mir.blocks, program.root) /\ InSim(sim, mir.blocks, old_pos, rest)
  BY <1>1 DEF ExecutionInv, Handed
<1>3. Inv /\ IsWellFormed(mir.blocks)
  BY <1>1 DEF PipelineInv, Inv, IsBody
<1>4. IsVec(rest)
  BY <1>2 DEF InSim, Follows, ArePlaces
<1>5. SameOffer(program.void, mir.blocks, old_pos, rest)
  BY <1>2, <1>3, <1>4, ActsAlike
<1>6. OldOffer = NewOffer
  BY <1>1, <1>3, InvSameBehaviour DEF SameBehaviour
<1>7. Observed(OldOffer) = SourceOffer(program.void, rest)
  BY <1>5 DEF SameOffer, Observed, OldOffer
<1> QED
  BY <1>6, <1>7

\* What runs is what was written, whatever the program, when its breaks and
\* continues are in their loops and end their blocks: on every path, through all
\* its loops, branches and matches, the source, the MIR it is lowered to and the
\* MIR the pass makes of that do the same statements, calls, tests and returns.
THEOREM CompilationPreservesExecutionHolds == PipelineSpec /\ IsScoped(program) => []CompilationPreservesExecution
<1>1. PipelineInit /\ IsScoped(program) => ExecutionInv
  BY ExecutionInitInv
<1>2. PipelineInv /\ ExecutionInv /\ [PipelineNext]_pipelineVars => ExecutionInv'
  BY ExecutionNextKeepsInv
<1>3. PipelineInv /\ ExecutionInv => CompilationPreservesExecution
  BY ExecutionInvPreserves
<1> QED
  BY <1>1, <1>2, <1>3, PipelineInvHolds, PTL DEF PipelineSpec
===============================================================================
