-------------------------- MODULE UseAfterMoveProofs --------------------------
(***************************************************************************)
(* The move check accounts for every execution, for all bodies: the state  *)
(* of its replay has, at every access, the bit of what each cell really    *)
(* is.  So a definite report is real, and what a body without a report     *)
(* uses is there.                                                          *)
(*                                                                         *)
(* A cell is seen through its owner, the longest tracked key above it.     *)
(* What a move or an assignment of a place does to the cells of the place, *)
(* marking its key does to their owners and to no other: that carries the  *)
(* invariant over a line.  The replay and the transfer of the analysis are *)
(* the same function of a block, and LeastSolution solves the equations of *)
(* the analysis: that carries it over the edges of the graph.              *)
(***************************************************************************)
EXTENDS UseAfterMove, DataflowProofs, SequenceTheorems

-----------------------------------------------------------------------------
\* Prefixes.
LEMMA PrefixIs ==
  ASSUME NEW s, NEW t, IsVec(s), IsVec(t)
  PROVE  IsPrefix(s, t) <=> Len(s) <= Len(t) /\ \A i \in 1 .. Len(s) : s[i] = t[i]
<1> DEFINE S == ToSet(s) \cup ToSet(t)
<1>1. s \in Seq(S) /\ t \in Seq(S)
  BY SeqMonotonic DEF IsVec
<1> HIDE DEF S
<1>2. Len(s) \in Nat /\ Len(t) \in Nat
  BY <1>1
<1>3. ASSUME Len(s) <= Len(t)
      PROVE  SubSeq(s, 1, Len(s)) = SubSeq(t, 1, Len(s)) <=> \A i \in 1 .. Len(s) : s[i] = t[i]
  <2>1. SubSeq(s, 1, Len(s)) = s
    BY <1>1, SubSeqFull
  <2>2. \A i \in 1 .. Len(s) : t[i] \in S
    BY <1>1, <1>2, <1>3
  <2> DEFINE u == SubSeq(t, 1, Len(s))
  <2>3. u \in Seq(S) /\ Len(u) = Len(s) /\ \A i \in 1 .. Len(s) : u[i] = t[i]
    BY <1>1, <1>2, <1>3
  <2> HIDE DEF u
  <2>4. s = u <=> \A i \in 1 .. Len(s) : s[i] = u[i]
    BY <2>3, <1>1, SeqEqual
  <2> QED
    BY <2>1, <2>3, <2>4 DEF u
<1> QED
  BY <1>3 DEF IsPrefix

LEMMA PrefixTransitive ==
  ASSUME NEW s, NEW t, NEW u, IsVec(s), IsVec(t), IsVec(u), IsPrefix(s, t), IsPrefix(t, u)
  PROVE  IsPrefix(s, u)
<1>1. Len(s) \in Nat /\ Len(t) \in Nat /\ Len(u) \in Nat
  BY DEF IsVec
<1>2. /\ Len(s) <= Len(t) /\ \A i \in 1 .. Len(s) : s[i] = t[i]
      /\ Len(t) <= Len(u) /\ \A i \in 1 .. Len(t) : t[i] = u[i]
  BY PrefixIs
<1>3. Len(s) <= Len(u) /\ \A i \in 1 .. Len(s) : s[i] = u[i]
  BY <1>1, <1>2
<1> QED
  BY <1>3, PrefixIs

\* Of two prefixes of one sequence, the shorter is a prefix of the longer.
LEMMA PrefixesNest ==
  ASSUME NEW s, NEW t, NEW u, IsVec(s), IsVec(t), IsVec(u), IsPrefix(s, u), IsPrefix(t, u),
         Len(s) <= Len(t)
  PROVE  IsPrefix(s, t)
<1>1. Len(s) \in Nat /\ Len(t) \in Nat /\ Len(u) \in Nat
  BY DEF IsVec
<1>2. /\ \A i \in 1 .. Len(s) : s[i] = u[i]
      /\ \A i \in 1 .. Len(t) : t[i] = u[i]
  BY PrefixIs
<1>3. \A i \in 1 .. Len(s) : s[i] = t[i]
  BY <1>1, <1>2
<1> QED
  BY <1>3, PrefixIs

\* The tracked part of a projection list is what precedes its first index.
LEMMA TrackedIs ==
  ASSUME NEW ps, IsVec(ps)
  PROVE  LET k == Tracked(ps)
         IN  /\ IsVec(k) /\ Len(k) \in Nat /\ Len(k) <= Len(ps)
             /\ \A i \in 1 .. Len(k) : k[i] = ps[i] /\ ps[i].kind # "Index"
             /\ Len(k) < Len(ps) => ps[Len(k) + 1].kind = "Index"
             /\ IsPrefix(k, ps)
<1> DEFINE J == {j \in 1 .. Len(ps) : ps[j].kind = "Index"}
           Good(n) == /\ \A i \in 1 .. n : ps[i].kind # "Index"
                      /\ n < Len(ps) => ps[n + 1].kind = "Index"
           n == CHOOSE k \in 0 .. Len(ps) : Good(k)
<1>1. Len(ps) \in Nat /\ ps \in Seq(ToSet(ps))
  BY DEF IsVec
<1>2. \E k \in 0 .. Len(ps) : Good(k)
  <2>1. CASE J = {}
    <3>1. Len(ps) \in 0 .. Len(ps) /\ Good(Len(ps))
      BY <2>1, <1>1
    <3> QED
      BY <3>1
  <2>2. CASE J # {}
    <3>1. J \in SUBSET Nat
      BY <1>1
    <3>2. PICK j \in J : \A i \in J : j <= i
      BY <2>2, <3>1, NatMin
    <3>3. j \in 1 .. Len(ps) /\ ps[j].kind = "Index"
      BY <3>2
    <3>4. ASSUME NEW i \in 1 .. (j - 1) PROVE ps[i].kind # "Index"
      <4>1. i \in 1 .. Len(ps) /\ ~ (j <= i)
        BY <3>3, <1>1
      <4> QED
        BY <4>1, <3>2
    <3> HIDE DEF J
    <3>5. j - 1 \in 0 .. Len(ps) /\ j - 1 + 1 = j
      BY <3>3, <1>1
    <3>6. Good(j - 1)
      BY <3>3, <3>4, <3>5
    <3> QED
      BY <3>5, <3>6
  <2> QED
    BY <2>1, <2>2
<1>3. n \in 0 .. Len(ps) /\ Good(n)
  BY <1>2
<1>4. Tracked(ps) = SubSeq(ps, 1, n)
  BY DEF Tracked
<1> HIDE DEF n
<1> DEFINE k == SubSeq(ps, 1, n)
<1>5. /\ k \in Seq(ToSet(ps)) /\ Len(k) = n /\ \A i \in 1 .. n : k[i] = ps[i]
  BY <1>1, <1>3
<1> HIDE DEF k
<1>6. IsVec(k)
  <2>1. \A i \in 1 .. Len(k) : k[i] \in ToSet(k)
    BY <1>5 DEF ToSet
  <2> QED
    BY <2>1, <1>3, <1>5 DEF IsVec
<1>7. /\ Len(k) \in Nat /\ Len(k) <= Len(ps)
      /\ \A i \in 1 .. Len(k) : k[i] = ps[i] /\ ps[i].kind # "Index"
      /\ Len(k) < Len(ps) => ps[Len(k) + 1].kind = "Index"
  BY <1>1, <1>3, <1>5
<1>8. IsPrefix(k, ps)
  BY <1>6, <1>7, PrefixIs
<1> QED
  BY <1>4, <1>6, <1>7, <1>8 DEF k

-----------------------------------------------------------------------------
\* Marking keys.
LEMMA MarkInitIs ==
  ASSUME NEW affected, NEW S, NEW keys, NEW o
  PROVE  LET T == MarkInit(affected, S, keys)
         IN  /\ <<o, "init">> \in T <=> <<o, "init">> \in S \/ o \in Affected(affected, keys)
             /\ <<o, "uninit">> \in T <=> <<o, "uninit">> \in S /\ o \notin Affected(affected, keys)
<1> DEFINE A == Affected(affected, keys)
<1> HIDE DEF A
<1>1. "init" # "uninit"
  OBVIOUS
<1>2. LET T == (S \ (A \X {"uninit"})) \cup (A \X {"init"})
      IN  /\ <<o, "init">> \in T <=> <<o, "init">> \in S \/ o \in A
          /\ <<o, "uninit">> \in T <=> <<o, "uninit">> \in S /\ o \notin A
  BY <1>1
<1> QED
  BY <1>2 DEF MarkInit, A

LEMMA MarkUninitIs ==
  ASSUME NEW affected, NEW S, NEW keys, NEW o
  PROVE  LET T == MarkUninit(affected, S, keys)
         IN  /\ <<o, "uninit">> \in T <=> <<o, "uninit">> \in S \/ o \in Affected(affected, keys)
             /\ <<o, "init">> \in T <=> <<o, "init">> \in S /\ o \notin Affected(affected, keys)
<1> DEFINE A == Affected(affected, keys)
<1> HIDE DEF A
<1>1. "init" # "uninit"
  OBVIOUS
<1>2. LET T == (S \ (A \X {"init"})) \cup (A \X {"uninit"})
      IN  /\ <<o, "uninit">> \in T <=> <<o, "uninit">> \in S \/ o \in A
          /\ <<o, "init">> \in T <=> <<o, "init">> \in S /\ o \notin A
  BY <1>1
<1> QED
  BY <1>2 DEF MarkUninit, A

\* What an entry of the masks covers is tracked.
IsMasks(affected) == \A k \in DOMAIN affected : affected[k] \in SUBSET DOMAIN affected

LEMMA MarksTyped ==
  ASSUME NEW affected, IsMasks(affected), NEW S \in SUBSET FactsOf(affected), NEW keys
  PROVE  /\ MarkInit(affected, S, keys) \in SUBSET FactsOf(affected)
         /\ MarkUninit(affected, S, keys) \in SUBSET FactsOf(affected)
<1>1. Affected(affected, keys) \in SUBSET DOMAIN affected
  BY DEF IsMasks, Affected
<1> QED
  BY <1>1 DEF MarkInit, MarkUninit, FactsOf

LEMMA MarksMonotone ==
  ASSUME NEW affected, NEW S, NEW T, S \subseteq T, NEW keys
  PROVE  /\ MarkInit(affected, S, keys) \subseteq MarkInit(affected, T, keys)
         /\ MarkUninit(affected, S, keys) \subseteq MarkUninit(affected, T, keys)
BY DEF MarkInit, MarkUninit

LEMMA MasksAreMasks ==
  ASSUME NEW body
  PROVE  /\ IsMasks(AffectedMasks(body))
         /\ DOMAIN AffectedMasks(body) = MoveKeys(body)
         /\ \A k \in MoveKeys(body) : \A o :
              o \in AffectedMasks(body)[k] <=> o \in MoveKeys(body) /\ Covers(k, o)
BY DEF AffectedMasks, IsMasks

-----------------------------------------------------------------------------
\* The tracked keys: the locals that are not Copy, and the places a body names
\* inside of them.
LEMMA KeysOfStmtAre ==
  ASSUME NEW stmt
  PROVE  KeysOfStmt(stmt) = KeysOfPlaces(PlacesIn(stmt))
BY DEF KeysOfStmt, KeysOfOperands, KeysOfPlaces, PlacesIn

LEMMA MoveKeysAre ==
  ASSUME NEW body
  PROVE  MoveKeys(body) =
           {RootKey(l) : l \in Locals \ CopyLocals} \cup KeysOfPlaces(PlacesNamed(body))
<1> DEFINE blocks == body.blocks
<1>1. \A b \in Blocks :
        (UNION {KeysOfStmt(blocks[b].stmts[i]) : i \in DOMAIN blocks[b].stmts})
          = KeysOfPlaces(UNION {PlacesIn(blocks[b].stmts[i]) : i \in DOMAIN blocks[b].stmts})
  <2> TAKE b \in Blocks
  <2> DEFINE stmts == blocks[b].stmts
  <2> HIDE DEF stmts
  <2>1. (UNION {KeysOfStmt(stmts[i]) : i \in DOMAIN stmts})
          = KeysOfPlaces(UNION {PlacesIn(stmts[i]) : i \in DOMAIN stmts})
    BY KeysOfStmtAre DEF KeysOfPlaces
  <2> QED
    BY <2>1 DEF stmts
<1> DEFINE named(b) == UNION {PlacesIn(blocks[b].stmts[i]) : i \in DOMAIN blocks[b].stmts}
           keys(b) == UNION {KeysOfStmt(blocks[b].stmts[i]) : i \in DOMAIN blocks[b].stmts}
           ops(b) == blocks[b].term.ops
<1>2. \A b \in Blocks : keys(b) = KeysOfPlaces(named(b))
  BY <1>1
<1>3. MoveKeys(body) = {RootKey(l) : l \in Locals \ CopyLocals}
                         \cup (UNION {keys(b) \cup KeysOfOperands(ops(b)) : b \in Blocks})
  BY DEF MoveKeys
<1>4. PlacesNamed(body) = UNION {named(b) \cup PlacesOf(AllOperandsIn(ops(b))) : b \in Blocks}
  BY DEF PlacesNamed
<1> HIDE DEF named, keys, ops
<1>5. (UNION {keys(b) \cup KeysOfOperands(ops(b)) : b \in Blocks})
        = KeysOfPlaces(UNION {named(b) \cup PlacesOf(AllOperandsIn(ops(b))) : b \in Blocks})
  BY <1>2 DEF KeysOfPlaces, KeysOfOperands
<1> QED
  BY <1>3, <1>4, <1>5

\* A place of a body, or a whole local.
IsPlaceIn(body, p) == p \in PlacesNamed(body) \/ \E l \in Locals : p = LocalPlace(l)

LEMMA EmptyTracked == Tracked(<<>>) = <<>> /\ IsVec(<<>>)
<1>1. IsVec(<<>>)
  BY DEF IsVec, ToSet
<1>2. IsVec(Tracked(<<>>)) /\ Len(Tracked(<<>>)) \in Nat /\ Len(Tracked(<<>>)) <= 0
  BY <1>1, TrackedIs
<1>3. Tracked(<<>>) = <<>>
  BY <1>2, EmptySeq DEF IsVec
<1> QED
  BY <1>1, <1>3

LEMMA PlaceTyped ==
  ASSUME NEW body \in Bodies, NEW p, IsPlaceIn(body, p)
  PROVE  /\ p.local \in Locals /\ IsVec(p.projections)
         /\ AsMoveKey(p).base = p.local /\ AsMoveKey(p).projections = Tracked(p.projections)
         /\ PointerCell \notin ToSet(p.projections)
         /\ AsMoveKey(p) \in MoveKeys(body) <=> p.local \notin CopyLocals
<1>1. AsMoveKey(p).base = p.local /\ AsMoveKey(p).projections = Tracked(p.projections)
  BY DEF AsMoveKey
<1>2. p.local \notin CopyLocals => AsMoveKey(p) \in MoveKeys(body)
  <2>1. CASE p \in PlacesNamed(body)
    BY <2>1, MoveKeysAre DEF KeysOfPlaces
  <2>2. ASSUME NEW l \in Locals, p = LocalPlace(l)
        PROVE  p.local \notin CopyLocals => AsMoveKey(p) \in MoveKeys(body)
    <3>1. AsMoveKey(p) = RootKey(l) /\ p.local = l
      BY <2>2, EmptyTracked DEF AsMoveKey, RootKey, LocalPlace, Place
    <3> QED
      BY <3>1, MoveKeysAre
  <2> QED
    BY <2>1, <2>2 DEF IsPlaceIn
<1>3. \A k \in MoveKeys(body) : k.base \notin CopyLocals
  BY MoveKeysAre DEF KeysOfPlaces, AsMoveKey, RootKey
<1>4. p.local \in Locals /\ IsVec(p.projections) /\ PointerCell \notin ToSet(p.projections)
  <2>1. CASE p \in PlacesNamed(body)
    BY <2>1, PlacesAssumption, CellsAssumption
  <2>2. ASSUME NEW l \in Locals, p = LocalPlace(l)
        PROVE  p.local \in Locals /\ IsVec(p.projections) /\ PointerCell \notin ToSet(p.projections)
    BY <2>2, EmptyTracked DEF LocalPlace, Place, ToSet
  <2> QED
    BY <2>1, <2>2 DEF IsPlaceIn
<1> QED
  BY <1>1, <1>2, <1>3, <1>4

LEMMA KeyTyped ==
  ASSUME NEW body \in Bodies, NEW k \in MoveKeys(body)
  PROVE  IsVec(k.projections) /\ k.base \in Locals /\ k.base \notin CopyLocals /\ Covers(k, k)
<1>1. IsVec(k.projections) /\ k.base \in Locals /\ k.base \notin CopyLocals
  <2>1. CASE \E l \in Locals \ CopyLocals : k = RootKey(l)
    BY <2>1, EmptyTracked DEF RootKey
  <2>2. ASSUME NEW p \in PlacesNamed(body), p.local \notin CopyLocals, k = AsMoveKey(p)
        PROVE  IsVec(k.projections) /\ k.base \in Locals /\ k.base \notin CopyLocals
    <3>1. p.local \in Locals /\ IsVec(p.projections)
      BY PlacesAssumption
    <3> QED
      BY <2>2, <3>1, TrackedIs DEF AsMoveKey
  <2> QED
    BY <2>1, <2>2, MoveKeysAre DEF KeysOfPlaces
<1>2. IsPrefix(k.projections, k.projections)
  BY <1>1, PrefixIs DEF IsVec
<1> QED
  BY <1>1, <1>2 DEF Covers

-----------------------------------------------------------------------------
\* Cells and their owners.
LEMMA CellTyped ==
  ASSUME NEW c \in Cells
  PROVE  /\ c.local \in Locals \ CopyLocals /\ c \in CellsOf(c.local) /\ IsVec(c.path)
         /\ \A l \in Locals : c \in CellsOf(l) <=> c.local = l
<1>1. PICK l \in Locals : c \in CellsOf(l)
  BY DEF Cells
<1>2. \A m \in Locals : c \in CellsOf(m) => c.local = m
  BY DEF CellsOf, Cell
<1>3. l \notin CopyLocals
  BY <1>1, CellsAssumption
<1> QED
  BY <1>1, <1>2, <1>3, CellsAssumption

\* Covering is being above everything the other is above.
LEMMA AboveCovered ==
  ASSUME NEW body \in Bodies, NEW k \in MoveKeys(body), NEW o \in MoveKeys(body),
         NEW c \in Cells, IsAbove(o, c)
  PROVE  /\ Covers(k, o) => IsAbove(k, c)
         /\ IsAbove(k, c) /\ Len(k.projections) <= Len(o.projections) => Covers(k, o)
<1>1. IsVec(k.projections) /\ IsVec(o.projections) /\ IsVec(c.path)
  BY KeyTyped, CellTyped
<1>2. ASSUME Covers(k, o) PROVE IsAbove(k, c)
  BY <1>1, <1>2, PrefixTransitive DEF Covers, IsAbove
<1>3. ASSUME IsAbove(k, c), Len(k.projections) <= Len(o.projections) PROVE Covers(k, o)
  BY <1>1, <1>3, PrefixesNest DEF Covers, IsAbove
<1> QED
  BY <1>2, <1>3

LEMMA OwnerIs ==
  ASSUME NEW body \in Bodies, NEW c \in Cells
  PROVE  LET k == OwnerKey(body, c)
         IN  /\ k \in MoveKeys(body) /\ IsAbove(k, c)
             /\ \A o \in MoveKeys(body) : IsAbove(o, c) => Len(o.projections) <= Len(k.projections)
<1> DEFINE M == MoveKeys(body)
           Longest(k) == /\ IsAbove(k, c)
                         /\ \A o \in M : IsAbove(o, c) => Len(o.projections) <= Len(k.projections)
           D == {Len(c.path) - Len(k.projections) : k \in {o \in M : IsAbove(o, c)}}
<1>1. IsVec(c.path) /\ Len(c.path) \in Nat /\ c.local \in Locals \ CopyLocals
  BY CellTyped DEF IsVec
<1>2. \A k \in M : Len(k.projections) \in Nat /\ IsVec(k.projections)
  BY KeyTyped DEF IsVec
<1>3. \A k \in M : IsAbove(k, c) => Len(k.projections) <= Len(c.path)
  BY <1>1, <1>2, PrefixIs DEF IsAbove
<1>4. D \in SUBSET Nat
  <2>1. ASSUME NEW k \in M, IsAbove(k, c) PROVE Len(c.path) - Len(k.projections) \in Nat
    <3>1. Len(k.projections) \in Nat /\ Len(k.projections) <= Len(c.path)
      BY <1>2, <1>3, <2>1
    <3> QED
      BY <3>1, <1>1
  <2> QED
    BY <2>1
<1>5. D # {}
  <2>1. RootKey(c.local) \in M
    BY <1>1, MoveKeysAre
  <2>2. IsPrefix(<<>>, c.path)
    BY <1>1, EmptyTracked, PrefixIs
  <2>3. IsAbove(RootKey(c.local), c)
    BY <2>2 DEF IsAbove, RootKey
  <2> QED
    BY <2>1, <2>3
<1>6. PICK d \in D : \A e \in D : d <= e
  BY <1>4, <1>5, NatMin
<1>7. PICK k \in M : IsAbove(k, c) /\ d = Len(c.path) - Len(k.projections)
  BY <1>6
<1>8. ASSUME NEW o \in M, IsAbove(o, c) PROVE Len(o.projections) <= Len(k.projections)
  <2>1. Len(c.path) - Len(o.projections) \in D
    BY <1>8
  <2>2. Len(c.path) - Len(k.projections) <= Len(c.path) - Len(o.projections)
    BY <2>1, <1>6, <1>7
  <2> QED
    BY <2>2, <1>1, <1>2
<1>9. OwnerKey(body, c) = CHOOSE j \in M : Longest(j)
  BY DEF OwnerKey
<1>10. \E j \in M : Longest(j)
  BY <1>7, <1>8
<1> HIDE DEF M
<1>11. OwnerKey(body, c) \in M /\ Longest(OwnerKey(body, c))
  BY <1>9, <1>10
<1> QED
  BY <1>11 DEF M

\* A key affects the owners of the cells below it and of no other.
LEMMA OwnerAffected ==
  ASSUME NEW body \in Bodies, NEW k \in MoveKeys(body), NEW c \in Cells
  PROVE  OwnerKey(body, c) \in AffectedMasks(body)[k] <=> IsAbove(k, c)
<1> DEFINE o == OwnerKey(body, c)
<1>1. o \in MoveKeys(body) /\ IsAbove(o, c)
  BY OwnerIs
<1>2. IsAbove(k, c) => Len(k.projections) <= Len(o.projections)
  BY OwnerIs
<1> HIDE DEF o
<1>3. Covers(k, o) <=> IsAbove(k, c)
  BY <1>1, <1>2, AboveCovered
<1>4. o \in AffectedMasks(body)[k] <=> Covers(k, o)
  BY <1>1, MasksAreMasks
<1> QED
  BY <1>3, <1>4 DEF o

\* The region of a place is what is below its key.
LEMMA RegionIs ==
  ASSUME NEW body \in Bodies, NEW p, IsPlaceIn(body, p), NEW c \in Cells
  PROVE  c \in Region(p) <=> p.local \notin CopyLocals /\ IsAbove(AsMoveKey(p), c)
<1> DEFINE t == Tracked(p.projections)
<1>1. /\ p.local \in Locals /\ IsVec(p.projections)
      /\ AsMoveKey(p).base = p.local /\ AsMoveKey(p).projections = t
  BY PlaceTyped
<1>2. /\ IsVec(c.path) /\ c.local \notin CopyLocals
      /\ c \in CellsOf(p.local) <=> c.local = p.local
  BY <1>1, CellTyped
<1>3. IsVec(t)
  BY <1>1, TrackedIs
<1>4. c \in Region(p) <=> c \in CellsOf(p.local) /\ (IsPrefix(t, c.path) \/ IsPrefix(c.path, t))
  BY DEF Region
<1>5. c \in Region(p) => IsPrefix(t, c.path)
  <2>1. CASE p \in PlacesNamed(body)
    BY <2>1, CellsAssumption
  <2>2. ASSUME NEW l \in Locals, p = LocalPlace(l) PROVE IsPrefix(t, c.path)
    <3>1. t = <<>>
      BY <2>2, EmptyTracked DEF LocalPlace, Place
    <3> QED
      BY <3>1, <1>2, EmptyTracked, PrefixIs
  <2> QED
    BY <2>1, <2>2 DEF IsPlaceIn
<1> HIDE DEF t
<1>6. IsAbove(AsMoveKey(p), c) <=> p.local = c.local /\ IsPrefix(t, c.path)
  BY <1>1 DEF IsAbove
<1> QED
  BY <1>2, <1>4, <1>5, <1>6

\* What marking the keys of some places does to the owner of a cell, moving or
\* assigning the places does to the cell.
LEMMA MarksReachRegion ==
  ASSUME NEW body \in Bodies, NEW W, \A p \in W : IsPlaceIn(body, p), NEW c \in Cells
  PROVE  OwnerKey(body, c) \in Affected(AffectedMasks(body), {AsMoveKey(p) : p \in W})
           <=> \E p \in W : c \in Region(p)
<1> DEFINE affected == AffectedMasks(body)
           o == OwnerKey(body, c)
<1>1. DOMAIN affected = MoveKeys(body)
  BY MasksAreMasks
<1>2. \A k \in MoveKeys(body) : o \in affected[k] <=> IsAbove(k, c)
  BY OwnerAffected
<1>3. \A p \in W : AsMoveKey(p) \in MoveKeys(body) <=> p.local \notin CopyLocals
  BY PlaceTyped
<1>4. \A p \in W : c \in Region(p) <=> p.local \notin CopyLocals /\ IsAbove(AsMoveKey(p), c)
  BY RegionIs
<1> HIDE DEF affected, o
<1>5. o \in Affected(affected, {AsMoveKey(p) : p \in W})
        <=> \E p \in W : AsMoveKey(p) \in MoveKeys(body) /\ o \in affected[AsMoveKey(p)]
  BY <1>1 DEF Affected
<1> QED
  BY <1>2, <1>3, <1>4, <1>5 DEF affected, o

-----------------------------------------------------------------------------
\* The operands of a sequence at every depth: those of the sequence, and index
\* operands of places among them.
LEMMA LevelsExist ==
  ASSUME NEW base, NEW n \in Nat
  PROVE  \E f : f = [d \in 0 .. n |-> IF d = 0 THEN base ELSE IndicesOf(f[d - 1])]
<1> DEFINE Is(f, k) == f = [d \in 0 .. k |-> IF d = 0 THEN base ELSE IndicesOf(f[d - 1])]
           T == {k \in Nat : \E f : Is(f, k)}
<1>1. 0 \in T
  <2> DEFINE f == [d \in 0 .. 0 |-> base]
  <2>1. Is(f, 0)
    OBVIOUS
  <2> QED
    BY <2>1
<1>2. ASSUME NEW k \in Nat, k \in T PROVE k + 1 \in T
  <2>1. PICK f : Is(f, k)
    BY <1>2
  <2>2. \A d \in 0 .. k : f[d] = IF d = 0 THEN base ELSE IndicesOf(f[d - 1])
    <3> DEFINE h == [d \in 0 .. k |-> IF d = 0 THEN base ELSE IndicesOf(f[d - 1])]
    <3>1. \A d \in 0 .. k : h[d] = IF d = 0 THEN base ELSE IndicesOf(f[d - 1])
      OBVIOUS
    <3>2. f = h
      BY <2>1
    <3> HIDE DEF h
    <3> QED
      BY <3>1, <3>2
  <2> DEFINE g == [d \in 0 .. (k + 1) |-> IF d = 0 THEN base ELSE IndicesOf(f[d - 1])]
  <2>3. \A d \in 0 .. k : g[d] = f[d]
    BY <2>2
  <2>4. \A d \in 0 .. (k + 1) : d # 0 => d - 1 \in 0 .. k
    OBVIOUS
  <2>5. \A d \in 0 .. (k + 1) : g[d] = IF d = 0 THEN base ELSE IndicesOf(g[d - 1])
    BY <2>3, <2>4
  <2>6. Is(g, k + 1)
    <3>1. g = [d \in 0 .. (k + 1) |-> g[d]]
      OBVIOUS
    <3> HIDE DEF g
    <3> QED
      BY <3>1, <2>5
  <2>7. \E h : Is(h, k + 1)
    BY <2>6
  <2> QED
    BY <2>7
<1> HIDE DEF T
<1>3. n \in T
  BY <1>1, <1>2, NatInd
<1> QED
  BY <1>3 DEF T

LEMMA AllOperandsAre ==
  ASSUME NEW ops
  PROVE  /\ ToSet(ops) \subseteq AllOperandsIn(ops)
         /\ AllOperandsIn(ops) \subseteq ToSet(ops) \cup IndicesOf(AllOperandsIn(ops))
<1> DEFINE base == ToSet(ops)
           n == MaxNesting
           Is(f) == f = [d \in 0 .. n |-> IF d = 0 THEN base ELSE IndicesOf(f[d - 1])]
           L == CHOOSE f : Is(f)
<1>1. n \in Nat
  BY NestingAssumption
<1>2. AllOperandsIn(ops) = UNION {L[d] : d \in 0 .. n}
  BY DEF AllOperandsIn
<1> HIDE DEF base, n
<1>3. \E f : Is(f)
  BY <1>1, LevelsExist
<1>4. Is(L)
  BY <1>3
<1> HIDE DEF L
<1>5. \A d \in 0 .. n : L[d] = IF d = 0 THEN base ELSE IndicesOf(L[d - 1])
  <2> DEFINE h == [d \in 0 .. n |-> IF d = 0 THEN base ELSE IndicesOf(L[d - 1])]
  <2>1. \A d \in 0 .. n : h[d] = IF d = 0 THEN base ELSE IndicesOf(L[d - 1])
    OBVIOUS
  <2>2. L = h
    BY <1>4
  <2> HIDE DEF h
  <2> QED
    BY <2>1, <2>2
<1>6. base \subseteq AllOperandsIn(ops)
  <2>1. 0 \in 0 .. n /\ L[0] = base
    BY <1>1, <1>5
  <2> QED
    BY <2>1, <1>2
<1>7. ASSUME NEW op \in AllOperandsIn(ops), op \notin base PROVE op \in IndicesOf(AllOperandsIn(ops))
  <2>1. PICK d \in 0 .. n : op \in L[d]
    BY <1>2
  <2>2. d # 0 /\ d - 1 \in 0 .. n /\ op \in IndicesOf(L[d - 1])
    BY <1>1, <1>5, <1>7, <2>1
  <2>3. L[d - 1] \subseteq AllOperandsIn(ops)
    BY <2>2, <1>2
  <2> QED
    BY <2>2, <2>3 DEF IndicesOf, PlacesOf
<1> QED
  BY <1>6, <1>7 DEF base

\* What is moved is moved at the outermost level: an index is never moved.
LEMMA MovedAre ==
  ASSUME NEW body \in Bodies, NEW ops, PlacesOf(AllOperandsIn(ops)) \subseteq PlacesNamed(body)
  PROVE  MovedKeys(ops) = {AsMoveKey(op.place) : op \in {o \in ToSet(ops) : o.kind = "Move"}}
<1>1. ASSUME NEW op \in IndicesOf(AllOperandsIn(ops)) PROVE op.kind # "Move"
  BY PlacesAssumption DEF IndicesOf
<1> QED
  BY <1>1, AllOperandsAre DEF MovedKeys

-----------------------------------------------------------------------------
\* The lines of a block.
LEMMA ConcatIs ==
  ASSUME NEW s, NEW t, IsVec(s), IsVec(t)
  PROVE  IsVec(s \o t) /\ ToSet(s \o t) = ToSet(s) \cup ToSet(t)
<1> DEFINE S == ToSet(s) \cup ToSet(t)
           u == s \o t
<1>1. s \in Seq(S) /\ t \in Seq(S)
  BY SeqMonotonic DEF IsVec
<1>2. ToSet(s) \subseteq S /\ ToSet(t) \subseteq S
  OBVIOUS
<1> HIDE DEF S
<1>3. Len(s) \in Nat /\ Len(t) \in Nat /\ DOMAIN s = 1 .. Len(s) /\ DOMAIN t = 1 .. Len(t)
  BY <1>1
<1>4. /\ u \in Seq(S) /\ Len(u) = Len(s) + Len(t) /\ DOMAIN u = 1 .. (Len(s) + Len(t))
      /\ \A i \in 1 .. Len(s) : u[i] = s[i]
      /\ \A i \in 1 .. Len(t) : u[Len(s) + i] = t[i]
  <2>1. u \in Seq(S) /\ Len(u) = Len(s) + Len(t)
    BY <1>1, ConcatProperties
  <2>2. \A i \in 1 .. Len(s) + Len(t) : u[i] = IF i <= Len(s) THEN s[i] ELSE t[i - Len(s)]
    BY <1>1, ConcatProperties
  <2>3. \A i \in 1 .. Len(s) : i \in 1 .. Len(s) + Len(t) /\ i <= Len(s)
    BY <1>3
  <2>4. \A i \in 1 .. Len(t) : /\ Len(s) + i \in 1 .. Len(s) + Len(t)
                               /\ ~ (Len(s) + i <= Len(s)) /\ Len(s) + i - Len(s) = i
    BY <1>3
  <2> HIDE DEF u
  <2> QED
    BY <2>1, <2>2, <2>3, <2>4
<1> HIDE DEF u
<1>5. ASSUME NEW i \in 1 .. (Len(s) + Len(t)) PROVE u[i] \in ToSet(s) \cup ToSet(t)
  <2>1. CASE i <= Len(s)
    BY <1>3, <1>4, <2>1 DEF ToSet
  <2>2. CASE ~ (i <= Len(s))
    <3>1. i - Len(s) \in 1 .. Len(t) /\ Len(s) + (i - Len(s)) = i
      BY <1>3, <2>2
    <3>2. u[i] = t[i - Len(s)]
      BY <3>1, <1>4
    <3> QED
      BY <1>3, <3>1, <3>2 DEF ToSet
  <2> QED
    BY <2>1, <2>2
<1>6. ToSet(u) \subseteq ToSet(s) \cup ToSet(t)
  BY <1>4, <1>5 DEF ToSet
<1>7. ToSet(s) \subseteq ToSet(u)
  <2>1. \A i \in 1 .. Len(s) : i \in DOMAIN u /\ u[i] = s[i]
    BY <1>3, <1>4
  <2> QED
    BY <2>1, <1>3 DEF ToSet
<1>8. ToSet(t) \subseteq ToSet(u)
  <2>1. \A i \in 1 .. Len(t) : Len(s) + i \in DOMAIN u /\ u[Len(s) + i] = t[i]
    BY <1>3, <1>4
  <2> QED
    BY <2>1, <1>3 DEF ToSet
<1>9. IsVec(u)
  <2>1. \A i \in 1 .. Len(u) : u[i] \in ToSet(u)
    BY <1>4 DEF ToSet
  <2> QED
    BY <2>1, <1>4 DEF IsVec
<1> QED
  BY <1>6, <1>7, <1>8, <1>9 DEF u

LEMMA BlockIs ==
  ASSUME NEW body \in Bodies, NEW b \in Blocks
  PROVE  LET block == body.blocks[b]
             n == LastLine(block)
         IN  /\ n \in Nat /\ n = Len(block.stmts) + 1 /\ n \in 1 .. n /\ Len(block.stmts) \in Nat
             /\ DOMAIN block.stmts = 1 .. Len(block.stmts)
             /\ DOMAIN Lines(block) = 1 .. n
             /\ Lines(block)[n] = TermLine(block.term) /\ BlockOps(block)[n] = TermOps(block.term)
             /\ \A i \in DOMAIN block.stmts :
                  /\ i \in 1 .. n
                  /\ Lines(block)[i] = StmtLine(block.stmts[i])
                  /\ BlockOps(block)[i] = StmtOps(block.stmts[i])
             /\ \A i \in 1 .. n : i \in DOMAIN block.stmts \/ i = n
             /\ TermDefs(block.term) \in SUBSET Locals
             /\ Succs(block.term) \in SUBSET Blocks
<1> DEFINE block == body.blocks[b]
           m == Len(block.stmts)
<1>1. m \in Nat /\ DOMAIN block.stmts = 1 .. m
  BY BodiesAssumption DEF WellFormed, IsVec
<1>2. TermDefs(block.term) \in SUBSET Locals /\ Succs(block.term) \in SUBSET Blocks
  BY BodiesAssumption DEF WellFormed, WellFormedTerm
<1>3. LastLine(block) = m + 1
  BY DEF LastLine
<1> HIDE DEF block, m
<1>4. \A i \in 1 .. (m + 1) : i \in 1 .. m \/ i = m + 1
  BY <1>1
<1>5. \A i \in 1 .. m : i \in 1 .. (m + 1) /\ i # m + 1
  BY <1>1
<1>6. m + 1 \in Nat /\ m + 1 \in 1 .. (m + 1)
  BY <1>1
<1>7. /\ DOMAIN Lines(block) = 1 .. (m + 1)
      /\ Lines(block)[m + 1] = TermLine(block.term)
      /\ BlockOps(block)[m + 1] = TermOps(block.term)
  BY <1>3, <1>6 DEF Lines, BlockOps
<1>8. \A i \in 1 .. m : /\ Lines(block)[i] = StmtLine(block.stmts[i])
                        /\ BlockOps(block)[i] = StmtOps(block.stmts[i])
  BY <1>3, <1>5 DEF Lines, BlockOps
<1> QED
  BY <1>1, <1>2, <1>3, <1>4, <1>5, <1>6, <1>7, <1>8 DEF block, m

MovedByLine(line) == {AsMoveKey(op.place) : op \in {o \in ToSet(line.accesses) : o.kind = "Move"}}
InitByLine(line) == {AsMoveKey(p) : p \in line.writes}

\* A line of the check and the operations of the analysis for it: the places
\* are places of the body, and the keys moved and initialised are the same.
LEMMA StmtLineIs ==
  ASSUME NEW body \in Bodies, NEW b \in Blocks, NEW i \in DOMAIN body.blocks[b].stmts
  PROVE  LET stmt == body.blocks[b].stmts[i]
             line == StmtLine(stmt)
         IN  /\ \A op \in ToSet(line.accesses) : IsPlaceOf(op) => op.place \in PlacesNamed(body)
             /\ line.writes \subseteq Dests(body) /\ line.writes \subseteq PlacesNamed(body)
             /\ MovedByLine(line) = StmtOps(stmt).moved
             /\ InitByLine(line) = StmtOps(stmt).init
<1> DEFINE stmt == body.blocks[b].stmts[i]
           line == StmtLine(stmt)
           inner == IF HasInnerPlace(stmt.rvalue) THEN <<Copy(stmt.rvalue.place)>> ELSE <<>>
           rv == RValueOperands(stmt.rvalue)
           ix == IndexOperands(stmt.dest)
<1>1. PlacesIn(stmt) \subseteq PlacesNamed(body)
  <2> DEFINE named(c) == UNION {PlacesIn(body.blocks[c].stmts[j]) : j \in DOMAIN body.blocks[c].stmts}
  <2>1. PlacesIn(stmt) \subseteq named(b)
    OBVIOUS
  <2>2. PlacesNamed(body) =
          UNION {named(c) \cup PlacesOf(AllOperandsIn(body.blocks[c].term.ops)) : c \in Blocks}
    BY DEF PlacesNamed
  <2> HIDE DEF named, stmt
  <2> QED
    BY <2>1, <2>2
<1>2. stmt.dest \in Dests(body)
  <2> DEFINE of(c) == {body.blocks[c].stmts[j].dest : j \in DOMAIN body.blocks[c].stmts}
  <2>1. stmt.dest \in of(b)
    OBVIOUS
  <2>2. Dests(body) = UNION {of(c) : c \in Blocks}
    BY DEF Dests
  <2> HIDE DEF of, stmt
  <2> QED
    BY <2>1, <2>2
<1>3. IsVec(rv) /\ IsVec(ix)
  BY PlacesAssumption
<1> HIDE DEF stmt, rv, ix
<1>4. /\ PlacesOf(AllOperandsIn(rv)) \subseteq PlacesNamed(body)
      /\ PlacesOf(AllOperandsIn(ix)) \subseteq PlacesNamed(body)
      /\ stmt.dest \in PlacesNamed(body)
      /\ HasInnerPlace(stmt.rvalue) => stmt.rvalue.place \in PlacesNamed(body)
  BY <1>1 DEF PlacesIn, InnerPlaces, rv, ix
<1>5. IsVec(inner) /\ \A op \in ToSet(inner) : op.kind = "Copy" /\ op.place \in PlacesNamed(body)
  <2>1. CASE HasInnerPlace(stmt.rvalue)
    <3> DEFINE op == Copy(stmt.rvalue.place)
    <3>1. op.kind = "Copy" /\ op.place \in PlacesNamed(body)
      BY <1>4, <2>1 DEF Copy
    <3>2. inner = <<op>>
      BY <2>1
    <3> HIDE DEF op, inner
    <3>3. IsVec(inner) /\ ToSet(inner) = {op}
      BY <3>2 DEF IsVec, ToSet
    <3> QED
      BY <3>1, <3>3
  <2>2. CASE ~ HasInnerPlace(stmt.rvalue)
    BY <2>2, EmptyTracked DEF ToSet
  <2> QED
    BY <2>1, <2>2
<1>6. line.accesses = (inner \o rv) \o ix /\ line.writes = {stmt.dest}
  BY DEF StmtLine, rv, ix
<1> HIDE DEF inner
<1>7. ToSet(line.accesses) = ToSet(inner) \cup ToSet(rv) \cup ToSet(ix)
  BY <1>3, <1>5, <1>6, ConcatIs
<1>8. \A op \in ToSet(line.accesses) : IsPlaceOf(op) => op.place \in PlacesNamed(body)
  <2>1. ToSet(rv) \subseteq AllOperandsIn(rv) /\ ToSet(ix) \subseteq AllOperandsIn(ix)
    BY AllOperandsAre
  <2> QED
    BY <2>1, <1>4, <1>5, <1>7 DEF PlacesOf
<1>9. /\ StmtOps(stmt).moved = MovedKeys(ix) \cup MovedKeys(rv)
      /\ StmtOps(stmt).init = {AsMoveKey(stmt.dest)}
  BY DEF StmtOps, rv, ix
<1>10. MovedByLine(line) = StmtOps(stmt).moved
  <2>1. /\ MovedKeys(rv) = {AsMoveKey(op.place) : op \in {o \in ToSet(rv) : o.kind = "Move"}}
        /\ MovedKeys(ix) = {AsMoveKey(op.place) : op \in {o \in ToSet(ix) : o.kind = "Move"}}
    BY <1>4, MovedAre
  <2>2. "Copy" # "Move"
    OBVIOUS
  <2>3. \A op \in ToSet(inner) : op.kind # "Move"
    BY <1>5, <2>2
  <2> QED
    BY <2>1, <2>3, <1>7, <1>9 DEF MovedByLine
<1>11. InitByLine(line) = StmtOps(stmt).init
  BY <1>6, <1>9 DEF InitByLine
<1> QED
  BY <1>2, <1>4, <1>6, <1>8, <1>10, <1>11 DEF stmt

LEMMA TermLineIs ==
  ASSUME NEW body \in Bodies, NEW b \in Blocks
  PROVE  LET term == body.blocks[b].term
             line == TermLine(term)
         IN  /\ \A op \in ToSet(line.accesses) : IsPlaceOf(op) => op.place \in PlacesNamed(body)
             /\ \A p \in line.writes : \E l \in Locals : p = LocalPlace(l)
             /\ MovedByLine(line) = TermOps(term).moved
             /\ InitByLine(line) = TermOps(term).init
<1> DEFINE term == body.blocks[b].term
           line == TermLine(term)
<1>1. PlacesOf(AllOperandsIn(term.ops)) \subseteq PlacesNamed(body)
  <2> DEFINE named(c) == UNION {PlacesIn(body.blocks[c].stmts[j]) : j \in DOMAIN body.blocks[c].stmts}
  <2>1. PlacesNamed(body) =
          UNION {named(c) \cup PlacesOf(AllOperandsIn(body.blocks[c].term.ops)) : c \in Blocks}
    BY DEF PlacesNamed
  <2> HIDE DEF named
  <2> QED
    BY <2>1
<1>2. TermDefs(term) \in SUBSET Locals
  BY BlockIs
<1> HIDE DEF term
<1>3. line.accesses = term.ops /\ line.writes = {LocalPlace(l) : l \in TermDefs(term)}
  BY DEF TermLine
<1>4. \A op \in ToSet(line.accesses) : IsPlaceOf(op) => op.place \in PlacesNamed(body)
  <2>1. ToSet(term.ops) \subseteq AllOperandsIn(term.ops)
    BY AllOperandsAre
  <2> QED
    BY <2>1, <1>1, <1>3 DEF PlacesOf
<1>5. MovedByLine(line) = TermOps(term).moved
  BY <1>1, <1>3, MovedAre DEF MovedByLine, TermOps
<1>6. \A l : AsMoveKey(LocalPlace(l)) = RootKey(l)
  BY EmptyTracked DEF AsMoveKey, RootKey, LocalPlace, Place
<1>7. InitByLine(line) = TermOps(term).init
  BY <1>3, <1>6 DEF InitByLine, TermOps
<1> QED
  BY <1>2, <1>3, <1>4, <1>5, <1>7 DEF term

LEMMA LineIs ==
  ASSUME NEW body \in Bodies, NEW b \in Blocks, NEW i \in 1 .. LastLine(body.blocks[b])
  PROVE  LET line == Lines(body.blocks[b])[i]
             ops == BlockOps(body.blocks[b])[i]
         IN  /\ IsVec(line.accesses)
             /\ \A op \in ToSet(line.accesses) : IsPlaceOf(op) => op.place \in PlacesNamed(body)
             /\ \A p \in line.writes : \/ p \in Dests(body) /\ p \in PlacesNamed(body)
                                       \/ \E l \in Locals : p = LocalPlace(l)
             /\ MovedByLine(line) = ops.moved /\ InitByLine(line) = ops.init
<1> DEFINE block == body.blocks[b]
<1>1. IsVec(Lines(block)[i].accesses)
  BY PlacesAssumption
<1>2. CASE i \in DOMAIN block.stmts
  <2>1. Lines(block)[i] = StmtLine(block.stmts[i]) /\ BlockOps(block)[i] = StmtOps(block.stmts[i])
    BY <1>2, BlockIs
  <2> QED
    BY <1>1, <1>2, <2>1, StmtLineIs
<1>3. CASE i = LastLine(block)
  <2>1. Lines(block)[i] = TermLine(block.term) /\ BlockOps(block)[i] = TermOps(block.term)
    BY <1>3, BlockIs
  <2> QED
    BY <1>1, <2>1, TermLineIs
<1> QED
  BY <1>2, <1>3, BlockIs

-----------------------------------------------------------------------------
\* The two encodings of the transfer function.
LEMMA LinesAgree ==
  ASSUME NEW body \in Bodies, NEW b \in Blocks, NEW i \in 1 .. LastLine(body.blocks[b]),
         NEW affected, NEW S
  PROVE  ApplyLine(affected, S, BlockOps(body.blocks[b])[i])
           = AfterLine(affected, S, Lines(body.blocks[b])[i])
<1> DEFINE line == Lines(body.blocks[b])[i]
           ops == BlockOps(body.blocks[b])[i]
<1>1. MovedByLine(line) = ops.moved /\ InitByLine(line) = ops.init
  BY LineIs
<1> HIDE DEF line, ops
<1>2. ApplyLine(affected, S, ops) = AfterLine(affected, S, line)
  BY <1>1 DEF ApplyLine, AfterLine, AfterAccesses, MovedByLine, InitByLine
<1> QED
  BY <1>2 DEF line, ops

LEMMA AfterLineTyped ==
  ASSUME NEW affected, IsMasks(affected), NEW S \in SUBSET FactsOf(affected), NEW line
  PROVE  AfterLine(affected, S, line) \in SUBSET FactsOf(affected)
BY MarksTyped DEF AfterLine, AfterAccesses

LEMMA AfterLineMonotone ==
  ASSUME NEW affected, NEW S, NEW T, S \subseteq T, NEW line
  PROVE  AfterLine(affected, S, line) \subseteq AfterLine(affected, T, line)
BY MarksMonotone DEF AfterLine, AfterAccesses

\* The replay of a block, line by line.
StepsOf(affected, block) ==
  [i \in 1 .. LastLine(block) |->
     [S \in SUBSET FactsOf(affected) |-> AfterLine(affected, S, Lines(block)[i])]]

LEMMA StepsTyped ==
  ASSUME NEW affected, IsMasks(affected), NEW block, NEW i \in 1 .. LastLine(block)
  PROVE  /\ StepsOf(affected, block)
              \in [1 .. LastLine(block) -> [SUBSET FactsOf(affected) -> SUBSET FactsOf(affected)]]
         /\ \A S \in SUBSET FactsOf(affected) :
              StepsOf(affected, block)[i][S] = AfterLine(affected, S, Lines(block)[i])
BY AfterLineTyped DEF StepsOf

Replays(affected, entry, block, f) ==
  /\ f \in [1 .. (LastLine(block) + 1) -> SUBSET FactsOf(affected)]
  /\ ChainsUp(LastLine(block), entry, StepsOf(affected, block), f)

LEMMA ReplayExists ==
  ASSUME NEW affected, IsMasks(affected), NEW entry \in SUBSET FactsOf(affected), NEW block,
         LastLine(block) \in Nat
  PROVE  \E f : Replays(affected, entry, block, f)
<1> DEFINE n == LastLine(block)
           X == SUBSET FactsOf(affected)
<1>1. StepsOf(affected, block) \in [1 .. n -> [X -> X]]
  BY AfterLineTyped DEF StepsOf
<1> HIDE DEF n, X
<1>2. \E f \in [1 .. (n + 1) -> X] : ChainsUp(n, entry, StepsOf(affected, block), f)
  BY <1>1, ChainUp DEF n, X
<1> QED
  BY <1>2 DEF Replays, n, X

LEMMA ReplaysStep ==
  ASSUME NEW affected, IsMasks(affected), NEW entry, NEW block, LastLine(block) \in Nat,
         NEW f, Replays(affected, entry, block, f)
  PROVE  /\ f[1] = entry
         /\ \A i \in 1 .. LastLine(block) : f[i + 1] = AfterLine(affected, f[i], Lines(block)[i])
         /\ \A i \in 1 .. (LastLine(block) + 1) : f[i] \in SUBSET FactsOf(affected)
<1> DEFINE n == LastLine(block)
           X == SUBSET FactsOf(affected)
<1>1. \A i \in 1 .. n : i \in 1 .. (n + 1)
  OBVIOUS
<1> HIDE DEF n, X
<1>2. f \in [1 .. (n + 1) -> X] /\ ChainsUp(n, entry, StepsOf(affected, block), f)
  BY DEF Replays, n, X
<1>3. \A i \in 1 .. n : \A S \in X :
         StepsOf(affected, block)[i][S] = AfterLine(affected, S, Lines(block)[i])
  BY StepsTyped DEF n, X
<1>4. ASSUME NEW i \in 1 .. n PROVE f[i + 1] = AfterLine(affected, f[i], Lines(block)[i])
  <2>1. f[i] \in X
    BY <1>1, <1>2
  <2>2. f[i + 1] = StepsOf(affected, block)[i][f[i]]
    BY <1>2 DEF ChainsUp
  <2> QED
    BY <2>1, <2>2, <1>3
<1> QED
  BY <1>2, <1>4 DEF n, X, ChainsUp

\* The replay is what its definition says: so are the block operations.
IsReplay(affected, entry, block, f) ==
  f = [k \in 1 .. (LastLine(block) + 1) |->
         IF k = 1 THEN entry ELSE AfterLine(affected, f[k - 1], Lines(block)[k - 1])]

LEMMA ReplaysAreReplays ==
  ASSUME NEW affected, IsMasks(affected), NEW entry \in SUBSET FactsOf(affected), NEW block,
         LastLine(block) \in Nat, NEW f
  PROVE  IsReplay(affected, entry, block, f) <=> Replays(affected, entry, block, f)
<1> DEFINE n == LastLine(block)
           X == SUBSET FactsOf(affected)
           after(S, i) == AfterLine(affected, S, Lines(block)[i])
           h == [k \in 1 .. (n + 1) |-> IF k = 1 THEN entry ELSE after(f[k - 1], k - 1)]
<1>1. \A k \in 1 .. (n + 1) : h[k] = IF k = 1 THEN entry ELSE after(f[k - 1], k - 1)
  OBVIOUS
<1>2. IsReplay(affected, entry, block, f) <=> f = h
  BY DEF IsReplay
<1>3. \A i \in 1 .. n : i \in 1 .. (n + 1) /\ i + 1 \in 1 .. (n + 1) /\ i + 1 # 1 /\ i + 1 - 1 = i
  OBVIOUS
<1>4. \A i \in 1 .. (n + 1) : i = 1 \/ (i - 1 \in 1 .. n /\ i - 1 + 1 = i)
  OBVIOUS
<1>5. \A i \in 1 .. n : \A S \in X : after(S, i) \in X
  BY AfterLineTyped
<1>6. \A i \in 1 .. n : \A S \in X : StepsOf(affected, block)[i][S] = after(S, i)
  BY StepsTyped
<1>7. 1 \in 1 .. (n + 1)
  OBVIOUS
<1>8. DOMAIN h = 1 .. (n + 1) /\ h = [k \in 1 .. (n + 1) |-> h[k]]
  OBVIOUS
<1>9. ASSUME Replays(affected, entry, block, f) PROVE f = h
  <2>1. f[1] = entry /\ \A i \in 1 .. n : f[i + 1] = after(f[i], i)
    BY <1>9, ReplaysStep
  <2>2. f \in [1 .. (n + 1) -> X]
    BY <1>9 DEF Replays
  <2> HIDE DEF h, n, X, after
  <2>3. \A k \in 1 .. (n + 1) : f[k] = h[k]
    BY <2>1, <1>1, <1>4
  <2> QED
    BY <2>2, <2>3, <1>8
<1>10. ASSUME f = h PROVE Replays(affected, entry, block, f)
  <2> DEFINE T == {k \in Nat : k \in 1 .. n => f[k + 1] \in X}
  <2> HIDE DEF h
  <2>1. f[1] = entry /\ DOMAIN f = 1 .. (n + 1)
    BY <1>1, <1>7, <1>8, <1>10
  <2>2. \A i \in 1 .. n : f[i + 1] = after(f[i], i)
    <3> TAKE i \in 1 .. n
    <3>1. i + 1 \in 1 .. (n + 1) /\ i + 1 # 1 /\ i + 1 - 1 = i
      BY <1>3
    <3> HIDE DEF after
    <3> QED
      BY <3>1, <1>1, <1>10
  <2> HIDE DEF X, after
  <2>3. 0 \in T
    OBVIOUS
  <2>4. ASSUME NEW k \in Nat, k \in T PROVE k + 1 \in T
    <3> SUFFICES ASSUME k + 1 \in 1 .. n PROVE f[k + 1 + 1] \in X
      OBVIOUS
    <3>1. f[k + 1] \in X
      <4>1. CASE k = 0
        BY <4>1, <2>1 DEF X
      <4>2. CASE k # 0
        <5>1. k \in 1 .. n
          BY <4>2
        <5> QED
          BY <5>1, <2>4
      <4> QED
        BY <4>1, <4>2
    <3>2. f[k + 1 + 1] = after(f[k + 1], k + 1)
      BY <2>2
    <3> QED
      BY <3>1, <3>2, <1>5
  <2> HIDE DEF T
  <2>5. \A k \in Nat : k \in T
    BY <2>3, <2>4, NatInd
  <2>6. \A i \in 1 .. n : f[i + 1] \in X
    <3>1. \A i \in 1 .. n : i \in Nat
      OBVIOUS
    <3> QED
      BY <3>1, <2>5 DEF T
  <2>7. \A i \in 1 .. (n + 1) : f[i] \in X
    <3> TAKE i \in 1 .. (n + 1)
    <3>1. CASE i = 1
      BY <3>1, <2>1 DEF X
    <3>2. CASE i # 1
      <4>1. i - 1 \in 1 .. n /\ i - 1 + 1 = i
        BY <3>2, <1>4
      <4> QED
        BY <4>1, <2>6
    <3> QED
      BY <3>1, <3>2
  <2>8. f = [k \in 1 .. (n + 1) |-> f[k]]
    BY <1>8, <1>10
  <2>9. f \in [1 .. (n + 1) -> X]
    BY <2>7, <2>8
  <2>10. \A i \in 1 .. n : f[i + 1] = StepsOf(affected, block)[i][f[i]]
    BY <2>2, <2>7, <1>3, <1>6
  <2> QED
    BY <2>1, <2>9, <2>10 DEF Replays, ChainsUp, X
<1> QED
  BY <1>2, <1>9, <1>10

\* Two replays of a block agree on its lines, and one from less stays below.
LEMMA ReplaysMonotone ==
  ASSUME NEW affected, IsMasks(affected), NEW block, LastLine(block) \in Nat,
         NEW S, NEW T, S \subseteq T, NEW f, Replays(affected, S, block, f),
         NEW g, Replays(affected, T, block, g)
  PROVE  \A i \in 1 .. (LastLine(block) + 1) : f[i] \subseteq g[i]
<1> DEFINE n == LastLine(block)
           B == {k \in Nat : k + 1 \in 1 .. (n + 1) => f[k + 1] \subseteq g[k + 1]}
<1>1. /\ f[1] = S /\ \A i \in 1 .. n : f[i + 1] = AfterLine(affected, f[i], Lines(block)[i])
      /\ g[1] = T /\ \A i \in 1 .. n : g[i + 1] = AfterLine(affected, g[i], Lines(block)[i])
  <2>1. f[1] = S /\ \A i \in 1 .. n : f[i + 1] = AfterLine(affected, f[i], Lines(block)[i])
    BY ReplaysStep
  <2>2. g[1] = T /\ \A i \in 1 .. n : g[i + 1] = AfterLine(affected, g[i], Lines(block)[i])
    BY ReplaysStep
  <2> QED
    BY <2>1, <2>2
<1>2. 0 \in B
  BY <1>1
<1>3. ASSUME NEW k \in Nat, k \in B PROVE k + 1 \in B
  <2> SUFFICES ASSUME k + 1 + 1 \in 1 .. (n + 1) PROVE f[k + 1 + 1] \subseteq g[k + 1 + 1]
    OBVIOUS
  <2>1. k + 1 \in 1 .. n /\ k + 1 \in 1 .. (n + 1)
    OBVIOUS
  <2>2. f[k + 1] \subseteq g[k + 1]
    BY <1>3, <2>1
  <2> QED
    BY <2>1, <2>2, <1>1, AfterLineMonotone
<1> HIDE DEF B
<1>4. \A k \in Nat : k \in B
  BY <1>2, <1>3, NatInd
<1> SUFFICES ASSUME NEW i \in 1 .. (n + 1) PROVE f[i] \subseteq g[i]
  OBVIOUS
<1>5. i - 1 \in Nat /\ i - 1 + 1 = i
  OBVIOUS
<1> QED
  BY <1>4, <1>5 DEF B

\* The replay of a block as a function of its lines.
ReplayOf(affected, entry, block) ==
  CHOOSE f : IsReplay(affected, entry, block, f)

LEMMA ReplayOfReplays ==
  ASSUME NEW affected, IsMasks(affected), NEW entry \in SUBSET FactsOf(affected), NEW block,
         LastLine(block) \in Nat
  PROVE  /\ Replays(affected, entry, block, ReplayOf(affected, entry, block))
         /\ \A i : ReplayTo(affected, entry, block, i) = ReplayOf(affected, entry, block)[i]
<1>1. \E f : IsReplay(affected, entry, block, f)
  BY ReplayExists, ReplaysAreReplays
<1>2. IsReplay(affected, entry, block, ReplayOf(affected, entry, block))
  BY <1>1 DEF ReplayOf
<1>3. \A i : ReplayTo(affected, entry, block, i) = ReplayOf(affected, entry, block)[i]
  BY DEF ReplayTo, ReplayOf, IsReplay
<1> QED
  BY <1>2, <1>3, ReplaysAreReplays

LEMMA BlockOpsReplay ==
  ASSUME NEW body \in Bodies, NEW b \in Blocks, NEW affected, IsMasks(affected),
         NEW entry \in SUBSET FactsOf(affected)
  PROVE  LET block == body.blocks[b]
         IN  ApplyOps(affected, entry, block) = ReplayOf(affected, entry, block)[LastLine(block) + 1]
<1> DEFINE block == body.blocks[b]
           n == LastLine(block)
           IsOps(f) == f = [i \in 1 .. (n + 1) |->
                              IF i = 1 THEN entry ELSE ApplyLine(affected, f[i - 1], BlockOps(block)[i - 1])]
           ops == CHOOSE f : IsOps(f)
           replay == ReplayOf(affected, entry, block)
<1>1. n \in Nat /\ n + 1 \in 1 .. (n + 1)
  BY BlockIs
<1>2. \A i \in 1 .. n : \A S :
        ApplyLine(affected, S, BlockOps(block)[i]) = AfterLine(affected, S, Lines(block)[i])
  BY LinesAgree
<1>3. ApplyOps(affected, entry, block) = ops[n + 1]
  BY DEF ApplyOps
<1>4. Replays(affected, entry, block, replay)
  BY <1>1, ReplayOfReplays
<1> HIDE DEF block, n, replay
<1>5. \A i \in 1 .. (n + 1) : i = 1 \/ i - 1 \in 1 .. n
  BY <1>1
<1>6. \A f : IsOps(f) <=> IsReplay(affected, entry, block, f)
  <2> TAKE f
  <2> DEFINE g == [i \in 1 .. (n + 1) |->
                     IF i = 1 THEN entry ELSE ApplyLine(affected, f[i - 1], BlockOps(block)[i - 1])]
             h == [i \in 1 .. (n + 1) |->
                     IF i = 1 THEN entry ELSE AfterLine(affected, f[i - 1], Lines(block)[i - 1])]
  <2>1. g = h
    BY <1>2, <1>5
  <2>2. IsOps(f) <=> f = g
    OBVIOUS
  <2>3. IsReplay(affected, entry, block, f) <=> f = h
    BY DEF IsReplay, n
  <2> HIDE DEF g, h, IsOps
  <2> QED
    BY <2>1, <2>2, <2>3
<1> HIDE DEF IsOps
<1>7. IsReplay(affected, entry, block, replay)
  BY <1>1, <1>4, ReplaysAreReplays DEF n
<1>8. Replays(affected, entry, block, ops)
  <2>1. IsOps(ops)
    BY <1>6, <1>7
  <2> HIDE DEF ops
  <2> QED
    BY <2>1, <1>1, <1>6, ReplaysAreReplays DEF n
<1> HIDE DEF ops
<1>9. ops[n + 1] \subseteq replay[n + 1] /\ replay[n + 1] \subseteq ops[n + 1]
  <2>1. LastLine(block) \in Nat /\ entry \subseteq entry
    BY <1>1 DEF n
  <2>2. \A i \in 1 .. (LastLine(block) + 1) : ops[i] \subseteq replay[i]
    BY <2>1, <1>4, <1>8, ReplaysMonotone
  <2>3. \A i \in 1 .. (LastLine(block) + 1) : replay[i] \subseteq ops[i]
    BY <2>1, <1>4, <1>8, ReplaysMonotone
  <2> QED
    BY <1>1, <2>2, <2>3 DEF n
<1> QED
  BY <1>3, <1>9 DEF block, n, replay

-----------------------------------------------------------------------------
\* The analysis solves its equations: it allows for the start of the body, and
\* for what the replay of a block leaves at each of its successors.
LEMMA BlockTransfer ==
  ASSUME NEW body \in Bodies, NEW b \in Blocks, NEW affected, IsMasks(affected),
         NEW S \in SUBSET FactsOf(affected), NEW T \in SUBSET FactsOf(affected)
  PROVE  /\ ApplyOps(affected, S, body.blocks[b]) \in SUBSET FactsOf(affected)
         /\ S \subseteq T =>
              ApplyOps(affected, S, body.blocks[b]) \subseteq ApplyOps(affected, T, body.blocks[b])
<1> DEFINE block == body.blocks[b]
           n == LastLine(block)
           f == ReplayOf(affected, S, block)
           g == ReplayOf(affected, T, block)
<1>1. n \in Nat /\ n + 1 \in 1 .. (n + 1)
  BY BlockIs
<1>2. Replays(affected, S, block, f) /\ Replays(affected, T, block, g)
  BY <1>1, ReplayOfReplays
<1>3. ApplyOps(affected, S, block) = f[n + 1] /\ ApplyOps(affected, T, block) = g[n + 1]
  BY BlockOpsReplay
<1> HIDE DEF f, g, block
<1>4. f[n + 1] \in SUBSET FactsOf(affected)
  <2>1. \A i \in 1 .. (LastLine(block) + 1) : f[i] \in SUBSET FactsOf(affected)
    BY <1>1, <1>2, ReplaysStep
  <2> QED
    BY <2>1, <1>1
<1>5. ASSUME S \subseteq T PROVE f[n + 1] \subseteq g[n + 1]
  <2>1. \A i \in 1 .. (LastLine(block) + 1) : f[i] \subseteq g[i]
    BY <1>1, <1>2, <1>5, ReplaysMonotone
  <2> QED
    BY <2>1, <1>1
<1> QED
  BY <1>3, <1>4, <1>5 DEF block

LEMMA InitIsProblem ==
  ASSUME NEW body \in Bodies
  PROVE  LET affected == AffectedMasks(body)
             p == InitProblem(body, affected)
         IN  /\ IsFiniteSet(FactsOf(affected))
             /\ IsProblem(p, FactsOf(affected)) /\ IsMonotone(p, FactsOf(affected))
             /\ \A b \in Blocks : \A S \in SUBSET FactsOf(affected) :
                  p.transfer[b][S] = ApplyOps(affected, S, body.blocks[b])
<1> DEFINE affected == AffectedMasks(body)
           F == FactsOf(affected)
           p == InitProblem(body, affected)
<1>1. IsMasks(affected) /\ DOMAIN affected = MoveKeys(body)
  BY MasksAreMasks
<1>2. IsFiniteSet(F)
  <2>1. IsFiniteSet({"init"} \cup {"uninit"})
    BY FS_Singleton, FS_Union
  <2>2. IsFiniteSet(DOMAIN affected)
    BY <1>1, PlacesAssumption
  <2> HIDE DEF affected
  <2> QED
    BY <2>1, <2>2, FS_Product DEF FactsOf
<1> HIDE DEF affected
<1>3. EntryState(body, affected) \in SUBSET F
  <2>1. (DOMAIN affected) \X {"uninit"} \in SUBSET F
    BY DEF FactsOf
  <2> QED
    BY <2>1, <1>1, MarksTyped DEF EntryState
<1>4. p.graph \in Graphs
  <2>1. body.entry \in Blocks
    BY BodiesAssumption DEF WellFormed
  <2>2. \A b \in Blocks : Succs(body.blocks[b].term) \in SUBSET Blocks
    BY BlockIs
  <2> QED
    BY <2>1, <2>2 DEF InitProblem, GraphOf, Graphs
<1>5. \A b \in Blocks : \A S \in SUBSET F : ApplyOps(affected, S, body.blocks[b]) \in SUBSET F
  BY <1>1, BlockTransfer
<1>6. p.seed = EntryState(body, affected)
      /\ p.transfer = [b \in Blocks |-> [S \in SUBSET F |-> ApplyOps(affected, S, body.blocks[b])]]
  BY DEF InitProblem
<1> HIDE DEF p, F
<1>7. IsProblem(p, F)
  BY <1>3, <1>4, <1>5, <1>6 DEF IsProblem
<1>8. \A b \in Blocks : \A S \in SUBSET F : p.transfer[b][S] = ApplyOps(affected, S, body.blocks[b])
  BY <1>6
<1>9. IsMonotone(p, F)
  <2>1. ASSUME NEW b \in Blocks, NEW S \in SUBSET F, NEW T \in SUBSET F, S \subseteq T
        PROVE  p.transfer[b][S] \subseteq p.transfer[b][T]
    <3>1. ApplyOps(affected, S, body.blocks[b]) \subseteq ApplyOps(affected, T, body.blocks[b])
      BY <1>1, <2>1, BlockTransfer DEF F
    <3> QED
      BY <3>1, <1>8
  <2> QED
    BY <2>1 DEF IsMonotone
<1> QED
  BY <1>2, <1>7, <1>8, <1>9 DEF affected, p, F

LEMMA InitInFlows ==
  ASSUME NEW body \in Bodies, NEW b \in Blocks
  PROVE  LET affected == AffectedMasks(body)
             ins == InitIn(body, affected)
         IN  /\ ins[b] \in SUBSET FactsOf(affected)
             /\ b = body.entry => EntryState(body, affected) \subseteq ins[b]
             /\ \A c \in Succs(body.blocks[b].term) :
                  ApplyOps(affected, ins[b], body.blocks[b]) \subseteq ins[c]
<1> DEFINE affected == AffectedMasks(body)
           F == FactsOf(affected)
           p == InitProblem(body, affected)
           s == LeastSolution(p, F)
<1>1. /\ IsFiniteSet(F) /\ IsProblem(p, F) /\ IsMonotone(p, F)
      /\ \A S \in SUBSET F : p.transfer[b][S] = ApplyOps(affected, S, body.blocks[b])
  BY InitIsProblem
<1>2. /\ p.direction = "Forward" /\ p.seed = EntryState(body, affected)
      /\ p.graph.entry = body.entry
      /\ \A a \in Blocks : p.graph.succs[a] = Succs(body.blocks[a].term)
  BY DEF InitProblem, GraphOf
<1>3. InitIn(body, affected) = s.ins
  BY DEF InitIn
<1> HIDE DEF affected, F, p
<1>4. \A a \in Blocks : /\ s.ins[a] \in SUBSET F /\ s.outs[a] \in SUBSET F
                        /\ s.ins[a] = FromPreds(p, s.outs, a) \cup SeedAt(p, a)
                        /\ s.outs[a] = p.transfer[a][s.ins[a]]
  BY <1>1, <1>2, LeastSolutionSolves
<1> HIDE DEF s
<1>5. b = body.entry => EntryState(body, affected) \subseteq s.ins[b]
  BY <1>2, <1>4 DEF SeedAt
<1>6. ASSUME NEW c \in Succs(body.blocks[b].term)
      PROVE  ApplyOps(affected, s.ins[b], body.blocks[b]) \subseteq s.ins[c]
  <2>1. c \in Blocks
    BY BlockIs
  <2>2. s.outs[b] = ApplyOps(affected, s.ins[b], body.blocks[b])
    BY <1>1, <1>4
  <2>3. b \in Preds(p.graph, c)
    BY <1>2, <1>6 DEF Preds
  <2> QED
    BY <2>1, <2>2, <2>3, <1>4 DEF FromPreds
<1> QED
  BY <1>3, <1>4, <1>5, <1>6 DEF affected, F

-----------------------------------------------------------------------------
\* The pointer cell a Deref of a key reads, seen from the places that reach it.
PointerAt(k, i) == Cell(k.base, Append(SubSeq(k.projections, 1, i - 1), PointerCell))

LEMMA PathToPointer ==
  ASSUME NEW s, IsVec(s), NEW i \in 1 .. Len(s), NEW t, IsVec(t)
  PROVE  LET u == Append(SubSeq(s, 1, i - 1), PointerCell)
         IN  /\ PointerCell \notin ToSet(t) /\ IsPrefix(t, u) => IsPrefix(t, s)
             /\ IsPrefix(t, s) /\ Len(t) < i => IsPrefix(t, u)
<1> DEFINE w == SubSeq(s, 1, i - 1)
           u == Append(w, PointerCell)
           S == ToSet(s) \cup {PointerCell}
<1>1. s \in Seq(S) /\ Len(s) \in Nat /\ PointerCell \in S /\ Len(t) \in Nat
  BY SeqMonotonic DEF IsVec
<1> HIDE DEF S
<1>2. i \in Nat /\ i - 1 \in Nat /\ i - 1 <= Len(s) /\ 1 <= i /\ i <= Len(s)
  BY <1>1
<1>3. w \in Seq(S) /\ Len(w) = i - 1 /\ \A j \in 1 .. (i - 1) : w[j] = s[j]
  BY <1>1, <1>2
<1> HIDE DEF w
<1>4. /\ u \in Seq(S) /\ Len(u) = i /\ u[i] = PointerCell
      /\ \A j \in 1 .. (i - 1) : u[j] = s[j]
  BY <1>1, <1>2, <1>3
<1> HIDE DEF u
<1>5. IsVec(u)
  <2>1. \A j \in 1 .. Len(u) : u[j] \in ToSet(u)
    BY <1>4 DEF ToSet
  <2> QED
    BY <2>1, <1>2, <1>4 DEF IsVec
<1>6. ASSUME PointerCell \notin ToSet(t), IsPrefix(t, u) PROVE IsPrefix(t, s)
  <2>1. Len(t) <= i /\ \A j \in 1 .. Len(t) : t[j] = u[j]
    BY <1>4, <1>5, <1>6, PrefixIs
  <2>2. Len(t) # i
    <3> SUFFICES ASSUME Len(t) = i PROVE FALSE
      OBVIOUS
    <3>1. i \in DOMAIN t /\ t[i] = PointerCell
      BY <2>1, <1>1, <1>2, <1>4 DEF IsVec
    <3> QED
      BY <3>1, <1>6 DEF ToSet
  <2>3. Len(t) <= Len(s) /\ \A j \in 1 .. Len(t) : t[j] = s[j]
    BY <2>1, <2>2, <1>1, <1>2, <1>4
  <2> QED
    BY <2>3, PrefixIs
<1>7. ASSUME IsPrefix(t, s), Len(t) < i PROVE IsPrefix(t, u)
  <2>1. \A j \in 1 .. Len(t) : t[j] = s[j]
    BY <1>7, PrefixIs
  <2>2. Len(t) <= Len(u) /\ \A j \in 1 .. Len(t) : t[j] = u[j]
    BY <2>1, <1>1, <1>2, <1>4, <1>7
  <2> QED
    BY <2>2, <1>5, PrefixIs
<1> QED
  BY <1>6, <1>7 DEF u, w

LEMMA PointerReached ==
  ASSUME NEW body \in Bodies, NEW k \in MoveKeys(body), NEW i \in DOMAIN k.projections,
         PointerAt(k, i) \in Cells, NEW p, IsPlaceIn(body, p)
  PROVE  /\ PointerAt(k, i) \in Region(p) => AsMoveKey(p) \in MoveKeys(body) /\ Covers(AsMoveKey(p), k)
         /\ Covers(AsMoveKey(p), k) /\ Len(Tracked(p.projections)) < i => PointerAt(k, i) \in Region(p)
<1> DEFINE q == PointerAt(k, i)
           t == Tracked(p.projections)
<1>1. IsVec(k.projections) /\ k.base \notin CopyLocals /\ i \in 1 .. Len(k.projections)
  BY KeyTyped DEF IsVec
<1>2. q.local = k.base /\ q.path = Append(SubSeq(k.projections, 1, i - 1), PointerCell)
  BY DEF PointerAt, Cell
<1>3. /\ IsVec(p.projections) /\ AsMoveKey(p).base = p.local /\ AsMoveKey(p).projections = t
      /\ PointerCell \notin ToSet(p.projections)
      /\ AsMoveKey(p) \in MoveKeys(body) <=> p.local \notin CopyLocals
  BY PlaceTyped
<1>4. IsVec(t) /\ PointerCell \notin ToSet(t)
  <2>1. IsVec(t) /\ Len(t) \in Nat /\ Len(t) <= Len(p.projections)
        /\ \A j \in 1 .. Len(t) : t[j] = p.projections[j]
    BY <1>3, TrackedIs
  <2> HIDE DEF t
  <2>2. DOMAIN t = 1 .. Len(t) /\ DOMAIN p.projections = 1 .. Len(p.projections)
        /\ Len(p.projections) \in Nat
    BY <1>3, <2>1 DEF IsVec
  <2>3. \A j \in DOMAIN t : j \in DOMAIN p.projections /\ t[j] = p.projections[j]
    BY <2>1, <2>2
  <2> QED
    BY <2>1, <2>3, <1>3 DEF ToSet
<1>5. q \in Region(p) <=> p.local \notin CopyLocals /\ IsAbove(AsMoveKey(p), q)
  BY RegionIs
<1> HIDE DEF q, t
<1>6. IsPrefix(t, q.path) => IsPrefix(t, k.projections)
  BY <1>1, <1>2, <1>4, PathToPointer
<1>7. IsPrefix(t, k.projections) /\ Len(t) < i => IsPrefix(t, q.path)
  BY <1>1, <1>2, <1>4, PathToPointer
<1> QED
  BY <1>1, <1>2, <1>3, <1>5, <1>6, <1>7 DEF IsAbove, Covers, q, t

-----------------------------------------------------------------------------
\* A state of the check accounts for the cells that hold a value and for the
\* ones that do not, and a key is marked when a pointer on the way is gone.
PresentIsInit(body, S, cells) ==
  \A c \in Cells : c \in cells => <<OwnerKey(body, c), "init">> \in S

AbsentIsUninit(body, S, cells) ==
  \A c \in Cells : c \notin cells => <<OwnerKey(body, c), "uninit">> \in S

PointersAreCovered(body, S, cells) ==
  \A k \in MoveKeys(body) : \A i \in DOMAIN k.projections :
    k.projections[i].kind = "Deref" /\ PointerAt(k, i) \in Cells /\ PointerAt(k, i) \notin cells
      => <<k, "uninit">> \in S

Accounts(body, S, cells) ==
  /\ PresentIsInit(body, S, cells)
  /\ StoresWhole(body) => AbsentIsUninit(body, S, cells)
  /\ StoresDirectly(body) => PointersAreCovered(body, S, cells)

LEMMA AccountsMonotone ==
  ASSUME NEW body, NEW S, NEW T, S \subseteq T, NEW cells, Accounts(body, S, cells)
  PROVE  Accounts(body, T, cells)
BY DEF Accounts, PresentIsInit, AbsentIsUninit, PointersAreCovered

\* Moving out of some places.
LEMMA EmptyingKeeps ==
  ASSUME NEW body \in Bodies, NEW W, \A p \in W : IsPlaceIn(body, p),
         NEW S, NEW cells, Accounts(body, S, cells)
  PROVE  Accounts(body, MarkUninit(AffectedMasks(body), S, {AsMoveKey(p) : p \in W}),
                  cells \ UNION {Region(p) : p \in W})
<1> DEFINE affected == AffectedMasks(body)
           keys == {AsMoveKey(p) : p \in W}
           T == MarkUninit(affected, S, keys)
           left == cells \ UNION {Region(p) : p \in W}
<1>1. \A o : /\ <<o, "uninit">> \in T <=> <<o, "uninit">> \in S \/ o \in Affected(affected, keys)
             /\ <<o, "init">> \in T <=> <<o, "init">> \in S /\ o \notin Affected(affected, keys)
  BY MarkUninitIs
<1>2. \A c \in Cells : OwnerKey(body, c) \in Affected(affected, keys) <=> \E p \in W : c \in Region(p)
  BY MarksReachRegion
<1>3. \A c : c \in left <=> c \in cells /\ ~ \E p \in W : c \in Region(p)
  OBVIOUS
<1> HIDE DEF T, left
<1>4. PresentIsInit(body, T, left)
  BY <1>1, <1>2, <1>3 DEF Accounts, PresentIsInit
<1>5. AbsentIsUninit(body, S, cells) => AbsentIsUninit(body, T, left)
  BY <1>1, <1>2, <1>3 DEF AbsentIsUninit
<1>6. ASSUME PointersAreCovered(body, S, cells) PROVE PointersAreCovered(body, T, left)
  <2> SUFFICES ASSUME NEW k \in MoveKeys(body), NEW i \in DOMAIN k.projections,
                      k.projections[i].kind = "Deref", PointerAt(k, i) \in Cells,
                      PointerAt(k, i) \notin left
               PROVE  <<k, "uninit">> \in T
    BY DEF PointersAreCovered
  <2>1. CASE PointerAt(k, i) \notin cells
    <3>1. <<k, "uninit">> \in S
      BY <2>1, <1>6 DEF PointersAreCovered
    <3> QED
      BY <3>1, <1>1
  <2>2. CASE PointerAt(k, i) \in cells
    <3>1. PICK p \in W : PointerAt(k, i) \in Region(p)
      BY <2>2, <1>3
    <3>2. AsMoveKey(p) \in MoveKeys(body) /\ Covers(AsMoveKey(p), k)
      BY <3>1, PointerReached
    <3>3. DOMAIN affected = MoveKeys(body) /\ k \in affected[AsMoveKey(p)]
      BY <3>2, MasksAreMasks
    <3>4. k \in Affected(affected, keys)
      BY <3>2, <3>3 DEF Affected
    <3> QED
      BY <3>4, <1>1
  <2> QED
    BY <2>1, <2>2
<1> QED
  BY <1>4, <1>5, <1>6 DEF Accounts, T, left

\* A destination of a body, or the whole local a call assigns.
IsDest(body, p) == p \in Dests(body) \/ \E l \in Locals : p = LocalPlace(l)

LEMMA DestIs ==
  ASSUME NEW body \in Bodies, NEW p, IsDest(body, p)
  PROVE  /\ StoresWhole(body) => Fills(p) = Region(p)
         /\ StoresDirectly(body) =>
              \A i \in DOMAIN p.projections : p.projections[i].kind \notin {"Deref", "Index"}
         /\ Fills(p) \subseteq Region(p)
<1>1. Fills(p) \subseteq Region(p)
  BY DEF Fills
<1>2. CASE p \in Dests(body)
  BY <1>1, <1>2 DEF StoresWhole, StoresDirectly, Fills, IsElement
<1>3. ASSUME NEW l \in Locals, p = LocalPlace(l)
      PROVE  DOMAIN p.projections = {} /\ Fills(p) = Region(p)
  <2>1. p.projections = <<>>
    BY <1>3 DEF LocalPlace, Place
  <2>2. DOMAIN p.projections = {}
    BY <2>1
  <2> QED
    BY <2>2 DEF Fills, IsElement
<1> QED
  BY <1>1, <1>2, <1>3 DEF IsDest

\* Assigning some places.
LEMMA FillingKeeps ==
  ASSUME NEW body \in Bodies, NEW W, \A p \in W : IsPlaceIn(body, p) /\ IsDest(body, p),
         NEW S, NEW cells, Accounts(body, S, cells)
  PROVE  Accounts(body, MarkInit(AffectedMasks(body), S, {AsMoveKey(p) : p \in W}),
                  cells \cup UNION {Fills(p) : p \in W})
<1> DEFINE affected == AffectedMasks(body)
           keys == {AsMoveKey(p) : p \in W}
           T == MarkInit(affected, S, keys)
           filled == cells \cup UNION {Fills(p) : p \in W}
<1>1. \A o : /\ <<o, "init">> \in T <=> <<o, "init">> \in S \/ o \in Affected(affected, keys)
             /\ <<o, "uninit">> \in T <=> <<o, "uninit">> \in S /\ o \notin Affected(affected, keys)
  BY MarkInitIs
<1>2. \A c \in Cells : OwnerKey(body, c) \in Affected(affected, keys) <=> \E p \in W : c \in Region(p)
  BY MarksReachRegion
<1>3. \A c : c \in filled <=> c \in cells \/ \E p \in W : c \in Fills(p)
  OBVIOUS
<1>4. \A p \in W : /\ StoresWhole(body) => Fills(p) = Region(p)
                   /\ StoresDirectly(body) =>
                        \A i \in DOMAIN p.projections : p.projections[i].kind \notin {"Deref", "Index"}
                   /\ Fills(p) \subseteq Region(p)
  BY DestIs
<1> HIDE DEF T, filled
<1>5. PresentIsInit(body, T, filled)
  BY <1>1, <1>2, <1>3, <1>4 DEF Accounts, PresentIsInit
<1>6. StoresWhole(body) /\ AbsentIsUninit(body, S, cells) => AbsentIsUninit(body, T, filled)
  BY <1>1, <1>2, <1>3, <1>4 DEF AbsentIsUninit
<1>7. ASSUME StoresDirectly(body), PointersAreCovered(body, S, cells)
      PROVE  PointersAreCovered(body, T, filled)
  <2> SUFFICES ASSUME NEW k \in MoveKeys(body), NEW i \in DOMAIN k.projections,
                      k.projections[i].kind = "Deref", PointerAt(k, i) \in Cells,
                      PointerAt(k, i) \notin filled
               PROVE  <<k, "uninit">> \in T
    BY DEF PointersAreCovered
  <2>1. <<k, "uninit">> \in S
    BY <1>3, <1>7 DEF PointersAreCovered
  <2>2. ASSUME k \in Affected(affected, keys) PROVE FALSE
    <3>1. PICK p \in W : AsMoveKey(p) \in DOMAIN affected /\ k \in affected[AsMoveKey(p)]
      BY <2>2 DEF Affected
    <3>2. Covers(AsMoveKey(p), k)
      BY <3>1, MasksAreMasks
    <3>3. PointerAt(k, i) \notin Region(p)
      BY <1>3, <1>4, <1>7 DEF StoresDirectly
    <3>4. ~ (Len(Tracked(p.projections)) < i)
      BY <3>2, <3>3, PointerReached
    <3>5. IsVec(p.projections) /\ IsVec(k.projections)
      BY PlaceTyped, KeyTyped
    <3> DEFINE t == Tracked(p.projections)
    <3>6. /\ IsVec(t) /\ Len(t) \in Nat /\ Len(t) <= Len(p.projections)
          /\ \A j \in 1 .. Len(t) : t[j] = p.projections[j]
      BY <3>5, TrackedIs
    <3>7. IsPrefix(t, k.projections)
      BY <3>2 DEF Covers, AsMoveKey
    <3> HIDE DEF t
    <3>8. i \in 1 .. Len(t) /\ i \in DOMAIN p.projections
      BY <3>4, <3>5, <3>6 DEF IsVec, t
    <3>9. t[i] = k.projections[i] /\ t[i] = p.projections[i]
      BY <3>5, <3>6, <3>7, <3>8, PrefixIs
    <3>10. p.projections[i].kind = "Deref"
      BY <3>9
    <3> QED
      BY <3>8, <3>10, <1>4, <1>7
  <2> QED
    BY <2>1, <2>2, <1>1
<1> QED
  BY <1>5, <1>6, <1>7 DEF Accounts, StoresDirectly, T, filled

-----------------------------------------------------------------------------
\* What the verdicts say of the cells.
LEMMA QueryIs ==
  ASSUME NEW affected, NEW S, NEW k
  PROVE  /\ Query(affected, S, k) = "Init" =>
              \/ k \notin DOMAIN affected
              \/ \A o \in affected[k] : <<o, "uninit">> \notin S
         /\ Query(affected, S, k) = "Uninit" =>
              k \in DOMAIN affected /\ \A o \in affected[k] : <<o, "init">> \notin S
<1> DEFINE only(what, never) == \A o \in affected[k] : <<o, what>> \in S /\ <<o, never>> \notin S
<1>1. Query(affected, S, k) =
        IF k \notin DOMAIN affected \/ only("init", "uninit") THEN "Init"
        ELSE IF only("uninit", "init") THEN "Uninit" ELSE "Maybe"
  BY DEF Query
<1>2. only("init", "uninit") => \A o \in affected[k] : <<o, "uninit">> \notin S
  OBVIOUS
<1>3. only("uninit", "init") => \A o \in affected[k] : <<o, "init">> \notin S
  OBVIOUS
<1> HIDE DEF only
<1>4. "Init" # "Uninit" /\ "Init" # "Maybe" /\ "Uninit" # "Maybe"
  OBVIOUS
<1> QED
  BY <1>1, <1>2, <1>3, <1>4

LEMMA RegionOwners ==
  ASSUME NEW body \in Bodies, NEW p, IsPlaceIn(body, p), NEW c \in Region(p)
  PROVE  /\ c \in Cells /\ AsMoveKey(p) \in MoveKeys(body)
         /\ OwnerKey(body, c) \in AffectedMasks(body)[AsMoveKey(p)]
<1>1. p.local \in Locals
  BY PlaceTyped
<1>2. c \in Cells
  BY <1>1 DEF Region, Cells
<1>3. p.local \notin CopyLocals /\ IsAbove(AsMoveKey(p), c)
  BY <1>2, RegionIs
<1>4. AsMoveKey(p) \in MoveKeys(body)
  BY <1>3, PlaceTyped
<1> QED
  BY <1>2, <1>3, <1>4, OwnerAffected

LEMMA InitMeansThere ==
  ASSUME NEW body \in Bodies, StoresDirectly(body), NEW S, NEW cells, Accounts(body, S, cells),
         NEW p \in PlacesNamed(body), Query(AffectedMasks(body), S, AsMoveKey(p)) = "Init"
  PROVE  Needs(p) \subseteq cells
<1> DEFINE affected == AffectedMasks(body)
           k == AsMoveKey(p)
           t == Tracked(p.projections)
<1>1. IsPlaceIn(body, p)
  BY DEF IsPlaceIn
<1>2. /\ p.local \in Locals /\ IsVec(p.projections) /\ k.base = p.local /\ k.projections = t
      /\ k \in MoveKeys(body) <=> p.local \notin CopyLocals
  BY <1>1, PlaceTyped
<1>3. /\ DOMAIN affected = MoveKeys(body)
      /\ \A o : k \in MoveKeys(body) => (o \in affected[k] <=> o \in MoveKeys(body) /\ Covers(k, o))
  BY MasksAreMasks
<1>4. k \in MoveKeys(body) => \A o \in affected[k] : <<o, "uninit">> \notin S
  BY <1>3, QueryIs
<1>5. AbsentIsUninit(body, S, cells) /\ PointersAreCovered(body, S, cells)
  BY DEF Accounts, StoresDirectly
<1>6. Region(p) \subseteq cells
  <2> SUFFICES ASSUME NEW c \in Region(p) PROVE c \in cells
    OBVIOUS
  <2>1. c \in Cells /\ k \in MoveKeys(body) /\ OwnerKey(body, c) \in affected[k]
    BY <1>1, RegionOwners
  <2> QED
    BY <2>1, <1>4, <1>5 DEF AbsentIsUninit
<1>7. PointersTo(p) \subseteq cells
  <2> SUFFICES ASSUME NEW q \in PointersTo(p) PROVE q \in cells
    OBVIOUS
  <2>1. PICK i \in DOMAIN p.projections :
          /\ p.projections[i].kind \in {"Deref", "Index"}
          /\ q = Cell(p.local, Append(SubSeq(p.projections, 1, i - 1), PointerCell))
    BY DEF PointersTo
  <2>2. q \in Cells /\ q.local = p.local
        /\ q.path = Append(SubSeq(p.projections, 1, i - 1), PointerCell)
    BY <2>1 DEF PointersTo, Cell
  <2>3. p.local \notin CopyLocals /\ k \in MoveKeys(body)
    BY <1>2, <2>2, CellTyped
  <2>4. /\ IsVec(t) /\ Len(t) \in Nat /\ Len(t) <= Len(p.projections)
        /\ \A j \in 1 .. Len(t) : t[j] = p.projections[j] /\ p.projections[j].kind # "Index"
        /\ IsPrefix(t, p.projections)
    BY <1>2, TrackedIs
  <2>5. i \in 1 .. Len(p.projections) /\ Len(p.projections) \in Nat
        /\ p.projections \in Seq(ToSet(p.projections))
    BY <1>2 DEF IsVec
  <2> HIDE DEF t
  <2>6. CASE i <= Len(t)
    <3>1. i \in 1 .. Len(t) /\ i \in DOMAIN t /\ i - 1 \in Nat /\ i - 1 <= Len(t)
      BY <2>4, <2>5, <2>6 DEF IsVec
    <3>2. t[i].kind = "Deref"
      BY <3>1, <2>1, <2>4
    <3>3. SubSeq(t, 1, i - 1) = SubSeq(p.projections, 1, i - 1)
      <4> DEFINE P == ToSet(t) \cup ToSet(p.projections)
      <4>1. t \in Seq(P) /\ p.projections \in Seq(P)
        BY <2>4, <2>5, SeqMonotonic DEF IsVec
      <4> HIDE DEF P
      <4> DEFINE u == SubSeq(t, 1, i - 1)
                 v == SubSeq(p.projections, 1, i - 1)
      <4>2. u \in Seq(P) /\ Len(u) = i - 1 /\ \A j \in 1 .. (i - 1) : u[j] = t[j]
        BY <4>1, <3>1, <2>4
      <4>3. v \in Seq(P) /\ Len(v) = i - 1 /\ \A j \in 1 .. (i - 1) : v[j] = p.projections[j]
        BY <4>1, <3>1, <2>4, <2>5
      <4>4. \A j \in 1 .. (i - 1) : j \in 1 .. Len(t)
        BY <3>1, <2>4
      <4> HIDE DEF u, v
      <4>5. u = v
        BY <4>2, <4>3, <4>4, <2>4, SeqEqual
      <4> QED
        BY <4>5 DEF u, v
    <3>4. PointerAt(k, i) = q
      BY <3>3, <1>2, <2>1 DEF PointerAt, t
    <3>5. k \in affected[k]
      BY <2>3, <1>3, KeyTyped
    <3>6. <<k, "uninit">> \notin S
      BY <3>5, <2>3, <1>4
    <3>7. i \in DOMAIN k.projections /\ k.projections[i].kind = "Deref"
      BY <3>1, <3>2, <1>2 DEF t
    <3> QED
      BY <3>4, <3>6, <3>7, <2>2, <2>3, <1>5 DEF PointersAreCovered
  <2>7. CASE ~ (i <= Len(t))
    <3>1. Len(t) < i
      BY <2>4, <2>5, <2>7
    <3>2. IsPrefix(t, q.path)
      BY <3>1, <2>2, <2>4, <2>5, <1>2, PathToPointer
    <3>3. q \in CellsOf(p.local)
      BY <1>2, <2>2, CellTyped
    <3>4. q \in Region(p)
      BY <3>2, <3>3 DEF Region, t
    <3> QED
      BY <3>4, <1>6
  <2> QED
    BY <2>6, <2>7
<1> QED
  BY <1>6, <1>7 DEF Needs

LEMMA UninitMeansGone ==
  ASSUME NEW body \in Bodies, NEW S, NEW cells, Accounts(body, S, cells),
         NEW p \in PlacesNamed(body), Query(AffectedMasks(body), S, AsMoveKey(p)) = "Uninit"
  PROVE  ~ (Needs(p) \subseteq cells)
<1> DEFINE affected == AffectedMasks(body)
           k == AsMoveKey(p)
<1>1. IsPlaceIn(body, p)
  BY DEF IsPlaceIn
<1>2. k \in DOMAIN affected /\ \A o \in affected[k] : <<o, "init">> \notin S
  BY QueryIs
<1>3. p.local \notin CopyLocals
  BY <1>1, <1>2, PlaceTyped, MasksAreMasks
<1>4. PICK c \in Region(p) : TRUE
  BY <1>3, CellsAssumption
<1>5. c \in Cells /\ OwnerKey(body, c) \in affected[k]
  BY <1>1, RegionOwners
<1>6. c \notin cells
  BY <1>2, <1>5 DEF Accounts, PresentIsInit
<1> QED
  BY <1>4, <1>6 DEF Needs

-----------------------------------------------------------------------------
\* The state of the check after j accesses of line i of block b.
InsOf(body) == InitIn(body, AffectedMasks(body))

At(body, b, i, j) == ReplayWithin(AffectedMasks(body), InsOf(body)[b], body.blocks[b], i, j)

KeyMoved(op) == IF op.kind = "Move" THEN {AsMoveKey(op.place)} ELSE {}

LEMMA MarkNone ==
  ASSUME NEW affected, NEW S
  PROVE  MarkUninit(affected, S, {}) = S
<1>1. Affected(affected, {}) = {}
  BY DEF Affected
<1> QED
  BY <1>1 DEF MarkUninit

LEMMA MarkUninitTwice ==
  ASSUME NEW affected, NEW S, NEW K, NEW L
  PROVE  MarkUninit(affected, MarkUninit(affected, S, K), L) = MarkUninit(affected, S, K \cup L)
<1> DEFINE A == Affected(affected, K)
           B == Affected(affected, L)
<1>1. Affected(affected, K \cup L) = A \cup B
  BY DEF Affected
<1> HIDE DEF A, B
<1> DEFINE I(X) == X \X {"init"}
           U(X) == X \X {"uninit"}
<1>2. I(A \cup B) = I(A) \cup I(B) /\ U(A \cup B) = U(A) \cup U(B)
  OBVIOUS
<1>3. U(A) \cap I(B) = {}
  OBVIOUS
<1> HIDE DEF I, U
<1>4. (((S \ I(A)) \cup U(A)) \ I(B)) \cup U(B) = (S \ (I(A) \cup I(B))) \cup (U(A) \cup U(B))
  BY <1>3
<1>5. (((S \ I(A)) \cup U(A)) \ I(B)) \cup U(B) = (S \ I(A \cup B)) \cup U(A \cup B)
  BY <1>2, <1>4
<1>6. MarkUninit(affected, MarkUninit(affected, S, K), L)
        = (((S \ I(A)) \cup U(A)) \ I(B)) \cup U(B)
  BY DEF MarkUninit, A, B, I, U
<1>7. MarkUninit(affected, S, K \cup L) = (S \ I(A \cup B)) \cup U(A \cup B)
  BY <1>1 DEF MarkUninit, I, U
<1> QED
  BY <1>5, <1>6, <1>7

LEMMA AtFirstAccess ==
  ASSUME NEW body, NEW b, NEW i
  PROVE  At(body, b, i, 0) = ReplayTo(AffectedMasks(body), InsOf(body)[b], body.blocks[b], i)
<1>1. {Lines(body.blocks[b])[i].accesses[k] : k \in 1 .. 0} = {}
  OBVIOUS
<1> QED
  BY <1>1, MarkNone DEF At, ReplayWithin, AfterAccesses

LEMMA AtEntry ==
  ASSUME NEW body \in Bodies, NEW b \in Blocks
  PROVE  /\ At(body, b, 1, 0) = InsOf(body)[b]
         /\ InsOf(body)[b] \in SUBSET FactsOf(AffectedMasks(body))
<1> DEFINE affected == AffectedMasks(body)
           entry == InsOf(body)[b]
           block == body.blocks[b]
           replay == ReplayOf(affected, entry, block)
<1>1. entry \in SUBSET FactsOf(affected)
  BY InitInFlows DEF InsOf
<1>2. IsMasks(affected) /\ LastLine(block) \in Nat
  BY MasksAreMasks, BlockIs
<1>3. At(body, b, 1, 0) = ReplayTo(affected, entry, block, 1)
  BY AtFirstAccess
<1> HIDE DEF affected, entry, block
<1>4. ReplayTo(affected, entry, block, 1) = replay[1] /\ Replays(affected, entry, block, replay)
  BY <1>1, <1>2, ReplayOfReplays
<1>5. replay[1] = entry
  BY <1>2, <1>4, ReplaysStep
<1> QED
  BY <1>1, <1>3, <1>4, <1>5 DEF affected, entry

LEMMA AtNextAccess ==
  ASSUME NEW body, NEW b, NEW i, NEW j \in Nat
  PROVE  At(body, b, i, j + 1)
           = MarkUninit(AffectedMasks(body), At(body, b, i, j),
                        KeyMoved(Lines(body.blocks[b])[i].accesses[j + 1]))
<1> DEFINE affected == AffectedMasks(body)
           accesses == Lines(body.blocks[b])[i].accesses
           S == ReplayTo(affected, InsOf(body)[b], body.blocks[b], i)
           keys(n) == {AsMoveKey(op.place) : op \in {o \in {accesses[k] : k \in 1 .. n} : o.kind = "Move"}}
<1>1. \A n : At(body, b, i, n) = MarkUninit(affected, S, keys(n))
  BY DEF At, ReplayWithin, AfterAccesses
<1> HIDE DEF affected, S, accesses
<1>2. 1 .. (j + 1) = (1 .. j) \cup {j + 1}
  OBVIOUS
<1>3. {accesses[k] : k \in 1 .. (j + 1)} = {accesses[k] : k \in 1 .. j} \cup {accesses[j + 1]}
  BY <1>2
<1>4. keys(j + 1) = keys(j) \cup KeyMoved(accesses[j + 1])
  <2> DEFINE A == {accesses[k] : k \in 1 .. j}
             B == {accesses[k] : k \in 1 .. (j + 1)}
             op == accesses[j + 1]
  <2>1. B = A \cup {op}
    BY <1>3
  <2> HIDE DEF A, B, op
  <2>2. {AsMoveKey(p.place) : p \in {o \in B : o.kind = "Move"}}
          = {AsMoveKey(p.place) : p \in {o \in A : o.kind = "Move"}} \cup KeyMoved(op)
    BY <2>1 DEF KeyMoved
  <2> QED
    BY <2>2 DEF A, B, op
<1> HIDE DEF keys
<1>5. MarkUninit(affected, S, keys(j + 1))
        = MarkUninit(affected, MarkUninit(affected, S, keys(j)), KeyMoved(accesses[j + 1]))
  BY <1>4, MarkUninitTwice
<1> QED
  BY <1>1, <1>5 DEF affected, accesses

\* Storing at the end of a line leads to the next one, and at the end of the
\* last one to the successors of the block.
LEMMA AtNextLine ==
  ASSUME NEW body \in Bodies, NEW b \in Blocks, NEW i \in 1 .. LastLine(body.blocks[b])
  PROVE  LET block == body.blocks[b]
             line == Lines(block)[i]
             done == MarkInit(AffectedMasks(body), At(body, b, i, Len(line.accesses)), InitByLine(line))
         IN  /\ i # LastLine(block) => done = At(body, b, i + 1, 0)
             /\ i = LastLine(block) => \A c \in Succs(block.term) : done \subseteq At(body, c, 1, 0)
<1> DEFINE affected == AffectedMasks(body)
           entry == InsOf(body)[b]
           block == body.blocks[b]
           n == LastLine(block)
           line == Lines(block)[i]
           replay == ReplayOf(affected, entry, block)
           done == MarkInit(affected, At(body, b, i, Len(line.accesses)), InitByLine(line))
<1>1. entry \in SUBSET FactsOf(affected) /\ IsMasks(affected) /\ n \in Nat
  BY AtEntry, MasksAreMasks, BlockIs
<1>2. Replays(affected, entry, block, replay)
      /\ \A k : ReplayTo(affected, entry, block, k) = replay[k]
  BY <1>1, ReplayOfReplays
<1>3. replay[i + 1] = AfterLine(affected, replay[i], line)
  BY <1>1, <1>2, ReplaysStep
<1>4. ToSet(line.accesses) = {line.accesses[k] : k \in 1 .. Len(line.accesses)}
  <2>1. IsVec(line.accesses)
    BY LineIs
  <2> HIDE DEF line
  <2> QED
    BY <2>1 DEF IsVec, ToSet
<1>5. At(body, b, i, Len(line.accesses)) = AfterAccesses(affected, replay[i], ToSet(line.accesses))
  BY <1>2, <1>4 DEF At, ReplayWithin
<1>6. done = replay[i + 1]
  BY <1>3, <1>5 DEF AfterLine, InitByLine
<1>7. At(body, b, i + 1, 0) = replay[i + 1]
  BY <1>2, AtFirstAccess
<1>8. ASSUME i = n, NEW c \in Succs(block.term) PROVE done \subseteq At(body, c, 1, 0)
  <2>1. c \in Blocks
    BY BlockIs
  <2>2. ApplyOps(affected, entry, block) = replay[n + 1]
    BY <1>1, BlockOpsReplay
  <2>3. ApplyOps(affected, entry, block) \subseteq InsOf(body)[c]
    BY InitInFlows DEF InsOf
  <2>4. At(body, c, 1, 0) = InsOf(body)[c]
    BY <2>1, AtEntry
  <2> HIDE DEF replay, done, affected, entry
  <2> QED
    BY <2>2, <2>3, <2>4, <1>6, <1>8
<1> HIDE DEF done
<1> QED
  BY <1>6, <1>7, <1>8 DEF done

\* The start of a body.
LEMMA AtStart ==
  ASSUME NEW body \in Bodies
  PROVE  Accounts(body, At(body, body.entry, 1, 0), UNION {CellsOf(l) : l \in ToSet(body.params)})
<1> DEFINE affected == AffectedMasks(body)
           S == (DOMAIN affected) \X {"uninit"}
           W == {LocalPlace(l) : l \in ToSet(body.params)}
<1>1. body.entry \in Blocks /\ ToSet(body.params) \subseteq Locals
  BY BodiesAssumption DEF WellFormed
<1>2. DOMAIN affected = MoveKeys(body)
  BY MasksAreMasks
<1>3. \A c \in Cells : OwnerKey(body, c) \in MoveKeys(body)
  BY OwnerIs
<1>4. Accounts(body, S, {})
  <2> HIDE DEF affected
  <2> QED
    BY <1>2, <1>3 DEF Accounts, PresentIsInit, AbsentIsUninit, PointersAreCovered
<1>5. \A p \in W : IsPlaceIn(body, p) /\ IsDest(body, p)
  BY <1>1 DEF IsPlaceIn, IsDest
<1> HIDE DEF S
<1>6. Accounts(body, MarkInit(affected, S, {AsMoveKey(p) : p \in W}), {} \cup UNION {Fills(p) : p \in W})
  <2> HIDE DEF W
  <2> QED
    BY <1>4, <1>5, FillingKeeps
<1>7. \A l : AsMoveKey(LocalPlace(l)) = RootKey(l) /\ LocalPlace(l).local = l
             /\ LocalPlace(l).projections = <<>>
  BY EmptyTracked DEF AsMoveKey, RootKey, LocalPlace, Place
<1>8. {AsMoveKey(p) : p \in W} = {RootKey(l) : l \in ToSet(body.params)}
  BY <1>7
<1>9. \A l \in ToSet(body.params) : Fills(LocalPlace(l)) = CellsOf(l)
  <2> TAKE l \in ToSet(body.params)
  <2>1. ~ IsElement(LocalPlace(l))
    BY <1>7 DEF IsElement
  <2>2. \A c \in CellsOf(l) : IsPrefix(Tracked(<<>>), c.path)
    <3> TAKE c \in CellsOf(l)
    <3>1. c \in Cells
      BY <1>1 DEF Cells
    <3> QED
      BY <3>1, CellTyped, EmptyTracked, PrefixIs
  <2>3. Region(LocalPlace(l)) = CellsOf(l)
    BY <2>2, <1>7 DEF Region
  <2> QED
    BY <2>1, <2>3 DEF Fills
<1>10. UNION {Fills(p) : p \in W} = UNION {CellsOf(l) : l \in ToSet(body.params)}
  BY <1>9
<1>11. EntryState(body, affected) = MarkInit(affected, S, {AsMoveKey(p) : p \in W})
  BY <1>8 DEF EntryState, S
<1>12. EntryState(body, affected) \subseteq At(body, body.entry, 1, 0)
  <2>1. EntryState(body, affected) \subseteq InsOf(body)[body.entry]
    BY <1>1, InitInFlows DEF InsOf
  <2>2. At(body, body.entry, 1, 0) = InsOf(body)[body.entry]
    BY <1>1, AtEntry
  <2> HIDE DEF affected
  <2> QED
    BY <2>1, <2>2
<1> HIDE DEF W, affected
<1> DEFINE filled == UNION {CellsOf(l) : l \in ToSet(body.params)}
<1>13. {} \cup UNION {Fills(p) : p \in W} = filled
  BY <1>10
<1> HIDE DEF filled
<1>14. Accounts(body, EntryState(body, affected), filled)
  BY <1>6, <1>11, <1>13
<1>15. Accounts(body, At(body, body.entry, 1, 0), filled)
  BY <1>12, <1>14, AccountsMonotone
<1> QED
  BY <1>15 DEF filled

-----------------------------------------------------------------------------
\* One step of an execution on the cells, beside one step of the check.
Site(b, i, j) == [blk |-> b, line |-> i, access |-> j]

LEMMA SitesAre ==
  ASSUME NEW body \in Bodies, NEW b \in Blocks, NEW i \in 1 .. LastLine(body.blocks[b]),
         NEW j \in DOMAIN Lines(body.blocks[b])[i].accesses,
         IsPlaceOf(Lines(body.blocks[b])[i].accesses[j])
  PROVE  Site(b, i, j) \in Sites(body)
<1> DEFINE lines == Lines(body.blocks[b])
<1>1. i \in DOMAIN lines
  BY BlockIs
<1> HIDE DEF lines
<1>2. Site(b, i, j) \in SitesOf(b, lines)
  BY <1>1 DEF SitesOf, Site, lines
<1> QED
  BY <1>2 DEF Sites, lines

LEMMA SitesAreAccesses ==
  ASSUME NEW body \in Bodies, NEW s \in Sites(body)
  PROVE  /\ s.blk \in Blocks /\ s.line \in 1 .. LastLine(body.blocks[s.blk])
         /\ s.access \in DOMAIN Lines(body.blocks[s.blk])[s.line].accesses
         /\ IsPlaceOf(Lines(body.blocks[s.blk])[s.line].accesses[s.access])
         /\ s = Site(s.blk, s.line, s.access)
<1>1. PICK b \in Blocks : s \in SitesOf(b, Lines(body.blocks[b]))
  BY DEF Sites
<1> DEFINE lines == Lines(body.blocks[b])
<1>2. DOMAIN lines = 1 .. LastLine(body.blocks[b])
  BY BlockIs
<1>3. PICK i \in DOMAIN lines :
        s \in {Site(b, i, j) : j \in {k \in DOMAIN lines[i].accesses : IsPlaceOf(lines[i].accesses[k])}}
  BY <1>1 DEF SitesOf, Site
<1>4. PICK j \in DOMAIN lines[i].accesses : s = Site(b, i, j) /\ IsPlaceOf(lines[i].accesses[j])
  BY <1>3
<1>5. s.blk = b /\ s.line = i /\ s.access = j
  BY <1>4 DEF Site
<1> QED
  BY <1>2, <1>4, <1>5

LEMMA CodeIs ==
  ASSUME NEW body \in Bodies, NEW b \in Blocks, NEW i \in 1 .. LastLine(body.blocks[b])
  PROVE  CodeOf(body)[b][i] = CellLine(Lines(body.blocks[b])[i])
BY DEF CodeOf

LEMMA CellLineIs ==
  ASSUME NEW line
  PROVE  /\ DOMAIN CellLine(line).accesses = DOMAIN line.accesses
         /\ \A j \in DOMAIN line.accesses : CellLine(line).accesses[j] = CellAccess(line.accesses[j])
         /\ CellLine(line).needs = UNION {PointersTo(p) : p \in line.writes}
         /\ CellLine(line).fills = UNION {Fills(p) : p \in line.writes}
BY DEF CellLine

LEMMA AccessKeeps ==
  ASSUME NEW body \in Bodies, NEW b \in Blocks, NEW i \in 1 .. LastLine(body.blocks[b]),
         NEW j \in DOMAIN Lines(body.blocks[b])[i].accesses,
         NEW cells, Accounts(body, At(body, b, i, j - 1), cells)
  PROVE  Accounts(body, At(body, b, i, j),
                  cells \ CellAccess(Lines(body.blocks[b])[i].accesses[j]).empties)
<1> DEFINE line == Lines(body.blocks[b])[i]
           op == line.accesses[j]
           S == At(body, b, i, j - 1)
           W == IF op.kind = "Move" THEN {op.place} ELSE {}
<1>1. IsVec(line.accesses)
      /\ \A o \in ToSet(line.accesses) : IsPlaceOf(o) => o.place \in PlacesNamed(body)
  BY LineIs
<1> HIDE DEF line
<1>2. j \in 1 .. Len(line.accesses) /\ Len(line.accesses) \in Nat
  BY <1>1 DEF IsVec, line
<1>3. j - 1 \in Nat /\ j - 1 + 1 = j
  BY <1>2
<1>4. At(body, b, i, j) = MarkUninit(AffectedMasks(body), S, KeyMoved(op))
  <2>1. At(body, b, i, j - 1 + 1)
          = MarkUninit(AffectedMasks(body), At(body, b, i, j - 1),
                       KeyMoved(Lines(body.blocks[b])[i].accesses[j - 1 + 1]))
    BY <1>3, AtNextAccess
  <2> QED
    BY <1>3, <2>1 DEF line
<1>5. op \in ToSet(line.accesses)
  BY <1>1, <1>2 DEF ToSet, IsVec
<1>6. Accounts(body, S, cells)
  OBVIOUS
<1> HIDE DEF S, op
<1>7. \A p \in W : IsPlaceIn(body, p)
  BY <1>1, <1>5 DEF IsPlaceOf, IsPlaceIn
<1>8. KeyMoved(op) = {AsMoveKey(p) : p \in W}
  BY DEF KeyMoved
<1>9. CellAccess(op).empties = UNION {Region(p) : p \in W}
  BY DEF CellAccess
<1> HIDE DEF W
<1>10. Accounts(body, MarkUninit(AffectedMasks(body), S, {AsMoveKey(p) : p \in W}),
                cells \ UNION {Region(p) : p \in W})
  BY <1>6, <1>7, EmptyingKeeps
<1> QED
  BY <1>4, <1>8, <1>9, <1>10 DEF op, line

LEMMA CleanAccess ==
  ASSUME NEW body \in Bodies, NEW b \in Blocks, NEW i \in 1 .. LastLine(body.blocks[b]),
         NEW j \in DOMAIN Lines(body.blocks[b])[i].accesses,
         NEW cells, Accounts(body, At(body, b, i, j - 1), cells),
         StoresDirectly(body), Diagnostics(body, AffectedMasks(body), InsOf(body)) = {}
  PROVE  CellAccess(Lines(body.blocks[b])[i].accesses[j]).needs \subseteq cells
<1> DEFINE line == Lines(body.blocks[b])[i]
           op == line.accesses[j]
           verdict(s) == Verdict(AffectedMasks(body), InsOf(body)[s.blk], body.blocks[s.blk],
                                 s.line, s.access)
<1>1. CASE ~ IsPlaceOf(op)
  BY <1>1 DEF CellAccess
<1>2. CASE IsPlaceOf(op)
  <2>1. Site(b, i, j) \in Sites(body)
    BY <1>2, SitesAre
  <2>2. \A s \in Sites(body) : verdict(s) = "Init"
    BY DEF Diagnostics
  <2>3. verdict(Site(b, i, j)) = "Init"
    <3> HIDE DEF verdict
    <3> QED
      BY <2>1, <2>2
  <2>4. Query(AffectedMasks(body), At(body, b, i, j - 1), AsMoveKey(op.place)) = "Init"
    BY <2>3 DEF Verdict, At, Site
  <2>5. op.place \in PlacesNamed(body)
    <3>1. IsVec(line.accesses)
          /\ \A o \in ToSet(line.accesses) : IsPlaceOf(o) => o.place \in PlacesNamed(body)
      BY LineIs
    <3>2. op \in ToSet(line.accesses)
      BY DEF ToSet
    <3> QED
      BY <3>1, <3>2, <1>2
  <2> HIDE DEF op
  <2>6. Needs(op.place) \subseteq cells
    BY <2>4, <2>5, InitMeansThere
  <2>7. CellAccess(op).needs = Needs(op.place)
    BY <1>2 DEF CellAccess
  <2> QED
    BY <2>6, <2>7 DEF op
<1> QED
  BY <1>1, <1>2

LEMMA StoreKeeps ==
  ASSUME NEW body \in Bodies, NEW b \in Blocks, NEW i \in 1 .. LastLine(body.blocks[b]),
         NEW S, NEW cells, Accounts(body, S, cells)
  PROVE  LET line == Lines(body.blocks[b])[i]
         IN  /\ Accounts(body, MarkInit(AffectedMasks(body), S, InitByLine(line)),
                         cells \cup CellLine(line).fills)
             /\ StoresDirectly(body) => CellLine(line).needs \subseteq cells
<1> DEFINE line == Lines(body.blocks[b])[i]
<1>1. \A p \in line.writes : \/ p \in Dests(body) /\ p \in PlacesNamed(body)
                             \/ \E l \in Locals : p = LocalPlace(l)
  BY LineIs
<1> HIDE DEF line
<1>2. \A p \in line.writes : IsPlaceIn(body, p) /\ IsDest(body, p)
  BY <1>1 DEF IsPlaceIn, IsDest
<1>3. Accounts(body, MarkInit(AffectedMasks(body), S, {AsMoveKey(p) : p \in line.writes}),
               cells \cup UNION {Fills(p) : p \in line.writes})
  BY <1>2, FillingKeeps
<1>4. ASSUME StoresDirectly(body), NEW p \in line.writes PROVE PointersTo(p) = {}
  <2>1. \A k \in DOMAIN p.projections : p.projections[k].kind \notin {"Deref", "Index"}
    BY <1>2, <1>4, DestIs
  <2> QED
    BY <2>1 DEF PointersTo
<1>5. StoresDirectly(body) => CellLine(line).needs = {}
  BY <1>4, CellLineIs
<1> QED
  BY <1>3, <1>5, CellLineIs DEF InitByLine, line

-----------------------------------------------------------------------------
\* The inductive invariant.
ResultsStand ==
  pc # Unchecked =>
    /\ analysis = [affected |-> AffectedMasks(mir), init_in |-> InsOf(mir)]
    /\ diags = Diagnostics(mir, AffectedMasks(mir), InsOf(mir))
    /\ code = CodeOf(mir)

NothingYet == pc = Unchecked => diags = {} /\ misuses = {}

AccessesAt(body, b, i) == Lines(body.blocks[b])[i].accesses

IsSite(body, s) ==
  /\ s = Site(s.blk, s.line, s.access)
  /\ s.blk \in Blocks
  /\ s.line \in 1 .. LastLine(body.blocks[s.blk])
  /\ s.access \in 1 .. (Len(AccessesAt(body, s.blk, s.line)) + 1)

OnALine == Running => IsSite(mir, pc)

\* The replay, as far as the execution got, accounts for every cell.
StateAccounts == Running => Accounts(mir, At(mir, pc.blk, pc.line, pc.access - 1), present)

NoMisuse == diags = {} /\ StoresDirectly(mir) => misuses = {}

MovesInv ==
  mir \in Bodies /\ ResultsStand /\ NothingYet /\ OnALine /\ StateAccounts /\ NoMisuse

LEMMA HaltedIs ==
  /\ Unchecked.line = 0 /\ Stopped.line = 0 /\ Unchecked # Stopped
  /\ \A b, i, j : Site(b, i, j).line = i /\ Site(b, i, j).blk = b /\ Site(b, i, j).access = j
  /\ \A b : Start(b) = Site(b, 1, 1)
<1>1. Unchecked.blk = "unchecked" /\ Stopped.blk = "stopped"
  BY DEF Unchecked, Stopped, Halted
<1>2. Unchecked # Stopped
  BY <1>1
<1> QED
  BY <1>2 DEF Unchecked, Stopped, Halted, Site, Start

LEMMA SiteRuns ==
  ASSUME NEW body \in Bodies, NEW s, IsSite(body, s)
  PROVE  s \notin {Unchecked} \cup {Stopped}
<1>1. s.line # 0
  <2>1. LastLine(body.blocks[s.blk]) \in Nat
    BY BlockIs DEF IsSite
  <2> QED
    BY <2>1 DEF IsSite
<1> QED
  BY <1>1, HaltedIs

LEMMA StartIsSite ==
  ASSUME NEW body \in Bodies, NEW b \in Blocks
  PROVE  IsSite(body, Start(b)) /\ Start(b).blk = b /\ Start(b).line = 1 /\ Start(b).access = 1
<1>1. LastLine(body.blocks[b]) \in Nat /\ 1 \in 1 .. LastLine(body.blocks[b])
  BY BlockIs
<1>2. Len(AccessesAt(body, b, 1)) \in Nat
  BY <1>1, LineIs DEF IsVec, AccessesAt
<1>3. Start(b) = Site(b, 1, 1) /\ Start(b).blk = b /\ Start(b).line = 1 /\ Start(b).access = 1
  BY HaltedIs
<1>4. 1 \in 1 .. (Len(AccessesAt(body, b, 1)) + 1)
  BY <1>2
<1> QED
  BY <1>1, <1>3, <1>4 DEF IsSite

LEMMA MovesInit ==
  ASSUME Init
  PROVE  MovesInv
BY DEF Init, MovesInv, ResultsStand, NothingYet, OnALine, StateAccounts, NoMisuse, Running

LEMMA CheckKeepsMoves ==
  ASSUME MovesInv, Check
  PROVE  MovesInv'
<1>1. /\ mir \in Bodies /\ pc = Unchecked /\ misuses = {} /\ mir' = mir /\ misuses' = misuses
      /\ analysis' = [affected |-> AffectedMasks(mir), init_in |-> InsOf(mir)]
      /\ diags' = Diagnostics(mir, AffectedMasks(mir), InsOf(mir))
      /\ code' = CodeOf(mir)
      /\ pc' = Start(mir.entry)
      /\ present' = UNION {CellsOf(l) : l \in ToSet(mir.params)}
  BY DEF Check, MovesInv, NothingYet, InsOf
<1>2. mir.entry \in Blocks
  BY <1>1, BodiesAssumption DEF WellFormed
<1>3. /\ IsSite(mir, pc') /\ pc'.blk = mir.entry /\ pc'.line = 1 /\ pc'.access = 1
  BY <1>1, <1>2, StartIsSite
<1>4. pc' # Unchecked
  BY <1>1, <1>3, SiteRuns
<1>5. ResultsStand' /\ NothingYet' /\ OnALine' /\ NoMisuse'
  BY <1>1, <1>3, <1>4 DEF ResultsStand, NothingYet, OnALine, NoMisuse
<1>6. StateAccounts'
  <2>1. Accounts(mir, At(mir, mir.entry, 1, 0), present')
    BY <1>1, AtStart
  <2>2. pc'.access - 1 = 0
    BY <1>3
  <2> QED
    BY <2>1, <2>2, <1>1, <1>3 DEF StateAccounts
<1> QED
  BY <1>1, <1>5, <1>6 DEF MovesInv

\* Where a running execution is.
LEMMA RunningAt ==
  ASSUME MovesInv, Running
  PROVE  LET b == pc.blk
             i == pc.line
             line == Lines(mir.blocks[b])[i]
         IN  /\ mir \in Bodies /\ b \in Blocks /\ i \in 1 .. LastLine(mir.blocks[b])
             /\ pc = Site(b, i, pc.access)
             /\ CurrentLine = CellLine(line)
             /\ Len(line.accesses) \in Nat /\ DOMAIN line.accesses = 1 .. Len(line.accesses)
             /\ DOMAIN CurrentLine.accesses = 1 .. Len(line.accesses)
             /\ pc.access \in 1 .. (Len(line.accesses) + 1)
             /\ Accounts(mir, At(mir, b, i, pc.access - 1), present)
             /\ diags = Diagnostics(mir, AffectedMasks(mir), InsOf(mir))
             /\ analysis = [affected |-> AffectedMasks(mir), init_in |-> InsOf(mir)]
             /\ code = CodeOf(mir)
<1>1. mir \in Bodies /\ IsSite(mir, pc) /\ pc # Unchecked
  BY DEF MovesInv, OnALine, Running
<1>2. /\ diags = Diagnostics(mir, AffectedMasks(mir), InsOf(mir))
      /\ analysis = [affected |-> AffectedMasks(mir), init_in |-> InsOf(mir)]
      /\ code = CodeOf(mir)
  BY <1>1 DEF MovesInv, ResultsStand
<1> DEFINE b == pc.blk
           i == pc.line
           line == Lines(mir.blocks[b])[i]
<1>3. b \in Blocks /\ i \in 1 .. LastLine(mir.blocks[b]) /\ pc = Site(b, i, pc.access)
      /\ pc.access \in 1 .. (Len(line.accesses) + 1)
  BY <1>1 DEF IsSite, AccessesAt
<1>4. CurrentLine = CellLine(line)
  BY <1>1, <1>2, <1>3, CodeIs DEF CurrentLine
<1>5. IsVec(line.accesses)
  BY <1>1, <1>3, LineIs
<1>6. Len(line.accesses) \in Nat /\ DOMAIN line.accesses = 1 .. Len(line.accesses)
  <2> HIDE DEF line
  <2> QED
    BY <1>5 DEF IsVec
<1>7. DOMAIN CurrentLine.accesses = DOMAIN line.accesses
  BY <1>4, CellLineIs
<1>8. Accounts(mir, At(mir, b, i, pc.access - 1), present)
  BY DEF MovesInv, StateAccounts
<1> QED
  BY <1>1, <1>2, <1>3, <1>4, <1>6, <1>7, <1>8

LEMMA AccessKeepsMoves ==
  ASSUME MovesInv, Access
  PROVE  MovesInv'
<1> DEFINE b == pc.blk
           i == pc.line
           j == pc.access
           line == Lines(mir.blocks[b])[i]
           access == CellAccess(line.accesses[j])
<1>1. /\ Running /\ j \in DOMAIN CurrentLine.accesses
      /\ present' = present \ CurrentLine.accesses[j].empties
      /\ misuses' = IF CurrentLine.accesses[j].needs \subseteq present THEN misuses
                    ELSE misuses \cup {pc}
      /\ pc' = [pc EXCEPT !.access = @ + 1]
      /\ mir' = mir /\ analysis' = analysis /\ diags' = diags /\ code' = code
  BY DEF Access
<1>2. /\ mir \in Bodies /\ b \in Blocks /\ i \in 1 .. LastLine(mir.blocks[b])
      /\ pc = Site(b, i, j) /\ CurrentLine = CellLine(line)
      /\ Len(line.accesses) \in Nat /\ DOMAIN line.accesses = 1 .. Len(line.accesses)
      /\ DOMAIN CurrentLine.accesses = 1 .. Len(line.accesses)
      /\ Accounts(mir, At(mir, b, i, j - 1), present)
      /\ diags = Diagnostics(mir, AffectedMasks(mir), InsOf(mir))
      /\ analysis = [affected |-> AffectedMasks(mir), init_in |-> InsOf(mir)]
      /\ code = CodeOf(mir)
  BY <1>1, RunningAt
<1>3. j \in DOMAIN line.accesses /\ CurrentLine.accesses[j] = access
  BY <1>1, <1>2, CellLineIs
<1>4. pc' = Site(b, i, j + 1)
  BY <1>1, <1>2 DEF Site
<1>5. pc'.blk = b /\ pc'.line = i /\ pc'.access = j + 1
  BY <1>4, HaltedIs
<1>6. j \in 1 .. Len(line.accesses) /\ j + 1 \in 1 .. (Len(line.accesses) + 1) /\ j + 1 - 1 = j
  BY <1>2, <1>3
<1>7. IsSite(mir, pc')
  BY <1>2, <1>4, <1>5, <1>6 DEF IsSite, AccessesAt
<1>8. pc' # Unchecked
  BY <1>2, <1>7, SiteRuns
<1>9. ResultsStand' /\ NothingYet' /\ OnALine'
  BY <1>1, <1>2, <1>7, <1>8 DEF ResultsStand, NothingYet, OnALine
<1>10. StateAccounts'
  <2>1. Accounts(mir, At(mir, b, i, j), present \ access.empties)
    BY <1>2, <1>3, AccessKeeps
  <2> HIDE DEF access
  <2>2. Accounts(mir', At(mir', pc'.blk, pc'.line, pc'.access - 1), present')
    BY <2>1, <1>1, <1>3, <1>5, <1>6
  <2> QED
    BY <2>2 DEF StateAccounts
<1>11. NoMisuse'
  <2> SUFFICES ASSUME diags = {}, StoresDirectly(mir) PROVE misuses' = {}
    BY <1>1 DEF NoMisuse
  <2>1. misuses = {}
    BY DEF MovesInv, NoMisuse
  <2>2. access.needs \subseteq present
    BY <1>2, <1>3, CleanAccess
  <2> HIDE DEF access
  <2> QED
    BY <2>1, <2>2, <1>1, <1>3
<1> QED
  BY <1>1, <1>2, <1>9, <1>10, <1>11 DEF MovesInv

\* What Statement and Jump have in common.
LEMMA StoreKeepsMoves ==
  ASSUME MovesInv, Store
  PROVE  LET b == pc.blk
             i == pc.line
             line == Lines(mir.blocks[b])[i]
         IN  /\ mir \in Bodies /\ b \in Blocks /\ i \in 1 .. LastLine(mir.blocks[b])
             /\ mir' = mir /\ ResultsStand' /\ NoMisuse'
             /\ analysis' = analysis /\ diags' = diags /\ code' = code
             /\ Accounts(mir, MarkInit(AffectedMasks(mir), At(mir, b, i, Len(line.accesses)),
                                       InitByLine(line)), present')
<1> DEFINE b == pc.blk
           i == pc.line
           line == Lines(mir.blocks[b])[i]
<1>1. /\ Running /\ pc.access \notin DOMAIN CurrentLine.accesses
      /\ present' = present \cup CurrentLine.fills
      /\ misuses' = IF CurrentLine.needs \subseteq present THEN misuses ELSE misuses \cup {pc}
      /\ mir' = mir /\ analysis' = analysis /\ diags' = diags /\ code' = code
  BY DEF Store
<1>2. /\ mir \in Bodies /\ b \in Blocks /\ i \in 1 .. LastLine(mir.blocks[b])
      /\ CurrentLine = CellLine(line)
      /\ Len(line.accesses) \in Nat
      /\ DOMAIN CurrentLine.accesses = 1 .. Len(line.accesses)
      /\ pc.access \in 1 .. (Len(line.accesses) + 1)
      /\ Accounts(mir, At(mir, b, i, pc.access - 1), present)
      /\ diags = Diagnostics(mir, AffectedMasks(mir), InsOf(mir))
      /\ analysis = [affected |-> AffectedMasks(mir), init_in |-> InsOf(mir)]
      /\ code = CodeOf(mir)
  BY <1>1, RunningAt
<1>3. pc.access - 1 = Len(line.accesses)
  <2> DEFINE n == Len(line.accesses)
  <2>1. n \in Nat /\ pc.access \in 1 .. (n + 1) /\ pc.access \notin 1 .. n
    BY <1>1, <1>2
  <2> HIDE DEF n
  <2>2. pc.access - 1 = n
    BY <2>1
  <2> QED
    BY <2>2 DEF n
<1> DEFINE S == At(mir, b, i, Len(line.accesses))
<1>4. Accounts(mir, S, present)
  BY <1>2, <1>3
<1> HIDE DEF S
<1>5. /\ Accounts(mir, MarkInit(AffectedMasks(mir), S, InitByLine(line)),
                  present \cup CellLine(line).fills)
      /\ StoresDirectly(mir) => CellLine(line).needs \subseteq present
  BY <1>2, <1>4, StoreKeeps
<1> HIDE DEF line
<1>6. NoMisuse'
  <2> SUFFICES ASSUME diags = {}, StoresDirectly(mir) PROVE misuses' = {}
    BY <1>1 DEF NoMisuse
  <2>1. misuses = {}
    BY DEF MovesInv, NoMisuse
  <2> QED
    BY <2>1, <1>1, <1>2, <1>5
<1>7. ResultsStand'
  BY <1>1, <1>2 DEF ResultsStand
<1> QED
  BY <1>1, <1>2, <1>5, <1>6, <1>7 DEF S, line

LEMMA StatementKeepsMoves ==
  ASSUME MovesInv, Statement
  PROVE  MovesInv'
<1> DEFINE b == pc.blk
           i == pc.line
           line == Lines(mir.blocks[b])[i]
           done == MarkInit(AffectedMasks(mir), At(mir, b, i, Len(line.accesses)), InitByLine(line))
<1>1. /\ mir \in Bodies /\ b \in Blocks /\ i \in 1 .. LastLine(mir.blocks[b])
      /\ mir' = mir /\ ResultsStand' /\ NoMisuse'
      /\ Accounts(mir, done, present')
  BY StoreKeepsMoves DEF Statement
<1>2. i # LastLine(mir.blocks[b]) /\ pc' = Site(b, i + 1, 1)
  BY DEF Statement, Site
<1>3. done = At(mir, b, i + 1, 0)
  BY <1>1, <1>2, AtNextLine
<1> HIDE DEF done
<1>4. pc'.blk = b /\ pc'.line = i + 1 /\ pc'.access = 1
  BY <1>2, HaltedIs
<1>5. i + 1 \in 1 .. LastLine(mir.blocks[b])
  BY <1>1, <1>2, BlockIs
<1>6. IsSite(mir, pc')
  <2>1. Len(AccessesAt(mir, b, i + 1)) \in Nat
    BY <1>1, <1>5, LineIs DEF IsVec, AccessesAt
  <2>2. 1 \in 1 .. (Len(AccessesAt(mir, b, i + 1)) + 1)
    BY <2>1
  <2> QED
    BY <2>2, <1>1, <1>2, <1>4, <1>5 DEF IsSite
<1>7. pc' # Unchecked
  BY <1>1, <1>6, SiteRuns
<1>8. NothingYet' /\ OnALine'
  BY <1>1, <1>6, <1>7 DEF NothingYet, OnALine
<1>9. StateAccounts'
  <2>1. pc'.access - 1 = 0
    BY <1>4
  <2>2. Accounts(mir', At(mir', pc'.blk, pc'.line, pc'.access - 1), present')
    BY <2>1, <1>1, <1>3, <1>4
  <2> QED
    BY <2>2 DEF StateAccounts
<1> QED
  BY <1>1, <1>8, <1>9 DEF MovesInv

LEMMA JumpKeepsMoves ==
  ASSUME MovesInv, Jump
  PROVE  MovesInv'
<1> DEFINE b == pc.blk
           i == pc.line
           line == Lines(mir.blocks[b])[i]
           done == MarkInit(AffectedMasks(mir), At(mir, b, i, Len(line.accesses)), InitByLine(line))
           targets == Succs(mir.blocks[b].term)
<1>1. /\ mir \in Bodies /\ b \in Blocks /\ i \in 1 .. LastLine(mir.blocks[b])
      /\ mir' = mir /\ ResultsStand' /\ NoMisuse'
      /\ Accounts(mir, done, present')
  BY StoreKeepsMoves DEF Jump
<1>2. i = LastLine(mir.blocks[b]) /\ pc' \in IF targets = {} THEN {Stopped} ELSE {Start(c) : c \in targets}
  BY DEF Jump
<1>3. CASE pc' = Stopped
  <2>1. pc' # Unchecked /\ ~ Running'
    BY <1>3, HaltedIs DEF Running
  <2> QED
    BY <2>1, <1>1 DEF MovesInv, NothingYet, OnALine, StateAccounts
<1>4. ASSUME NEW c \in targets, pc' = Start(c) PROVE MovesInv'
  <2>1. c \in Blocks
    BY <1>1, <1>4, BlockIs
  <2>2. IsSite(mir, pc') /\ pc'.blk = c /\ pc'.line = 1 /\ pc'.access = 1
    BY <2>1, <1>1, <1>4, StartIsSite
  <2>3. pc' # Unchecked
    BY <2>2, <1>1, SiteRuns
  <2>4. NothingYet' /\ OnALine'
    BY <2>2, <2>3, <1>1 DEF NothingYet, OnALine
  <2>5. done \subseteq At(mir, c, 1, 0)
    BY <1>1, <1>2, <1>4, AtNextLine
  <2> HIDE DEF done
  <2>6. Accounts(mir, At(mir, c, 1, 0), present')
    BY <2>5, <1>1, AccountsMonotone
  <2>7. pc'.access - 1 = 0
    BY <2>2
  <2>8. Accounts(mir', At(mir', pc'.blk, pc'.line, pc'.access - 1), present')
    BY <2>2, <2>6, <2>7, <1>1
  <2> QED
    BY <2>4, <2>8, <1>1 DEF MovesInv, StateAccounts
<1> QED
  BY <1>2, <1>3, <1>4

LEMMA MovesStep ==
  ASSUME MovesInv, [Next]_vars
  PROVE  MovesInv'
<1>1. CASE UNCHANGED vars
  <2>1. /\ mir' = mir /\ analysis' = analysis /\ diags' = diags /\ code' = code /\ pc' = pc
        /\ present' = present /\ misuses' = misuses
    BY <1>1 DEF vars
  <2> QED
    BY <2>1 DEF MovesInv, ResultsStand, NothingYet, OnALine, StateAccounts, NoMisuse, Running
<1> QED
  BY <1>1, CheckKeepsMoves, AccessKeepsMoves, StatementKeepsMoves, JumpKeepsMoves DEF Next

\* The invariant holds throughout every execution of every body.
THEOREM MovesInvariance == Spec => []MovesInv
BY MovesInit, MovesStep, PTL DEF Spec

-----------------------------------------------------------------------------
\* What the invariant says of a state.
LEMMA ReportedIsGone ==
  ASSUME MovesInv
  PROVE  DefiniteReportsAreReal
<1> DEFINE report == [site |-> pc, verdict |-> "Uninit"]
           verdict(s) == Verdict(AffectedMasks(mir), InsOf(mir)[s.blk], mir.blocks[s.blk],
                                 s.line, s.access)
<1> SUFFICES ASSUME report \in diags
             PROVE  ~ (CurrentLine.accesses[pc.access].needs \subseteq present)
  BY DEF DefiniteReportsAreReal
<1>1. pc # Unchecked
  BY DEF MovesInv, NothingYet
<1>2. mir \in Bodies /\ diags = Diagnostics(mir, AffectedMasks(mir), InsOf(mir))
  BY <1>1 DEF MovesInv, ResultsStand
<1>3. PICK s \in Sites(mir) : report = [site |-> s, verdict |-> verdict(s)]
  BY <1>2 DEF Diagnostics
<1>4. pc = s /\ verdict(s) = "Uninit"
  <2> HIDE DEF verdict
  <2>1. report.site = s /\ report.verdict = verdict(s)
    BY <1>3
  <2> QED
    BY <2>1
<1> DEFINE b == pc.blk
           i == pc.line
           line == Lines(mir.blocks[b])[i]
           op == line.accesses[pc.access]
<1>5. /\ b \in Blocks /\ i \in 1 .. LastLine(mir.blocks[b]) /\ pc.access \in DOMAIN line.accesses
      /\ IsPlaceOf(op)
  BY <1>2, <1>4, SitesAreAccesses
<1>6. Running
  <2>1. pc.line # 0
    BY <1>2, <1>5, BlockIs
  <2> QED
    BY <2>1, HaltedIs DEF Running
<1>7. CurrentLine = CellLine(line) /\ Accounts(mir, At(mir, b, i, pc.access - 1), present)
  BY <1>6, RunningAt
<1>8. CurrentLine.accesses[pc.access].needs = Needs(op.place)
  <2>1. CurrentLine.accesses[pc.access] = CellAccess(op)
    BY <1>5, <1>7, CellLineIs
  <2> HIDE DEF op
  <2> QED
    BY <2>1, <1>5 DEF CellAccess
<1>9. Query(AffectedMasks(mir), At(mir, b, i, pc.access - 1), AsMoveKey(op.place)) = "Uninit"
  BY <1>4 DEF Verdict, At
<1>10. op.place \in PlacesNamed(mir)
  <2>1. \A o \in ToSet(line.accesses) : IsPlaceOf(o) => o.place \in PlacesNamed(mir)
    BY <1>2, <1>5, LineIs
  <2>2. op \in ToSet(line.accesses)
    BY <1>5 DEF ToSet
  <2> QED
    BY <2>1, <2>2, <1>5
<1> HIDE DEF op, b, i
<1> QED
  BY <1>2, <1>7, <1>8, <1>9, <1>10, UninitMeansGone

LEMMA EntryIsCovered ==
  ASSUME MovesInv
  PROVE  InitInCoversExecutions /\ ReplayAgreesWithTransfer
<1> SUFFICES ASSUME Running, pc = Start(pc.blk)
             PROVE  InitInCoversExecutions /\ ReplayAgreesWithTransfer
  BY DEF InitInCoversExecutions, ReplayAgreesWithTransfer
<1> DEFINE b == pc.blk
           affected == AffectedMasks(mir)
           entry == InsOf(mir)[b]
           block == mir.blocks[b]
           n == LastLine(block)
<1>1. /\ mir \in Bodies /\ b \in Blocks
      /\ Accounts(mir, At(mir, b, pc.line, pc.access - 1), present)
      /\ analysis = [affected |-> affected, init_in |-> InsOf(mir)]
  BY RunningAt
<1>2. pc.line = 1 /\ pc.access = 1
  <2>1. Start(b) = Site(b, 1, 1)
    BY HaltedIs
  <2>2. Site(b, 1, 1).line = 1 /\ Site(b, 1, 1).access = 1
    BY HaltedIs
  <2> QED
    BY <2>1, <2>2
<1>3. At(mir, b, 1, 0) = entry /\ entry \in SUBSET FactsOf(affected)
  BY <1>1, AtEntry
<1>4. Accounts(mir, entry, present)
  <2>1. pc.access - 1 = 0
    BY <1>2
  <2> QED
    BY <2>1, <1>1, <1>2, <1>3
<1>5. analysis.init_in[pc.blk] = entry /\ analysis.affected = affected
  BY <1>1
<1>6. InitInCoversExecutions
  <2> HIDE DEF entry, affected
  <2> QED
    BY <1>4, <1>5 DEF InitInCoversExecutions, Accounts, PresentIsInit, AbsentIsUninit
<1>7. ReplayTo(affected, entry, block, n + 1) = ApplyOps(affected, entry, block)
  <2>1. IsMasks(affected) /\ n \in Nat
    BY <1>1, MasksAreMasks, BlockIs
  <2>2. ReplayTo(affected, entry, block, n + 1) = ReplayOf(affected, entry, block)[n + 1]
    BY <2>1, <1>3, ReplayOfReplays
  <2>3. ApplyOps(affected, entry, block) = ReplayOf(affected, entry, block)[n + 1]
    BY <2>1, <1>1, <1>3, BlockOpsReplay
  <2> QED
    BY <2>2, <2>3
<1>8. ReplayAgreesWithTransfer
  <2> HIDE DEF entry, affected
  <2> QED
    BY <1>5, <1>7 DEF ReplayAgreesWithTransfer
<1> QED
  BY <1>6, <1>8

\* A body without a report, whose statements assign no element of an array and
\* nothing through a pointer, uses no place that was moved out of or never given
\* a value, on any path (check_use_after_move).
THEOREM MoveCheckIsSound == Spec => []AcceptedBodiesUseNoMovedPlace
<1>1. MovesInv => AcceptedBodiesUseNoMovedPlace
  BY DEF MovesInv, NoMisuse, AcceptedBodiesUseNoMovedPlace
<1> QED
  BY <1>1, MovesInvariance, PTL

\* A site reported as `Use after move' is one: whenever an execution arrives
\* there, part of the place is gone (MIRInitOut::query, MIRPlace::check).
THEOREM DefiniteReportsStand == Spec => []DefiniteReportsAreReal
BY ReportedIsGone, MovesInvariance, PTL

\* What MIRInitAnalysis::run gives for the entry of a block allows for the state
\* of every cell, whatever path led there.
THEOREM InitInIsSound == Spec => []InitInCoversExecutions
BY EntryIsCovered, MovesInvariance, PTL

\* The check and compute_block_ops are one transfer function.
THEOREM OneTransferFunction == Spec => []ReplayAgreesWithTransfer
BY EntryIsCovered, MovesInvariance, PTL
==============================================================================
