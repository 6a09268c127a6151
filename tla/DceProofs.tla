------------------------------- MODULE DceProofs -------------------------------
(***************************************************************************)
(* Dead-code elimination does not change what a body does, whatever the    *)
(* body: THEOREM SameBehaviourHolds, from the invariant Inv, which says    *)
(* where the copy of each old block is (placed) and how much of it is      *)
(* written.                                                                *)
(***************************************************************************)
EXTENDS Dce, Iteration, SequenceTheorems

-----------------------------------------------------------------------------
\* Vectors.
LEMMA VecProps ==
  ASSUME NEW v, IsVec(v)
  PROVE  /\ Len(v) \in Nat
         /\ DOMAIN v = 1 .. Len(v)
         /\ v \in [1 .. Len(v) -> ToSet(v)]
         /\ \A i \in 1 .. Len(v) : v[i] \in ToSet(v)
<1>1. v \in Seq(ToSet(v))
  BY DEF IsVec
<1>2. Len(v) \in Nat /\ DOMAIN v = 1 .. Len(v) /\ v \in [1 .. Len(v) -> ToSet(v)]
  BY <1>1, LenProperties
<1> QED
  BY <1>2 DEF ToSet

LEMMA FunctionIsVec ==
  ASSUME NEW n \in Nat, NEW S, NEW v \in [1 .. n -> S]
  PROVE  IsVec(v) /\ Len(v) = n /\ DOMAIN v = 1 .. n
<1>1. DOMAIN v = 1 .. n
  OBVIOUS
<1>2. v \in [1 .. n -> ToSet(v)]
  BY <1>1 DEF ToSet
<1>3. v \in Seq(ToSet(v)) /\ Len(v) = n
  BY <1>2, IsASeq, LenProperties
<1> QED
  BY <1>1, <1>3 DEF IsVec

LEMMA SameVec ==
  ASSUME NEW u, NEW v, IsVec(u), IsVec(v), Len(u) = Len(v),
         \A i \in 1 .. Len(v) : u[i] = v[i]
  PROVE  u = v
<1>1. Len(v) \in Nat /\ v \in [1 .. Len(v) -> ToSet(v)]
  BY VecProps
<1>2. u \in [1 .. Len(v) -> ToSet(u)]
  BY VecProps
<1> QED
  BY <1>1, <1>2

LEMMA AppendVec ==
  ASSUME NEW v, IsVec(v), NEW x
  PROVE  /\ IsVec(Append(v, x))
         /\ Len(Append(v, x)) = Len(v) + 1
         /\ \A i \in 1 .. Len(v) : Append(v, x)[i] = v[i]
         /\ Append(v, x)[Len(v) + 1] = x
<1> DEFINE S == ToSet(v) \cup {x}
<1>1. v \in [1 .. Len(v) -> S] /\ Len(v) \in Nat
  BY VecProps
<1> HIDE DEF S
<1>2. v \in Seq(S) /\ x \in S
  BY <1>1, IsASeq DEF S
<1>3. /\ Append(v, x) \in Seq(S)
      /\ Len(Append(v, x)) = Len(v) + 1
      /\ \A i \in 1 .. Len(v) : Append(v, x)[i] = v[i]
      /\ Append(v, x)[Len(v) + 1] = x
  BY <1>2, AppendProperties
<1>4. Append(v, x) \in [1 .. Len(Append(v, x)) -> S] /\ Len(Append(v, x)) \in Nat
  BY <1>3, LenProperties
<1> QED
  BY <1>3, <1>4, FunctionIsVec

-----------------------------------------------------------------------------
\* The graph of a body.
LEMMA BlocksProps ==
  ASSUME NEW blocks, IsWellFormed(blocks)
  PROVE  /\ Len(blocks) \in Nat
         /\ DOMAIN blocks = 1 .. Len(blocks)
         /\ IsFiniteSet(DOMAIN blocks)
         /\ EntryBlock \in DOMAIN blocks
         /\ \A i \in DOMAIN blocks : Targets(blocks, i) \subseteq DOMAIN blocks \ {EntryBlock}
<1>1. IsVec(blocks)
  BY DEF IsWellFormed
<1>2. Len(blocks) \in Nat /\ DOMAIN blocks = 1 .. Len(blocks)
  BY <1>1, VecProps
<1>3. IsFiniteSet(DOMAIN blocks)
  BY <1>2, FS_Interval
<1>4. \A i \in DOMAIN blocks : Targets(blocks, i) \subseteq DOMAIN blocks \ {EntryBlock}
  BY DEF IsWellFormed, Targets
<1> QED
  BY <1>2, <1>3, <1>4 DEF IsWellFormed

\* The reachable blocks are the least set with the entry that jumps do not leave.
LEMMA ReachableInOrbit ==
  ASSUME NEW blocks, IsWellFormed(blocks)
  PROVE  LET X == SUBSET DOMAIN blocks
             g == [s \in X |-> WithTargets(blocks, s)]
         IN  /\ Reachable(blocks) \in Orbit(X, g, {EntryBlock})
             /\ WithTargets(blocks, Reachable(blocks)) = Reachable(blocks)
<1> DEFINE X == SUBSET DOMAIN blocks
           g == [s \in X |-> WithTargets(blocks, s)]
           O == Orbit(X, g, {EntryBlock})
           m == Cardinality(DOMAIN blocks)
           left == {m - Cardinality(s) : s \in O}
<1>1. {EntryBlock} \in X
  BY BlocksProps
<1>2. g \in [X -> X] /\ \A s \in X : g[s] = WithTargets(blocks, s) /\ s \subseteq g[s]
  <2>1. ASSUME NEW s \in X PROVE WithTargets(blocks, s) \in X /\ s \subseteq WithTargets(blocks, s)
    BY BlocksProps DEF WithTargets
  <2> QED
    BY <2>1
<1> HIDE DEF g
<1>3. {EntryBlock} \in O /\ O \subseteq X /\ \A s \in O : g[s] \in O
  <2>1. O \subseteq X
    BY DEF Orbit
  <2> QED
    BY <2>1, <1>1, <1>2, OrbitProps
<1>4. m \in Nat /\ \A s \in X : IsFiniteSet(s) /\ Cardinality(s) \in Nat /\ Cardinality(s) <= m
  BY BlocksProps, FS_Subset, FS_CardinalityType
<1>5. PICK y \in O : \A s \in O : Cardinality(s) <= Cardinality(y)
  <2> HIDE DEF O, X, m
  <2>1. \A s \in O : Cardinality(s) \in Nat /\ Cardinality(s) <= m
    BY <1>3, <1>4
  <2>2. left \in SUBSET Nat /\ left # {}
    BY <2>1, <1>3, <1>4
  <2>3. PICK x \in left : \A z \in left : x <= z
    BY <2>2, NatMin
  <2>4. PICK y \in O : x = m - Cardinality(y)
    OBVIOUS
  <2>5. ASSUME NEW s \in O PROVE Cardinality(s) <= Cardinality(y)
    <3>1. m - Cardinality(y) <= m - Cardinality(s)
      BY <2>3, <2>4
    <3> QED
      BY <3>1, <2>1, <1>4
  <2> QED
    BY <2>5
<1>6. g[y] = y
  <2>1. y \in X /\ g[y] \in X /\ g[y] \in O /\ y \subseteq g[y]
    BY <1>2, <1>3
  <2>2. Cardinality(y) <= Cardinality(g[y]) /\ (Cardinality(g[y]) = Cardinality(y) => g[y] = y)
    BY <2>1, <1>4, FS_Subset
  <2>3. Cardinality(g[y]) <= Cardinality(y) /\ Cardinality(y) \in Nat /\ Cardinality(g[y]) \in Nat
    BY <2>1, <1>4, <1>5
  <2> QED
    BY <2>2, <2>3
<1> DEFINE Is(f) == f = [s \in X |-> IF WithTargets(blocks, s) = s THEN s
                                     ELSE f[WithTargets(blocks, s)]]
           settle == CHOOSE f : Is(f)
<1>7. Reachable(blocks) = settle[{EntryBlock}]
  BY DEF Reachable
<1>8. settle = [s \in X |-> IF g[s] = s THEN s ELSE settle[g[s]]]
  <2>1. \E f : f = [s \in X |-> IF g[s] = s THEN s ELSE f[g[s]]]
    BY <1>2, SettlingExists
  <2>2. \A f : [s \in X |-> IF g[s] = s THEN s ELSE f[g[s]]]
                = [s \in X |-> IF WithTargets(blocks, s) = s THEN s ELSE f[WithTargets(blocks, s)]]
    BY <1>2
  <2>3. \E f : Is(f)
    BY <2>1, <2>2
  <2>4. Is(settle)
    BY <2>3
  <2> HIDE DEF settle
  <2> QED
    BY <2>2, <2>4
<1> HIDE DEF settle, X
<1>9. settle[{EntryBlock}] = y
  <2> DEFINE start == {EntryBlock}
  <2>1. start \in X /\ g \in [X -> X] /\ y \in Orbit(X, g, start) /\ g[y] = y
    BY <1>1, <1>2, <1>5, <1>6
  <2> HIDE DEF start
  <2>2. settle[start] = y
    BY <2>1, <1>8, SettlingEnds
  <2> QED
    BY <2>2 DEF start
<1>10. WithTargets(blocks, y) = y
  BY <1>2, <1>3, <1>5, <1>6
<1> QED
  BY <1>1, <1>5, <1>7, <1>9, <1>10 DEF X, g

LEMMA ReachableProps ==
  ASSUME NEW blocks, IsWellFormed(blocks)
  PROVE  /\ Reachable(blocks) \in SUBSET DOMAIN blocks
         /\ IsFiniteSet(Reachable(blocks))
         /\ EntryBlock \in Reachable(blocks)
         /\ \A i \in Reachable(blocks) : Targets(blocks, i) \subseteq Reachable(blocks)
<1> DEFINE X == SUBSET DOMAIN blocks
           g == [s \in X |-> WithTargets(blocks, s)]
           R == Reachable(blocks)
           C == {s \in X : EntryBlock \in s}
<1>1. R \in Orbit(X, g, {EntryBlock}) /\ WithTargets(blocks, R) = R
  BY ReachableInOrbit
<1>2. {EntryBlock} \in C
  BY BlocksProps
<1>3. ASSUME NEW s \in C PROVE g[s] \in C
  BY BlocksProps DEF WithTargets
<1> HIDE DEF g, R
<1>4. R \in C
  BY <1>1, <1>2, <1>3 DEF Orbit
<1>5. \A i \in R : Targets(blocks, i) \subseteq R
  BY <1>1 DEF WithTargets
<1>6. IsFiniteSet(R)
  BY <1>4, BlocksProps, FS_Subset
<1> QED
  BY <1>4, <1>5, <1>6 DEF R

LEMMA ReachableLeast ==
  ASSUME NEW blocks, IsWellFormed(blocks), NEW S, EntryBlock \in S,
         \A i \in S \cap DOMAIN blocks : Targets(blocks, i) \subseteq S
  PROVE  Reachable(blocks) \subseteq S
<1> DEFINE X == SUBSET DOMAIN blocks
           g == [s \in X |-> WithTargets(blocks, s)]
           R == Reachable(blocks)
           C == {s \in X : s \subseteq S}
<1>1. R \in Orbit(X, g, {EntryBlock})
  BY ReachableInOrbit
<1>2. {EntryBlock} \in C
  BY BlocksProps
<1>3. ASSUME NEW s \in C PROVE g[s] \in C
  BY BlocksProps DEF WithTargets
<1> HIDE DEF g, R
<1>4. R \in C
  BY <1>1, <1>2, <1>3 DEF Orbit
<1> QED
  BY <1>4 DEF R

-----------------------------------------------------------------------------
\* Chains of gotos and the heads of paths.
LEMMA MergeProps ==
  ASSUME NEW blocks, IsWellFormed(blocks)
  PROVE  /\ DOMAIN MergeNext(blocks) \subseteq Reachable(blocks)
         /\ \A i \in DOMAIN MergeNext(blocks) :
              /\ blocks[i].term.kind = "Goto"
              /\ MergeNext(blocks)[i] = blocks[i].term.targets[1]
              /\ MergeNext(blocks)[i] \in Targets(blocks, i)
              /\ MergeNext(blocks)[i] \in Reachable(blocks)
              /\ \A j \in Reachable(blocks) : MergeNext(blocks)[i] \in Targets(blocks, j) => j = i
<1> DEFINE R == Reachable(blocks)
           preds == [j \in R |-> {i \in R : j \in Targets(blocks, i)}]
           merged == {i \in R : /\ blocks[i].term.kind = "Goto"
                                /\ Cardinality(preds[blocks[i].term.targets[1]]) = 1}
           M == MergeNext(blocks)
<1>1. DOMAIN M = merged /\ \A i \in merged : M[i] = blocks[i].term.targets[1]
  BY DEF MergeNext
<1>2. ASSUME NEW i \in merged
      PROVE  /\ M[i] \in Targets(blocks, i)
             /\ M[i] \in R
             /\ \A j \in R : M[i] \in Targets(blocks, j) => j = i
  <2> DEFINE term == blocks[i].term
             t == term.targets[1]
             P == {j \in R : t \in Targets(blocks, j)}
  <2>1. i \in R /\ i \in DOMAIN blocks /\ term.kind = "Goto"
    BY ReachableProps
  <2>2. IsVec(term.targets) /\ Len(term.targets) = 1
    BY <2>1 DEF IsWellFormed
  <2>3. t \in Targets(blocks, i)
    BY <2>2, VecProps DEF Targets
  <2>4. t \in R
    BY <2>1, <2>3, ReachableProps
  <2>5. preds[t] = P
    BY <2>4
  <2>6. Cardinality(P) = 1
    BY <2>5
  <2>7. IsFiniteSet(P)
    BY ReachableProps, FS_Subset
  <2>8. i \in P
    BY <2>1, <2>3
  <2> HIDE DEF P
  <2>9. PICK x : P = {x}
    BY <2>6, <2>7, FS_Singleton
  <2>10. P = {i}
    BY <2>8, <2>9
  <2>11. M[i] = t
    BY <1>1
  <2> QED
    BY <2>3, <2>4, <2>10, <2>11 DEF P
<1> QED
  BY <1>1, <1>2

LEMMA HeadsProps ==
  ASSUME NEW blocks, IsWellFormed(blocks)
  PROVE  /\ HeadsOf(blocks) \subseteq Reachable(blocks)
         /\ HeadsOf(blocks) \subseteq Nat \ {0}
         /\ IsFiniteSet(HeadsOf(blocks))
         /\ EntryBlock \in HeadsOf(blocks)
         /\ \A i \in DOMAIN MergeNext(blocks) : MergeNext(blocks)[i] \notin HeadsOf(blocks)
         /\ \A i \in Reachable(blocks) \ HeadsOf(blocks) :
              \E j \in DOMAIN MergeNext(blocks) : MergeNext(blocks)[j] = i
         /\ \A i \in Reachable(blocks) \ DOMAIN MergeNext(blocks) :
              Targets(blocks, i) \subseteq HeadsOf(blocks)
<1> DEFINE R == Reachable(blocks)
           M == MergeNext(blocks)
           H == HeadsOf(blocks)
<1>1. H = R \ {M[i] : i \in DOMAIN M}
  BY DEF HeadsOf, Range
<1>2. R \subseteq DOMAIN blocks /\ EntryBlock \in R /\ IsFiniteSet(R)
  BY ReachableProps
<1>3. H \subseteq R /\ IsFiniteSet(H)
  BY <1>1, <1>2, FS_Subset
<1>4. H \subseteq Nat \ {0}
  BY <1>2, <1>3, BlocksProps
<1>5. ASSUME NEW i \in DOMAIN M PROVE M[i] # EntryBlock
  <2>1. M[i] \in Targets(blocks, i) /\ i \in DOMAIN blocks
    BY <1>2, MergeProps
  <2> QED
    BY <2>1, BlocksProps
<1>6. ASSUME NEW i \in R, i \notin DOMAIN M, NEW t \in Targets(blocks, i) PROVE t \in H
  <2>1. t \in R
    BY ReachableProps
  <2>2. ASSUME NEW j \in DOMAIN M, M[j] = t PROVE FALSE
    BY <2>2, <1>6, MergeProps
  <2> QED
    BY <2>1, <2>2, <1>1
<1> HIDE DEF M, H, R
<1> QED
  BY <1>1, <1>2, <1>3, <1>4, <1>5, <1>6 DEF M, H, R

\* The copies of the heads are the blocks of the copy, one each.
LEMMA CopyOfProps ==
  ASSUME NEW hs, hs \subseteq Nat \ {0}, IsFiniteSet(hs), EntryBlock \in hs
  PROVE  /\ Cardinality(hs) \in Nat
         /\ Cardinality(hs \ {EntryBlock}) = Cardinality(hs) - 1
         /\ CopyOf(hs, EntryBlock) = EntryBlock
         /\ \A h \in hs : CopyOf(hs, h) \in 1 .. Cardinality(hs)
         /\ \A g, h \in hs : CopyOf(hs, g) = CopyOf(hs, h) => g = h
         /\ \A k \in 1 .. Cardinality(hs) : \E h \in hs : CopyOf(hs, h) = k
<1> DEFINE n == Cardinality(hs)
           O == hs \ {EntryBlock}
           upto(h) == {x \in O : x <= h}
           size(h) == Cardinality(upto(h))
           c == [h \in hs |-> CopyOf(hs, h)]
<1>1. n \in Nat /\ IsFiniteSet(O) /\ Cardinality(O) = n - 1
  BY FS_CardinalityType, FS_RemoveElement
<1>2. ASSUME NEW h \in O PROVE size(h) \in 1 .. (n - 1)
  <2>1. upto(h) \subseteq O /\ h \in upto(h)
    OBVIOUS
  <2>2. IsFiniteSet(upto(h)) /\ Cardinality(upto(h)) <= n - 1
    BY <2>1, <1>1, FS_Subset
  <2>3. Cardinality(upto(h)) \in Nat
    BY <2>2, FS_CardinalityType
  <2>4. Cardinality(upto(h)) # 0
    BY <2>1, <2>2, FS_EmptySet
  <2> QED
    BY <2>2, <2>3, <2>4, <1>1
<1>3. ASSUME NEW g \in O, NEW h \in O, g < h PROVE size(g) # size(h)
  <2>1. upto(g) \in SUBSET upto(h) /\ h \in upto(h) /\ h \notin upto(g)
    <3>1. g \in Nat /\ h \in Nat /\ \A x \in O : x \in Nat
      OBVIOUS
    <3>2. \A x \in O : x <= g => x <= h
      BY <3>1, <1>3
    <3>3. h <= h /\ ~ (h <= g)
      BY <3>1, <1>3
    <3>4. upto(g) \subseteq upto(h)
      BY <3>2
    <3>5. h \in upto(h) /\ h \notin upto(g)
      BY <3>3
    <3> HIDE DEF upto
    <3> QED
      BY <3>4, <3>5
  <2>2. IsFiniteSet(upto(h))
    BY <1>1, FS_Subset
  <2> HIDE DEF upto
  <2> QED
    BY <2>1, <2>2, FS_Subset
<1>4. CopyOf(hs, EntryBlock) = 1 /\ \A h \in O : CopyOf(hs, h) = 1 + size(h)
  BY DEF CopyOf, EntryBlock
<1> HIDE DEF size
<1>5. \A h \in hs : h = EntryBlock \/ h \in O
  OBVIOUS
<1>6. n >= 1
  BY <1>1, FS_CardinalityType
<1>7. ASSUME NEW h \in hs PROVE CopyOf(hs, h) \in 1 .. n
  <2>1. CASE h = EntryBlock
    BY <2>1, <1>1, <1>4, <1>6
  <2>2. CASE h \in O
    BY <2>2, <1>1, <1>2, <1>4
  <2> QED
    BY <2>1, <2>2
<1>8. ASSUME NEW g \in hs, NEW h \in hs, CopyOf(hs, g) = CopyOf(hs, h) PROVE g = h
  <2>1. CASE g \in O /\ h \in O
    <3>1. size(g) = size(h)
      BY <2>1, <1>2, <1>4, <1>8
    <3>2. g \in Nat /\ h \in Nat
      OBVIOUS
    <3> QED
      BY <3>1, <3>2, <2>1, <1>3
  <2>2. CASE g = EntryBlock /\ h \in O
    BY <2>2, <1>2, <1>4, <1>8
  <2>3. CASE g \in O /\ h = EntryBlock
    BY <2>3, <1>2, <1>4, <1>8
  <2> QED
    BY <2>1, <2>2, <2>3
<1>9. c \in Injection(hs, 1 .. n)
  <2>1. c \in [hs -> 1 .. n]
    BY <1>7
  <2>2. IsInjective(c)
    BY <1>8 DEF IsInjective
  <2> QED
    BY <2>1, <2>2 DEF Injection
<1>10. c \in Surjection(hs, 1 .. n)
  <2>1. IsFiniteSet(1 .. n) /\ Cardinality(1 .. n) = n
    BY <1>1, <1>6, FS_Interval
  <2> HIDE DEF c
  <2>2. Cardinality(hs) = Cardinality(1 .. n) <=> c \in Surjection(hs, 1 .. n)
    BY <2>1, <1>9, FS_Injection
  <2> QED
    BY <2>1, <2>2
<1>11. ASSUME NEW k \in 1 .. n PROVE \E h \in hs : CopyOf(hs, h) = k
  BY <1>10 DEF Surjection
<1> QED
  BY <1>1, <1>4, <1>7, <1>8, <1>11 DEF EntryBlock

-----------------------------------------------------------------------------
\* The map of the locals.
Extends(long, short) ==
  Len(short) <= Len(long) /\ \A i \in 1 .. Len(short) : long[i] = short[i]

LEMMA ExtendsTransitive ==
  ASSUME NEW u, NEW v, NEW w, IsVec(u), IsVec(v), IsVec(w), Extends(u, v), Extends(v, w)
  PROVE  Extends(u, w)
<1>1. Len(u) \in Nat /\ Len(v) \in Nat /\ Len(w) \in Nat
  BY VecProps
<1>2. Len(w) <= Len(u)
  BY <1>1 DEF Extends
<1>3. ASSUME NEW i \in 1 .. Len(w) PROVE u[i] = w[i]
  <2>1. i \in 1 .. Len(v)
    BY <1>1 DEF Extends
  <2> QED
    BY <2>1 DEF Extends
<1> QED
  BY <1>2, <1>3 DEF Extends

LEMMA ExtendsSelf ==
  ASSUME NEW u, IsVec(u)
  PROVE  Extends(u, u)
BY VecProps DEF Extends

LEMMA AddLocalProps ==
  ASSUME NEW map, IsVec(map), NEW l
  PROVE  /\ IsVec(AddLocal(map, l))
         /\ Extends(AddLocal(map, l), map)
         /\ \E n \in 1 .. Len(AddLocal(map, l)) : AddLocal(map, l)[n] = l
         /\ IsInjective(map) => IsInjective(AddLocal(map, l))
<1>1. Len(map) \in Nat /\ DOMAIN map = 1 .. Len(map)
  BY VecProps
<1>2. Contains(map, l) <=> \E n \in 1 .. Len(map) : map[n] = l
  BY DEF Contains
<1>3. CASE Contains(map, l)
  BY <1>1, <1>2, <1>3, ExtendsSelf DEF AddLocal
<1>4. CASE ~ Contains(map, l)
  <2> DEFINE m == Append(map, l)
  <2>1. /\ IsVec(m)
        /\ Len(m) = Len(map) + 1
        /\ \A i \in 1 .. Len(map) : m[i] = map[i]
        /\ m[Len(map) + 1] = l
    BY AppendVec
  <2>2. AddLocal(map, l) = m
    BY <1>4 DEF AddLocal
  <2> HIDE DEF m
  <2>3. Extends(m, map)
    BY <1>1, <2>1 DEF Extends
  <2>4. Len(map) + 1 \in 1 .. Len(m)
    BY <1>1, <2>1
  <2>5. ASSUME IsInjective(map) PROVE IsInjective(m)
    <3>1. DOMAIN m = 1 .. (Len(map) + 1)
      BY <2>1, VecProps
    <3>2. ASSUME NEW i \in DOMAIN m, NEW j \in DOMAIN m, m[i] = m[j] PROVE i = j
      <4>1. i \in Nat /\ j \in Nat
        BY <1>1, <3>1
      <4>2. CASE i \in 1 .. Len(map) /\ j \in 1 .. Len(map)
        BY <4>2, <1>1, <2>1, <2>5, <3>2 DEF IsInjective
      <4>3. CASE i = Len(map) + 1 /\ j \in 1 .. Len(map)
        BY <4>3, <1>2, <1>4, <2>1, <3>2
      <4>4. CASE j = Len(map) + 1 /\ i \in 1 .. Len(map)
        BY <4>4, <1>2, <1>4, <2>1, <3>2
      <4>5. CASE i = Len(map) + 1 /\ j = Len(map) + 1
        BY <4>5
      <4> QED
        BY <4>2, <4>3, <4>4, <4>5, <3>1, <1>1
    <3> QED
      BY <3>2 DEF IsInjective
  <2> QED
    BY <2>1, <2>2, <2>3, <2>4, <2>5
<1> QED
  BY <1>3, <1>4

\* WithLocals adds one local after the other.
Adds(f, map, locals) ==
  f[1] = map /\ \A i \in 1 .. Len(locals) : f[i + 1] = AddLocal(f[i], locals[i])

LEMMA WithLocalsIs ==
  ASSUME NEW map, IsVec(map), NEW locals, IsVec(locals)
  PROVE  \E f : Adds(f, map, locals) /\ WithLocals(map, locals) = f[Len(locals) + 1]
<1> DEFINE n == Len(locals)
           S == ToSet(map) \cup ToSet(locals)
           X == Seq(S)
           step == [i \in 1 .. n |-> [m \in X |-> AddLocal(m, locals[i])]]
           Is(f) == f = [i \in 1 .. (n + 1) |-> IF i = 1 THEN map ELSE AddLocal(f[i - 1], locals[i - 1])]
           after == CHOOSE f : Is(f)
<1>1. n \in Nat /\ \A i \in 1 .. n : locals[i] \in S
  BY VecProps
<1>2. map \in X
  <2>1. map \in [1 .. Len(map) -> S] /\ Len(map) \in Nat
    BY VecProps
  <2> QED
    BY <2>1, IsASeq
<1>3. ASSUME NEW i \in 1 .. n, NEW m \in X PROVE AddLocal(m, locals[i]) \in X
  <2>1. Append(m, locals[i]) \in X
    BY <1>1, AppendProperties
  <2> QED
    BY <2>1 DEF AddLocal
<1>4. step \in [1 .. n -> [X -> X]] /\ \A i \in 1 .. n : \A m \in X : step[i][m] = AddLocal(m, locals[i])
  BY <1>3
<1> HIDE DEF step
<1>5. PICK f \in [1 .. (n + 1) -> X] : ChainsUp(n, map, step, f)
  <2> HIDE DEF n, X
  <2> QED
    BY <1>1, <1>2, <1>4, ChainUp
<1>6. ASSUME NEW i \in 1 .. (n + 1)
      PROVE  f[i] = IF i = 1 THEN map ELSE AddLocal(f[i - 1], locals[i - 1])
  <2>1. CASE i = 1
    BY <2>1, <1>5 DEF ChainsUp
  <2>2. CASE i # 1
    <3> DEFINE j == i - 1
    <3>1. j \in 1 .. n /\ j \in 1 .. (n + 1) /\ i = j + 1
      BY <2>2, <1>1
    <3> HIDE DEF j
    <3>2. f[j + 1] = step[j][f[j]] /\ f[j] \in X
      BY <3>1, <1>5 DEF ChainsUp
    <3>3. f[i] = AddLocal(f[j], locals[j])
      BY <3>1, <3>2, <1>4
    <3> QED
      BY <3>3, <2>2 DEF j
  <2> QED
    BY <2>1, <2>2
<1>7. Is(f)
  <2> DEFINE h == [i \in 1 .. (n + 1) |-> IF i = 1 THEN map ELSE AddLocal(f[i - 1], locals[i - 1])]
  <2>1. \A i \in 1 .. (n + 1) : h[i] = f[i]
    BY <1>6
  <2>2. h = [i \in 1 .. (n + 1) |-> h[i]] /\ f = [i \in 1 .. (n + 1) |-> f[i]]
    OBVIOUS
  <2> HIDE DEF h
  <2>3. h = f
    BY <2>1, <2>2
  <2> QED
    BY <2>3 DEF h
<1>8. Is(after)
  <2> HIDE DEF Is
  <2> QED
    BY <1>7
<1>9. WithLocals(map, locals) = after[n + 1]
  BY DEF WithLocals
<1>10. Adds(after, map, locals)
  <2> DEFINE h == [i \in 1 .. (n + 1) |-> IF i = 1 THEN map ELSE AddLocal(after[i - 1], locals[i - 1])]
  <2>1. \A i \in 1 .. (n + 1) : h[i] = IF i = 1 THEN map ELSE AddLocal(after[i - 1], locals[i - 1])
    OBVIOUS
  <2>2. after = h
    BY <1>8
  <2> HIDE DEF h, after
  <2>3. 1 \in 1 .. (n + 1) /\ \A i \in 1 .. n : i + 1 \in 1 .. (n + 1) /\ i + 1 # 1 /\ (i + 1) - 1 = i
    BY <1>1
  <2>4. after[1] = map
    BY <2>1, <2>2, <2>3
  <2>5. ASSUME NEW i \in 1 .. n PROVE after[i + 1] = AddLocal(after[i], locals[i])
    BY <2>1, <2>2, <2>3
  <2> QED
    BY <2>4, <2>5 DEF Adds
<1> HIDE DEF after
<1> QED
  BY <1>9, <1>10

LEMMA WithLocalsProps ==
  ASSUME NEW map, IsVec(map), NEW locals, IsVec(locals)
  PROVE  /\ IsVec(WithLocals(map, locals))
         /\ Extends(WithLocals(map, locals), map)
         /\ \A i \in 1 .. Len(locals) :
              \E n \in 1 .. Len(WithLocals(map, locals)) : WithLocals(map, locals)[n] = locals[i]
         /\ IsInjective(map) => IsInjective(WithLocals(map, locals))
<1> DEFINE has(m, l) == \E n \in 1 .. Len(m) : m[n] = l
           Good(m, k) == /\ IsVec(m)
                         /\ Extends(m, map)
                         /\ \A i \in 1 .. k : has(m, locals[i])
                         /\ IsInjective(map) => IsInjective(m)
<1>1. PICK f : Adds(f, map, locals) /\ WithLocals(map, locals) = f[Len(locals) + 1]
  BY WithLocalsIs
<1> DEFINE T == {k \in Nat : k <= Len(locals) => Good(f[k + 1], k)}
<1>2. Len(locals) \in Nat
  BY VecProps
<1>3. 0 \in T
  <2>1. f[0 + 1] = map
    BY <1>1 DEF Adds
  <2>2. Good(map, 0)
    BY ExtendsSelf
  <2> HIDE DEF Good
  <2> QED
    BY <2>1, <2>2
<1>4. ASSUME NEW k \in Nat, k \in T PROVE k + 1 \in T
  <2> HIDE DEF Good
  <2> SUFFICES ASSUME k + 1 <= Len(locals) PROVE Good(f[k + 1 + 1], k + 1)
    OBVIOUS
  <2> USE DEF Good
  <2>1. k + 1 \in 1 .. Len(locals) /\ k <= Len(locals)
    BY <1>2
  <2> DEFINE m == f[k + 1]
             l == locals[k + 1]
             w == AddLocal(m, l)
  <2>2. Good(m, k)
    BY <2>1, <1>4
  <2>3. f[k + 1 + 1] = w
    BY <2>1, <1>1 DEF Adds
  <2> HIDE DEF m, l
  <2>4. /\ IsVec(w) /\ Extends(w, m) /\ has(w, l)
        /\ IsInjective(m) => IsInjective(w)
    BY <2>2, AddLocalProps
  <2> HIDE DEF w
  <2>5. Extends(w, map)
    BY <2>2, <2>4, ExtendsTransitive
  <2>6. ASSUME NEW i \in 1 .. (k + 1) PROVE has(w, locals[i])
    <3>1. CASE i = k + 1
      BY <3>1, <2>4 DEF l
    <3>2. CASE i # k + 1
      <4>1. i \in 1 .. k
        BY <3>2
      <4>2. PICK n \in 1 .. Len(m) : m[n] = locals[i]
        BY <4>1, <2>2
      <4>3. Len(m) \in Nat /\ Len(w) \in Nat
        BY <2>2, <2>4, VecProps
      <4>4. n \in 1 .. Len(w) /\ w[n] = m[n]
        BY <4>3, <2>4 DEF Extends
      <4> QED
        BY <4>2, <4>4
    <3> QED
      BY <3>1, <3>2
  <2> QED
    BY <2>2, <2>3, <2>4, <2>5, <2>6
<1> HIDE DEF T
<1>5. Len(locals) \in T
  BY <1>2, <1>3, <1>4, NatInd
<1>6. Good(WithLocals(map, locals), Len(locals))
  BY <1>1, <1>2, <1>5 DEF T
<1> QED
  BY <1>6

\* Parameters are distinct: the map of the parameters is the parameters.
LEMMA WithParameters ==
  ASSUME NEW params, IsVec(params), IsInjective(params)
  PROVE  WithLocals(<<>>, params) = params
<1> DEFINE Good(m, k) == IsVec(m) /\ Len(m) = k /\ \A i \in 1 .. k : m[i] = params[i]
<1>1. IsVec(<<>>)
  BY EmptySeq DEF IsVec
<1>2. PICK f : Adds(f, <<>>, params) /\ WithLocals(<<>>, params) = f[Len(params) + 1]
  BY <1>1, WithLocalsIs
<1> DEFINE T == {k \in Nat : k <= Len(params) => Good(f[k + 1], k)}
<1>3. Len(params) \in Nat /\ DOMAIN params = 1 .. Len(params)
  BY VecProps
<1>4. 0 \in T
  <2>1. f[0 + 1] = <<>>
    BY <1>2 DEF Adds
  <2>2. Good(<<>>, 0)
    BY <1>1
  <2> HIDE DEF Good
  <2> QED
    BY <2>1, <2>2
<1>5. ASSUME NEW k \in Nat, k \in T PROVE k + 1 \in T
  <2> SUFFICES ASSUME k + 1 <= Len(params) PROVE Good(f[k + 1 + 1], k + 1)
    OBVIOUS
  <2>1. k + 1 \in 1 .. Len(params) /\ k <= Len(params)
    BY <1>3
  <2> DEFINE m == f[k + 1]
             l == params[k + 1]
  <2>2. Good(m, k)
    BY <2>1, <1>5
  <2>3. f[k + 1 + 1] = AddLocal(m, l)
    BY <2>1, <1>2 DEF Adds
  <2> HIDE DEF m
  <2>4. ~ Contains(m, l)
    <3>1. ASSUME NEW n \in 1 .. k, m[n] = l PROVE FALSE
      <4>1. params[n] = params[k + 1] /\ n \in 1 .. Len(params) /\ n # k + 1
        BY <3>1, <2>1, <2>2, <1>3
      <4> QED
        BY <4>1, <2>1, <1>3 DEF IsInjective
    <3> QED
      BY <3>1, <2>2 DEF Contains
  <2>5. AddLocal(m, l) = Append(m, l)
    BY <2>4 DEF AddLocal
  <2> HIDE DEF l
  <2>6. /\ IsVec(Append(m, l)) /\ Len(Append(m, l)) = k + 1
        /\ \A i \in 1 .. k : Append(m, l)[i] = m[i]
        /\ Append(m, l)[k + 1] = l
    BY <2>2, AppendVec
  <2>7. ASSUME NEW i \in 1 .. (k + 1) PROVE Append(m, l)[i] = params[i]
    <3>1. CASE i = k + 1
      BY <3>1, <2>6 DEF l
    <3>2. CASE i # k + 1
      <4>1. i \in 1 .. k
        BY <3>2
      <4> QED
        BY <4>1, <2>2, <2>6
    <3> QED
      BY <3>1, <3>2
  <2> QED
    BY <2>3, <2>5, <2>6, <2>7
<1> HIDE DEF T
<1>6. Len(params) \in T
  BY <1>3, <1>4, <1>5, NatInd
<1>7. Good(WithLocals(<<>>, params), Len(params))
  BY <1>2, <1>3, <1>6 DEF T
<1> QED
  BY <1>7, SameVec

-----------------------------------------------------------------------------
\* Settling goes through the gotos one by one.
Closed(blocks) == \A pos \in Positions(blocks) : Jumped(blocks, pos) \in Positions(blocks)

LEMMA AtIn ==
  ASSUME NEW blocks, NEW i \in DOMAIN blocks, NEW line \in 1 .. (Len(blocks[i].stmts) + 1)
  PROVE  At(i, line) \in Positions(blocks)
BY DEF Positions

LEMMA AtFields ==
  ASSUME NEW i, NEW line
  PROVE  At(i, line).block = i /\ At(i, line).line = line
BY DEF At

LEMMA ClosedWhen ==
  ASSUME NEW blocks,
         \A i \in DOMAIN blocks :
           /\ Len(blocks[i].stmts) \in Nat
           /\ blocks[i].term.kind = "Goto" => blocks[i].term.targets[1] \in DOMAIN blocks
  PROVE  Closed(blocks)
<1> SUFFICES ASSUME NEW pos \in Positions(blocks) PROVE Jumped(blocks, pos) \in Positions(blocks)
  BY DEF Closed
<1>1. PICK i \in DOMAIN blocks : \E line \in 1 .. (Len(blocks[i].stmts) + 1) : pos = At(i, line)
  BY DEF Positions
<1>2. pos.block = i
  BY <1>1, AtFields
<1>3. CASE AtTerminator(blocks, pos) /\ blocks[pos.block].term.kind = "Goto"
  <2> DEFINE t == blocks[i].term.targets[1]
  <2>1. t \in DOMAIN blocks /\ 1 \in 1 .. (Len(blocks[t].stmts) + 1)
    <3>1. t \in DOMAIN blocks
      BY <1>2, <1>3
    <3> HIDE DEF t
    <3>2. Len(blocks[t].stmts) \in Nat
      BY <3>1
    <3> QED
      BY <3>1, <3>2
  <2>2. At(t, 1) \in Positions(blocks)
    BY <2>1, AtIn
  <2> QED
    BY <2>2, <1>2, <1>3 DEF Jumped
<1>4. CASE ~ (AtTerminator(blocks, pos) /\ blocks[pos.block].term.kind = "Goto")
  BY <1>4 DEF Jumped
<1> QED
  BY <1>3, <1>4

LEMMA SettleIs ==
  ASSUME NEW blocks, Closed(blocks), NEW pos \in Positions(blocks)
  PROVE  /\ Jumped(blocks, pos) = pos => Settle(blocks, pos) = pos
         /\ Settle(blocks, pos) = Settle(blocks, Jumped(blocks, pos))
<1> DEFINE X == Positions(blocks)
           g == [p \in X |-> Jumped(blocks, p)]
           Is(f) == f = [p \in X |-> IF Jumped(blocks, p) = p THEN p ELSE f[Jumped(blocks, p)]]
           settle == CHOOSE f : Is(f)
<1>1. g \in [X -> X] /\ \A p \in X : g[p] = Jumped(blocks, p)
  BY DEF Closed
<1>2. \E f : Is(f)
  <2> HIDE DEF g, X
  <2>1. \E f : f = [p \in X |-> IF g[p] = p THEN p ELSE f[g[p]]]
    BY <1>1, SettlingExists
  <2>2. \A f : [p \in X |-> IF g[p] = p THEN p ELSE f[g[p]]]
                = [p \in X |-> IF Jumped(blocks, p) = p THEN p ELSE f[Jumped(blocks, p)]]
    BY <1>1
  <2> QED
    BY <2>1, <2>2
<1>3. Is(settle)
  <2> HIDE DEF Is
  <2> QED
    BY <1>2
<1>4. \A p : Settle(blocks, p) = settle[p]
  BY DEF Settle
<1>5. \A p \in X : settle[p] = IF Jumped(blocks, p) = p THEN p ELSE settle[Jumped(blocks, p)]
  <2> DEFINE h == [p \in X |-> IF Jumped(blocks, p) = p THEN p ELSE settle[Jumped(blocks, p)]]
  <2>1. \A p \in X : h[p] = IF Jumped(blocks, p) = p THEN p ELSE settle[Jumped(blocks, p)]
    OBVIOUS
  <2>2. settle = h
    BY <1>3
  <2> HIDE DEF h, settle
  <2> QED
    BY <2>1, <2>2
<1> HIDE DEF settle
<1> QED
  BY <1>4, <1>5

\* A statement and a terminator that is not a goto are where execution settles.
LEMMA SettleHere ==
  ASSUME NEW blocks, Closed(blocks), NEW pos \in Positions(blocks),
         ~ AtTerminator(blocks, pos) \/ blocks[pos.block].term.kind # "Goto"
  PROVE  Settle(blocks, pos) = pos
<1>1. Jumped(blocks, pos) = pos
  BY DEF Jumped
<1> QED
  BY <1>1, SettleIs

LEMMA SettleThere ==
  ASSUME NEW blocks, Closed(blocks), NEW pos \in Positions(blocks),
         AtTerminator(blocks, pos), blocks[pos.block].term.kind = "Goto"
  PROVE  Settle(blocks, pos) = Settle(blocks, At(blocks[pos.block].term.targets[1], 1))
<1>1. Jumped(blocks, pos) = At(blocks[pos.block].term.targets[1], 1)
  BY DEF Jumped
<1> QED
  BY <1>1, SettleIs

-----------------------------------------------------------------------------
\* The invariant of the pass.
SameLocals(map, old, new) ==
  /\ DOMAIN new = 1 .. Len(old)
  /\ \A i \in 1 .. Len(old) : new[i] \in 1 .. Len(map) /\ map[new[i]] = old[i]

IsCopyOfStmt(map, old, new) ==
  new.label = old.label /\ SameLocals(map, old.locals, new.locals)

IsCopyOfTerm(map, hs, old, new) ==
  /\ new.kind = old.kind
  /\ new.label = old.label
  /\ SameLocals(map, old.locals, new.locals)
  /\ Len(new.targets) = Len(old.targets)
  /\ \A i \in 1 .. Len(old.targets) : new.targets[i] = CopyOf(hs, old.targets[i])

IsBlock(block, n) ==
  /\ block = [stmts |-> block.stmts, term |-> block.term]
  /\ IsVec(block.stmts)
  /\ block.term.kind = "Goto" => block.term.targets[1] \in 1 .. n

IsBuilder(r) ==
  r = [blocks |-> r.blocks, current |-> r.current, finalized |-> r.finalized, ok |-> r.ok]

\* The blocks of mir, what the statements of one are, and where in the copy a
\* line of one is.
Old == DOMAIN mir.blocks
Size(i) == Len(mir.blocks[i].stmts)
Image(i, line) == At(placed[i].block, placed[i].line + line - 1)

Placed == {i \in Old : placed[i] # Nowhere}

GraphInv == merge_next = MergeNext(mir.blocks) /\ heads = HeadsOf(mir.blocks)

LocalsInv == IsVec(local_map) /\ IsInjective(local_map) /\ Extends(local_map, mir.params)

BuilderInv ==
  /\ IsBuilder(b) /\ b.ok
  /\ IsVec(b.blocks)
  /\ Len(b.blocks) = Cardinality(heads)
  /\ b.current \in 1 .. Cardinality(heads)
  /\ \A k \in 1 .. Cardinality(heads) : IsBlock(b.blocks[k], Cardinality(heads))

\* The copies of the begun heads are finished, but for the one being written;
\* those of the others are empty.
FinishedInv ==
  /\ begun \subseteq heads
  /\ b.finalized = {CopyOf(heads, h) : h \in begun} \ (IF cursor = Nowhere THEN {} ELSE {b.current})
  /\ \A h \in heads \ begun : b.blocks[CopyOf(heads, h)].stmts = <<>>

\* A head is placed when its path is begun, any other block when the copy of
\* the block that merges into it is over.
PlacedInv ==
  /\ DOMAIN placed = Old
  /\ \A i \in Placed : /\ i \in Reachable(mir.blocks)
                       /\ placed[i].block \in 1 .. Cardinality(heads)
                       /\ placed[i].line \in Nat \ {0}
  /\ Placed \cap heads = begun
  /\ \A h \in begun : placed[h] = At(CopyOf(heads, h), 1)
  /\ \A i \in DOMAIN merge_next : merge_next[i] \in Placed => i \in Placed /\ i # cursor.block

CursorInv ==
  cursor = Nowhere \/
  /\ cursor = At(cursor.block, cursor.line)
  /\ cursor.block \in Placed
  /\ cursor.line \in 1 .. (Size(cursor.block) + 1)
  /\ placed[cursor.block].block = b.current
  /\ \E h \in begun : b.current = CopyOf(heads, h)
  /\ Len(b.blocks[b.current].stmts) + 1 = placed[cursor.block].line + cursor.line - 1

\* The statements that are copied.
Upto(i) == IF i = cursor.block THEN cursor.line - 1 ELSE Size(i)

StmtsInv ==
  \A i \in Placed : \A line \in 1 .. Upto(i) :
    LET pos == Image(i, line)
        stmts == b.blocks[pos.block].stmts
    IN  /\ pos.line \in 1 .. Len(stmts)
        /\ IsCopyOfStmt(local_map, mir.blocks[i].stmts[line], stmts[pos.line])

\* What follows them.
EndsInv ==
  \A i \in Placed \ {cursor.block} :
    LET pos == Image(i, Size(i) + 1)
        block == b.blocks[pos.block]
    IN  IF i \in DOMAIN merge_next THEN placed[merge_next[i]] = pos
        ELSE /\ pos.block \in b.finalized
             /\ pos.line = Len(block.stmts) + 1
             /\ IsCopyOfTerm(local_map, heads, mir.blocks[i].term, block.term)

CopyInv ==
  /\ GraphInv /\ LocalsInv /\ BuilderInv /\ FinishedInv
  /\ PlacedInv /\ CursorInv /\ StmtsInv /\ EndsInv

\* A position of the body that is not a goto, and its image.
InStep(old, new) ==
  \E i \in Reachable(mir.blocks) : \E line \in 1 .. (Size(i) + 1) :
    /\ old = At(i, line)
    /\ new = Image(i, line)
    /\ line = Size(i) + 1 => mir.blocks[i].term.kind # "Goto"

AtEntry == old_pos = At(EntryBlock, 1) /\ new_pos = At(EntryBlock, 1)

Inv ==
  /\ IsBody(mir)
  /\ \/ phase = "start" /\ begun = {} /\ cursor = Nowhere /\ AtEntry
     \/ phase = "copy" /\ CopyInv /\ AtEntry
     \/ phase = "run" /\ CopyInv /\ cursor = Nowhere /\ begun = heads /\ InStep(old_pos, new_pos)

-----------------------------------------------------------------------------
\* What a body is made of.
LEMMA MirProps ==
  ASSUME IsBody(mir)
  PROVE  /\ IsWellFormed(mir.blocks)
         /\ IsVec(mir.params) /\ IsInjective(mir.params)
         /\ 0 \notin Old
         /\ \A i \in Old :
              /\ i \in Nat
              /\ Size(i) \in Nat
              /\ \A line \in 1 .. Size(i) : IsVec(mir.blocks[i].stmts[line].locals)
              /\ IsVec(mir.blocks[i].term.locals)
              /\ IsVec(mir.blocks[i].term.targets)
              /\ mir.blocks[i].term.kind = "Goto" => Len(mir.blocks[i].term.targets) = 1
              /\ Targets(mir.blocks, i) = {mir.blocks[i].term.targets[n] : n \in 1 .. Len(mir.blocks[i].term.targets)}
<1>1. IsWellFormed(mir.blocks) /\ IsVec(mir.params) /\ IsInjective(mir.params)
  BY DEF IsBody
<1>2. Old = 1 .. Len(mir.blocks) /\ Len(mir.blocks) \in Nat
  BY <1>1, BlocksProps DEF Old
<1>3. ASSUME NEW i \in Old
      PROVE  /\ Size(i) \in Nat
             /\ \A line \in 1 .. Size(i) : IsVec(mir.blocks[i].stmts[line].locals)
             /\ IsVec(mir.blocks[i].term.locals)
             /\ IsVec(mir.blocks[i].term.targets)
             /\ mir.blocks[i].term.kind = "Goto" => Len(mir.blocks[i].term.targets) = 1
             /\ Targets(mir.blocks, i) = {mir.blocks[i].term.targets[n] : n \in 1 .. Len(mir.blocks[i].term.targets)}
  <2>1. /\ IsVec(mir.blocks[i].stmts)
        /\ \A stmt \in ToSet(mir.blocks[i].stmts) : IsVec(stmt.locals)
        /\ IsVec(mir.blocks[i].term.locals)
        /\ IsVec(mir.blocks[i].term.targets)
        /\ mir.blocks[i].term.kind = "Goto" => Len(mir.blocks[i].term.targets) = 1
    BY <1>1 DEF IsWellFormed, Old
  <2>2. Size(i) \in Nat /\ \A line \in 1 .. Size(i) : mir.blocks[i].stmts[line] \in ToSet(mir.blocks[i].stmts)
    BY <2>1, VecProps DEF Size
  <2>3. DOMAIN mir.blocks[i].term.targets = 1 .. Len(mir.blocks[i].term.targets)
    BY <2>1, VecProps
  <2> QED
    BY <2>1, <2>2, <2>3 DEF Targets, ToSet
<1> QED
  BY <1>1, <1>2, <1>3

LEMMA RenamedProps ==
  ASSUME NEW map, IsVec(map), NEW locals, IsVec(locals),
         \A i \in 1 .. Len(locals) : \E n \in 1 .. Len(map) : map[n] = locals[i]
  PROVE  SameLocals(map, locals, Renamed(map, locals))
<1>1. DOMAIN locals = 1 .. Len(locals) /\ DOMAIN map = 1 .. Len(map)
  BY VecProps
<1>2. ASSUME NEW i \in 1 .. Len(locals)
      PROVE  Renamed(map, locals)[i] \in 1 .. Len(map) /\ map[Renamed(map, locals)[i]] = locals[i]
  <2>1. Renamed(map, locals)[i] = CHOOSE n \in 1 .. Len(map) : map[n] = locals[i]
    BY <1>1 DEF Renamed
  <2>2. \E n \in 1 .. Len(map) : map[n] = locals[i]
    OBVIOUS
  <2> QED
    BY <2>1, <2>2
<1>3. DOMAIN Renamed(map, locals) = 1 .. Len(locals)
  BY <1>1 DEF Renamed
<1> QED
  BY <1>2, <1>3 DEF SameLocals

LEMMA SameLocalsKept ==
  ASSUME NEW map, IsVec(map), NEW more, IsVec(more), Extends(more, map),
         NEW old, NEW new, SameLocals(map, old, new)
  PROVE  SameLocals(more, old, new)
<1>1. Len(map) \in Nat /\ Len(more) \in Nat
  BY VecProps
<1> QED
  BY <1>1 DEF SameLocals, Extends

LEMMA StmtKept ==
  ASSUME NEW map, IsVec(map), NEW more, IsVec(more), Extends(more, map),
         NEW old, NEW new, IsCopyOfStmt(map, old, new)
  PROVE  IsCopyOfStmt(more, old, new)
BY SameLocalsKept DEF IsCopyOfStmt

LEMMA TermKept ==
  ASSUME NEW map, IsVec(map), NEW more, IsVec(more), Extends(more, map), NEW hs,
         NEW old, NEW new, IsCopyOfTerm(map, hs, old, new)
  PROVE  IsCopyOfTerm(more, hs, old, new)
BY SameLocalsKept DEF IsCopyOfTerm

LEMMA StmtCopied ==
  ASSUME NEW map, IsVec(map), NEW stmt, IsVec(stmt.locals)
  PROVE  IsCopyOfStmt(WithLocals(map, stmt.locals), stmt, CopyStmt(WithLocals(map, stmt.locals), stmt))
<1> DEFINE more == WithLocals(map, stmt.locals)
<1>1. SameLocals(more, stmt.locals, Renamed(more, stmt.locals))
  <2>1. /\ IsVec(more)
        /\ \A i \in 1 .. Len(stmt.locals) : \E n \in 1 .. Len(more) : more[n] = stmt.locals[i]
    BY WithLocalsProps
  <2> HIDE DEF more
  <2> QED
    BY <2>1, RenamedProps
<1> HIDE DEF more
<1>2. /\ CopyStmt(more, stmt).label = stmt.label
      /\ CopyStmt(more, stmt).locals = Renamed(more, stmt.locals)
  BY DEF CopyStmt, Stmt
<1> QED
  BY <1>1, <1>2 DEF IsCopyOfStmt, more

LEMMA TermCopied ==
  ASSUME NEW map, IsVec(map), NEW hs, NEW term, IsVec(term.locals), IsVec(term.targets)
  PROVE  IsCopyOfTerm(WithLocals(map, term.locals), hs, term,
                      CopyTerminator(WithLocals(map, term.locals), hs, term))
<1> DEFINE more == WithLocals(map, term.locals)
<1>1. SameLocals(more, term.locals, Renamed(more, term.locals))
  <2>1. /\ IsVec(more)
        /\ \A i \in 1 .. Len(term.locals) : \E n \in 1 .. Len(more) : more[n] = term.locals[i]
    BY WithLocalsProps
  <2> HIDE DEF more
  <2> QED
    BY <2>1, RenamedProps
<1> HIDE DEF more
<1> DEFINE n == Len(term.targets)
           targets == CopyTargets(hs, term.targets)
<1>2. /\ CopyTerminator(more, hs, term).kind = term.kind
      /\ CopyTerminator(more, hs, term).label = term.label
      /\ CopyTerminator(more, hs, term).locals = Renamed(more, term.locals)
      /\ CopyTerminator(more, hs, term).targets = targets
  BY DEF CopyTerminator, Terminator
<1>3. n \in Nat /\ targets = [i \in 1 .. n |-> CopyOf(hs, term.targets[i])]
  BY VecProps DEF CopyTargets
<1>4. Len(targets) = n /\ \A i \in 1 .. n : targets[i] = CopyOf(hs, term.targets[i])
  <2> DEFINE S == {CopyOf(hs, term.targets[i]) : i \in 1 .. n}
  <2> HIDE DEF n
  <2>1. targets \in [1 .. n -> S]
    BY <1>3
  <2> HIDE DEF targets, S
  <2>2. Len(targets) = n
    BY <1>3, <2>1, FunctionIsVec
  <2> QED
    BY <2>2, <1>3
<1> HIDE DEF n, targets
<1> QED
  BY <1>1, <1>2, <1>4 DEF IsCopyOfTerm, more, n, targets

\* What the parts of the invariant say together.
LEMMA InvProps ==
  ASSUME IsBody(mir), GraphInv, BuilderInv, FinishedInv
  PROVE  /\ Cardinality(heads) \in Nat
         /\ DOMAIN b.blocks = 1 .. Cardinality(heads)
         /\ \A k \in 1 .. Cardinality(heads) : Len(b.blocks[k].stmts) \in Nat
         /\ EntryBlock \in heads
         /\ CopyOf(heads, EntryBlock) = EntryBlock
         /\ heads \subseteq Reachable(mir.blocks) /\ Reachable(mir.blocks) \subseteq Old
         /\ DOMAIN merge_next \subseteq Reachable(mir.blocks)
         /\ \A h \in heads : CopyOf(heads, h) \in 1 .. Cardinality(heads)
         /\ \A g, h \in heads : CopyOf(heads, g) = CopyOf(heads, h) => g = h
         /\ \A k \in 1 .. Cardinality(heads) : \E h \in heads : CopyOf(heads, h) = k
         /\ cursor # Nowhere => b.current \notin b.finalized
         /\ \A i \in DOMAIN merge_next :
              /\ merge_next[i] \in Reachable(mir.blocks) \ heads
              /\ \A j \in DOMAIN merge_next : merge_next[j] = merge_next[i] => j = i
<1>1. IsWellFormed(mir.blocks)
  BY MirProps
<1>2. heads = HeadsOf(mir.blocks) /\ merge_next = MergeNext(mir.blocks)
  BY DEF GraphInv
<1>3. /\ heads \subseteq Reachable(mir.blocks)
      /\ heads \subseteq Nat \ {0}
      /\ IsFiniteSet(heads)
      /\ EntryBlock \in heads
      /\ \A i \in DOMAIN merge_next : merge_next[i] \notin heads
  BY <1>1, <1>2, HeadsProps
<1>4. Reachable(mir.blocks) \subseteq Old
  BY <1>1, ReachableProps DEF Old
<1>5. /\ Cardinality(heads) \in Nat
      /\ CopyOf(heads, EntryBlock) = EntryBlock
      /\ \A h \in heads : CopyOf(heads, h) \in 1 .. Cardinality(heads)
      /\ \A g, h \in heads : CopyOf(heads, g) = CopyOf(heads, h) => g = h
      /\ \A k \in 1 .. Cardinality(heads) : \E h \in heads : CopyOf(heads, h) = k
  BY <1>3, CopyOfProps
<1>6. DOMAIN b.blocks = 1 .. Cardinality(heads)
  BY VecProps DEF BuilderInv
<1>7. \A k \in 1 .. Cardinality(heads) : Len(b.blocks[k].stmts) \in Nat
  BY VecProps DEF BuilderInv, IsBlock
<1>8. cursor # Nowhere => b.current \notin b.finalized
  BY DEF FinishedInv
<1>9. DOMAIN merge_next \subseteq Reachable(mir.blocks)
  BY <1>1, <1>2, MergeProps
<1>10. ASSUME NEW i \in DOMAIN merge_next
       PROVE  /\ merge_next[i] \in Reachable(mir.blocks) \ heads
              /\ \A j \in DOMAIN merge_next : merge_next[j] = merge_next[i] => j = i
  <2>1. merge_next[i] \in Reachable(mir.blocks)
    BY <1>1, <1>2, MergeProps
  <2>2. ASSUME NEW j \in DOMAIN merge_next, merge_next[j] = merge_next[i] PROVE j = i
    <3>1. merge_next[j] \in Targets(mir.blocks, j) /\ j \in Reachable(mir.blocks)
      BY <1>1, <1>2, <1>9, MergeProps
    <3>2. \A k \in Reachable(mir.blocks) : merge_next[i] \in Targets(mir.blocks, k) => k = i
      BY <1>1, <1>2, MergeProps
    <3> QED
      BY <2>2, <3>1, <3>2
  <2> QED
    BY <2>1, <2>2, <1>3
<1> QED
  BY <1>3, <1>4, <1>5, <1>6, <1>7, <1>8, <1>9, <1>10

-----------------------------------------------------------------------------
\* Each action keeps the invariant.
LEMMA BuilderChanged ==
  ASSUME NEW r, IsBuilder(r), NEW x
  PROVE  LET s == [r EXCEPT !.current = x]
         IN  /\ IsBuilder(s) /\ s.blocks = r.blocks /\ s.current = x
             /\ s.finalized = r.finalized /\ s.ok = r.ok
<1> DEFINE blocks == r.blocks
           current == r.current
           finalized == r.finalized
           ok == r.ok
           s == [[blocks |-> blocks, current |-> current, finalized |-> finalized, ok |-> ok]
                   EXCEPT !.current = x]
<1>1. [r EXCEPT !.current = x] = s
  BY DEF IsBuilder
<1> HIDE DEF blocks, current, finalized, ok
<1>2. s = [blocks |-> blocks, current |-> x, finalized |-> finalized, ok |-> ok]
  OBVIOUS
<1>3. /\ IsBuilder(s) /\ s.blocks = blocks /\ s.current = x
      /\ s.finalized = finalized /\ s.ok = ok
  BY <1>2 DEF IsBuilder
<1> QED
  BY <1>1, <1>3 DEF blocks, finalized, ok

LEMMA NewBlocksProps ==
  ASSUME NEW n \in Nat
  PROVE  LET made == NewBlocks(NewBuilder, n)
         IN  /\ IsBuilder(made) /\ made.current = EntryBlock /\ made.finalized = {} /\ made.ok
             /\ IsVec(made.blocks)
             /\ Len(made.blocks) = n + 1
             /\ \A k \in 1 .. (n + 1) : made.blocks[k] = EmptyBlock
<1> DEFINE S == {EmptyBlock}
           more == [i \in 1 .. n |-> EmptyBlock]
           blocks == <<EmptyBlock>> \o more
<1>1. NewBlocks(NewBuilder, n)
        = [blocks |-> blocks, current |-> EntryBlock, finalized |-> {}, ok |-> TRUE]
  <2>1. NewBuilder.blocks = <<EmptyBlock>>
    BY DEF NewBuilder
  <2>2. NewBlocks(NewBuilder, n) = [NewBuilder EXCEPT !.blocks = blocks]
    BY <2>1 DEF NewBlocks
  <2> HIDE DEF blocks
  <2> QED
    BY <2>2 DEF NewBuilder
<1>2. <<EmptyBlock>> \in Seq(S) /\ Len(<<EmptyBlock>>) = 1
  OBVIOUS
<1>3. more \in Seq(S) /\ Len(more) = n
  <2>1. more \in [1 .. n -> S]
    OBVIOUS
  <2> HIDE DEF more, S
  <2> QED
    BY <2>1, IsASeq, LenProperties
<1> HIDE DEF more
<1>4. blocks \in Seq(S) /\ Len(blocks) = n + 1
  <2> HIDE DEF S
  <2>1. blocks \in Seq(S) /\ Len(blocks) = Len(<<EmptyBlock>>) + Len(more)
    BY <1>2, <1>3, ConcatProperties
  <2> QED
    BY <2>1, <1>2, <1>3
<1> HIDE DEF blocks
<1>5. blocks \in [1 .. (n + 1) -> S]
  <2> HIDE DEF S
  <2> QED
    BY <1>4, LenProperties
<1>6. IsVec(blocks)
  <2> HIDE DEF S
  <2>1. n + 1 \in Nat
    OBVIOUS
  <2> QED
    BY <2>1, <1>5, FunctionIsVec
<1>7. \A k \in 1 .. (n + 1) : blocks[k] = EmptyBlock
  BY <1>5
<1>8. LET made == [blocks |-> blocks, current |-> EntryBlock, finalized |-> {}, ok |-> TRUE]
      IN  /\ IsBuilder(made) /\ made.current = EntryBlock /\ made.finalized = {} /\ made.ok
          /\ made.blocks = blocks
  BY DEF IsBuilder
<1> QED
  BY <1>1, <1>4, <1>6, <1>7, <1>8

LEMMA EmptyIsVec == IsVec(<<>>)
BY EmptySeq DEF IsVec

LEMMA PrepareKeeps ==
  ASSUME IsBody(mir), begun = {}, cursor = Nowhere, Prepare
  PROVE  CopyInv' /\ phase' = "copy"
<1> DEFINE n == Cardinality(heads')
<1>1. /\ mir' = mir /\ begun' = {} /\ cursor' = Nowhere
      /\ merge_next' = MergeNext(mir.blocks)
      /\ heads' = HeadsOf(mir.blocks)
      /\ placed' = [i \in DOMAIN mir.blocks |-> Nowhere]
      /\ b' = NewBlocks(NewBuilder, Cardinality(heads' \ {EntryBlock}))
      /\ local_map' = WithLocals(<<>>, mir.params)
      /\ phase' = "copy"
  BY DEF Prepare
<1>2. GraphInv'
  BY <1>1 DEF GraphInv
<1>3. LocalsInv'
  <2>1. local_map' = mir.params
    BY <1>1, MirProps, WithParameters
  <2> QED
    BY <2>1, <1>1, MirProps, ExtendsSelf DEF LocalsInv
<1>4. /\ n \in Nat /\ n \in 1 .. n
      /\ Cardinality(heads' \ {EntryBlock}) = n - 1
      /\ n - 1 \in Nat
      /\ EntryBlock \in 1 .. n
      /\ \A h \in heads' : CopyOf(heads', h) \in 1 .. n
  <2>1. /\ heads' \subseteq Nat \ {0} /\ IsFiniteSet(heads') /\ EntryBlock \in heads'
    BY <1>1, MirProps, HeadsProps
  <2>2. /\ n \in Nat
        /\ Cardinality(heads' \ {EntryBlock}) = n - 1
        /\ CopyOf(heads', EntryBlock) = EntryBlock
        /\ \A h \in heads' : CopyOf(heads', h) \in 1 .. n
    BY <2>1, CopyOfProps
  <2>3. EntryBlock \in 1 .. n
    BY <2>1, <2>2
  <2> QED
    BY <2>2, <2>3 DEF EntryBlock
<1> HIDE DEF n
<1>5. /\ IsBuilder(b') /\ b'.current = EntryBlock /\ b'.finalized = {} /\ b'.ok
      /\ IsVec(b'.blocks)
      /\ Len(b'.blocks) = n
      /\ \A k \in 1 .. n : b'.blocks[k] = EmptyBlock
  <2> DEFINE made == NewBlocks(NewBuilder, n - 1)
  <2>1. /\ IsBuilder(made) /\ made.current = EntryBlock /\ made.finalized = {} /\ made.ok
        /\ IsVec(made.blocks)
        /\ Len(made.blocks) = (n - 1) + 1
        /\ \A k \in 1 .. ((n - 1) + 1) : made.blocks[k] = EmptyBlock
    BY <1>4, NewBlocksProps
  <2>2. b' = made
    BY <1>1, <1>4
  <2>3. (n - 1) + 1 = n
    BY <1>4
  <2> HIDE DEF made
  <2> QED
    BY <2>1, <2>2, <2>3
<1>7. \A k \in 1 .. n : IsBlock(b'.blocks[k], n) /\ b'.blocks[k].stmts = <<>>
  <2>1. EmptyBlock.stmts = <<>> /\ EmptyBlock.term.kind # "Goto"
    BY DEF EmptyBlock, Diverge, Terminator
  <2>2. EmptyBlock = [stmts |-> EmptyBlock.stmts, term |-> EmptyBlock.term]
    BY DEF EmptyBlock
  <2> QED
    BY <1>5, <2>1, <2>2, EmptyIsVec DEF IsBlock
<1>8. BuilderInv'
  BY <1>4, <1>5, <1>7 DEF BuilderInv, n
<1>9. FinishedInv'
  BY <1>1, <1>4, <1>5, <1>7 DEF FinishedInv
<1>10. Placed' = {}
  BY <1>1 DEF Placed, Old
<1>11. PlacedInv'
  BY <1>1, <1>10 DEF PlacedInv, Old
<1>12. CursorInv' /\ StmtsInv' /\ EndsInv'
  BY <1>1, <1>10 DEF CursorInv, StmtsInv, EndsInv
<1> QED
  BY <1>1, <1>2, <1>3, <1>8, <1>9, <1>11, <1>12 DEF CopyInv

\* What an action that leaves the graph alone leaves alone.
LEMMA SameGraph ==
  ASSUME mir' = mir, merge_next' = merge_next, heads' = heads
  PROVE  /\ Old' = Old
         /\ \A i : Size(i)' = Size(i)
         /\ GraphInv => GraphInv'
BY DEF Old, Size, GraphInv

LEMMA BeginPathKeeps ==
  ASSUME IsBody(mir), CopyInv, BeginPath
  PROVE  CopyInv' /\ phase' = "copy"
<1> DEFINE n == Cardinality(heads)
<1>1. cursor = Nowhere /\ phase = "copy"
  BY DEF BeginPath
<1>2. PICK head \in heads \ begun :
        /\ begun' = begun \cup {head}
        /\ b' = SwitchToBlock(b, CopyOf(heads, head))
        /\ cursor' = At(head, 1)
        /\ placed' = [placed EXCEPT ![head] = At(CopyOf(heads, head), 1)]
  BY DEF BeginPath
<1>3. /\ mir' = mir /\ local_map' = local_map /\ merge_next' = merge_next /\ heads' = heads
      /\ phase' = IF b'.ok THEN phase ELSE "panicked"
  BY DEF BeginPath, GoOn
<1>4. GraphInv /\ LocalsInv /\ BuilderInv /\ FinishedInv /\ PlacedInv /\ StmtsInv /\ EndsInv
  BY DEF CopyInv
<1> DEFINE c == CopyOf(heads, head)
<1>5. c \in 1 .. n /\ n \in Nat
  BY <1>4, InvProps
<1>6. c \notin b.finalized /\ \A h \in heads \ begun' : CopyOf(heads, h) # c
  <2>1. \A h \in heads : CopyOf(heads, h) = c => h = head
    BY <1>4, InvProps
  <2>2. b.finalized = {CopyOf(heads, h) : h \in begun} /\ begun \subseteq heads
    BY <1>1, <1>4 DEF FinishedInv
  <2> HIDE DEF c
  <2> QED
    BY <2>1, <2>2, <1>2
<1> HIDE DEF n, c
<1>8. /\ IsBuilder(b') /\ b'.blocks = b.blocks /\ b'.current = c
      /\ b'.finalized = b.finalized /\ b'.ok
  <2>1. b' = [b EXCEPT !.current = c]
    BY <1>2, <1>6 DEF SwitchToBlock, c
  <2>2. IsBuilder(b) /\ b.ok
    BY <1>4 DEF BuilderInv
  <2> QED
    BY <2>1, <2>2, BuilderChanged
<1>9. phase' = "copy"
  BY <1>1, <1>3, <1>8
<1>10. head \in Old /\ head # 0 /\ cursor' # Nowhere /\ cursor'.block = head /\ cursor'.line = 1
  <2>1. head \in Old /\ 0 \notin Old
    BY <1>4, MirProps, InvProps
  <2>2. cursor'.block = head /\ cursor'.line = 1
    BY <1>2, AtFields
  <2>3. Nowhere.block = 0
    BY AtFields DEF Nowhere
  <2> QED
    BY <2>1, <2>2, <2>3
<1>11. cursor.block = 0 /\ \A i \in Old : i # cursor.block
  BY <1>1, AtFields, MirProps DEF Nowhere
<1>12. head \notin Placed
  BY <1>4, <1>2 DEF PlacedInv
<1>13. placed'[head] = At(c, 1) /\ placed'[head] # Nowhere /\ \A i \in Old \ {head} : placed'[i] = placed[i]
  <2>1. DOMAIN placed = Old
    BY <1>4 DEF PlacedInv
  <2>2. At(c, 1).line = 1 /\ Nowhere.line = 0
    BY AtFields DEF Nowhere
  <2> QED
    BY <2>1, <2>2, <1>2, <1>10 DEF c
<1>14. Old' = Old /\ (\A i : Size(i)' = Size(i)) /\ GraphInv'
  BY <1>3, <1>4, SameGraph
<1>15. Placed' = Placed \cup {head}
  BY <1>10, <1>13, <1>14 DEF Placed
<1>16. LocalsInv'
  BY <1>3, <1>4 DEF LocalsInv
<1>17. BuilderInv'
  BY <1>3, <1>4, <1>5, <1>8 DEF BuilderInv, n
<1>18. FinishedInv'
  <2>1. begun' \subseteq heads
    BY <1>2, <1>4 DEF FinishedInv
  <2>2. b'.finalized = {CopyOf(heads, h) : h \in begun'} \ {b'.current}
    <3>1. b.finalized = {CopyOf(heads, h) : h \in begun}
      BY <1>1, <1>4 DEF FinishedInv
    <3>2. {CopyOf(heads, h) : h \in begun'} = {CopyOf(heads, h) : h \in begun} \cup {c}
      BY <1>2 DEF c
    <3> QED
      BY <3>1, <3>2, <1>6, <1>8
  <2>3. \A h \in heads \ begun' : b'.blocks[CopyOf(heads, h)].stmts = <<>>
    BY <1>2, <1>4, <1>8 DEF FinishedInv
  <2> QED
    BY <2>1, <2>2, <2>3, <1>3, <1>10 DEF FinishedInv
<1>19. PlacedInv'
  <2>1. DOMAIN placed' = Old
    BY <1>2, <1>4 DEF PlacedInv
  <2>2. ASSUME NEW i \in Placed'
        PROVE  /\ i \in Reachable(mir.blocks)
               /\ placed'[i].block \in 1 .. n
               /\ placed'[i].line \in Nat \ {0}
    <3>1. CASE i = head
      BY <3>1, <1>4, <1>5, <1>13, InvProps, AtFields
    <3>2. CASE i # head
      BY <3>2, <1>4, <1>13, <1>15 DEF PlacedInv, Placed, n
    <3> QED
      BY <3>1, <3>2
  <2>3. Placed' \cap heads = begun'
    BY <1>2, <1>4, <1>15 DEF PlacedInv
  <2>4. ASSUME NEW h \in begun' PROVE placed'[h] = At(CopyOf(heads, h), 1)
    <3>1. CASE h = head
      BY <3>1, <1>13 DEF c
    <3>2. CASE h # head
      <4>1. h \in begun /\ h \in Old
        BY <3>2, <1>2, <1>4 DEF PlacedInv, Placed
      <4> QED
        BY <4>1, <3>2, <1>4, <1>13 DEF PlacedInv
    <3> QED
      BY <3>1, <3>2
  <2>5. ASSUME NEW i \in DOMAIN merge_next, merge_next[i] \in Placed'
        PROVE  i \in Placed' /\ i # cursor'.block
    <3>1. merge_next[i] # head
      BY <1>4, InvProps
    <3>2. i \in Placed
      BY <3>1, <2>5, <1>4, <1>15 DEF PlacedInv
    <3> QED
      BY <3>2, <1>10, <1>12, <1>15
  <2> QED
    BY <2>1, <2>2, <2>3, <2>4, <2>5, <1>3, <1>14 DEF PlacedInv, n
<1>20. CursorInv'
  <2>1. Len(b'.blocks[c].stmts) = 0
    <3>1. b.blocks[c].stmts = <<>>
      BY <1>2, <1>4 DEF FinishedInv, c
    <3> QED
      BY <3>1, <1>8
  <2>2. cursor' = At(cursor'.block, cursor'.line)
    BY <1>2, <1>10
  <2>3. Size(head)' \in Nat
    BY <1>10, <1>14, MirProps
  <2>4. placed'[head].block = c /\ placed'[head].line = 1
    BY <1>13, AtFields
  <2>5. \E h \in begun' : b'.current = CopyOf(heads, h)
    BY <1>2, <1>8 DEF c
  <2>6. cursor'.line \in 1 .. (Size(head)' + 1)
    BY <2>3, <1>10
  <2>7. Len(b'.blocks[b'.current].stmts) + 1 = placed'[head].line + cursor'.line - 1
    BY <2>1, <2>4, <1>8, <1>10
  <2> QED
    BY <2>2, <2>4, <2>5, <2>6, <2>7, <1>3, <1>8, <1>10, <1>15 DEF CursorInv
<1>21. StmtsInv'
  <2> SUFFICES ASSUME NEW i \in Placed', NEW line \in 1 .. Upto(i)'
               PROVE  LET pos == At(placed'[i].block, placed'[i].line + line - 1)
                          stmts == b.blocks[pos.block].stmts
                      IN  /\ pos.line \in 1 .. Len(stmts)
                          /\ IsCopyOfStmt(local_map, mir.blocks[i].stmts[line], stmts[pos.line])
    BY <1>3, <1>8 DEF StmtsInv, Image
  <2>1. i # head
    <3>1. ASSUME i = head PROVE FALSE
      <4>1. Upto(i)' = 0
        BY <3>1, <1>10 DEF Upto
      <4> QED
        BY <4>1
    <3> QED
      BY <3>1
  <2>2. i \in Placed /\ i \in Old
    BY <2>1, <1>15 DEF Placed
  <2>3. Upto(i)' = Size(i) /\ Upto(i) = Size(i)
    BY <2>1, <2>2, <1>10, <1>11, <1>14 DEF Upto
  <2>4. placed'[i] = placed[i]
    BY <2>1, <2>2, <1>13
  <2> QED
    BY <2>2, <2>3, <2>4, <1>4 DEF StmtsInv, Image
<1>22. EndsInv'
  <2> SUFFICES ASSUME NEW i \in Placed' \ {head}
               PROVE  LET pos == At(placed'[i].block, placed'[i].line + (Size(i) + 1) - 1)
                          block == b.blocks[pos.block]
                      IN  IF i \in DOMAIN merge_next THEN placed'[merge_next[i]] = pos
                          ELSE /\ pos.block \in b.finalized
                               /\ pos.line = Len(block.stmts) + 1
                               /\ IsCopyOfTerm(local_map, heads, mir.blocks[i].term, block.term)
    BY <1>3, <1>8, <1>10, <1>14 DEF EndsInv, Image
  <2>1. i \in Placed \ {cursor.block} /\ placed'[i] = placed[i]
    BY <1>11, <1>13, <1>15 DEF Placed
  <2>2. i \in DOMAIN merge_next => placed'[merge_next[i]] = placed[merge_next[i]]
    BY <1>4, <1>13, InvProps
  <2> QED
    BY <2>1, <2>2, <1>4 DEF EndsInv, Image
<1> QED
  BY <1>9, <1>14, <1>16, <1>17, <1>18, <1>19, <1>20, <1>21, <1>22 DEF CopyInv

-----------------------------------------------------------------------------
\* What the builder does.
LEMMA VecChanged ==
  ASSUME NEW v, IsVec(v), NEW k \in 1 .. Len(v), NEW x
  PROVE  LET w == [v EXCEPT ![k] = x]
         IN  /\ IsVec(w) /\ Len(w) = Len(v)
             /\ w[k] = x
             /\ \A i \in 1 .. Len(v) : i # k => w[i] = v[i]
<1> DEFINE w == [v EXCEPT ![k] = x]
           S == ToSet(v) \cup {x}
           n == Len(v)
<1>1. n \in Nat /\ v \in [1 .. n -> S]
  BY VecProps
<1> HIDE DEF S, n
<1>2. k \in 1 .. n /\ x \in S
  BY DEF n, S
<1>3. w \in [1 .. n -> S] /\ w[k] = x /\ \A i \in 1 .. n : i # k => w[i] = v[i]
  BY <1>1, <1>2
<1> HIDE DEF w
<1>4. IsVec(w) /\ Len(w) = n
  BY <1>1, <1>3, FunctionIsVec
<1> QED
  BY <1>3, <1>4 DEF w, n

WritesInPlace(r, s, n) ==
  /\ IsBuilder(s) /\ s.current = r.current /\ s.ok = r.ok
  /\ IsVec(s.blocks) /\ Len(s.blocks) = Len(r.blocks)
  /\ \A i \in 1 .. Len(r.blocks) : i # r.current => s.blocks[i] = r.blocks[i]
  /\ IsBlock(s.blocks[r.current], n)

EmitsOne(r, s, x) ==
  LET old == r.blocks[r.current]
      new == s.blocks[r.current]
  IN  /\ s.finalized = r.finalized
      /\ new.term = old.term
      /\ Len(new.stmts) = Len(old.stmts) + 1
      /\ \A i \in 1 .. Len(old.stmts) : new.stmts[i] = old.stmts[i]
      /\ new.stmts[Len(old.stmts) + 1] = x

EndsBlock(r, s, term) ==
  /\ s.finalized = r.finalized \cup {r.current}
  /\ s.blocks[r.current].term = term
  /\ s.blocks[r.current].stmts = r.blocks[r.current].stmts

LEMMA Emitted ==
  ASSUME NEW r, IsBuilder(r), IsVec(r.blocks), r.current \in 1 .. Len(r.blocks),
         r.current \notin r.finalized,
         NEW n, IsBlock(r.blocks[r.current], n), NEW x
  PROVE  WritesInPlace(r, EmitAll(r, <<x>>), n) /\ EmitsOne(r, EmitAll(r, <<x>>), x)
<1> DEFINE blocks == r.blocks
           current == r.current
           finalized == r.finalized
           ok == r.ok
           stmts == blocks[current].stmts
           term == blocks[current].term
           more == stmts \o <<x>>
           block == [stmts |-> more, term |-> term]
           after == [blocks EXCEPT ![current] = block]
           s == EmitAll(r, <<x>>)
<1>1. s = [r EXCEPT !.blocks[r.current].stmts = @ \o <<x>>]
  BY DEF EmitAll, IsTerminated
<1>2. r = [blocks |-> blocks, current |-> current, finalized |-> finalized, ok |-> ok]
  BY DEF IsBuilder
<1>3. blocks[current] = [stmts |-> stmts, term |-> term]
  BY DEF IsBlock
<1>4. IsVec(stmts) /\ IsVec(blocks) /\ current \in 1 .. Len(blocks) /\ DOMAIN blocks = 1 .. Len(blocks)
  BY VecProps DEF IsBlock
<1>5. /\ IsVec(more)
      /\ Len(more) = Len(stmts) + 1
      /\ \A i \in 1 .. Len(stmts) : more[i] = stmts[i]
      /\ more[Len(stmts) + 1] = x
  <2>1. Append(stmts, x) = more
    <3> DEFINE S == ToSet(stmts) \cup {x}
    <3> HIDE DEF stmts
    <3>1. stmts \in Seq(S)
      <4>1. Len(stmts) \in Nat /\ stmts \in [1 .. Len(stmts) -> S]
        BY <1>4, VecProps
      <4> HIDE DEF S
      <4> QED
        BY <4>1, IsASeq
    <3>2. x \in S
      OBVIOUS
    <3> HIDE DEF S
    <3> QED
      BY <3>1, <3>2, AppendIsConcat
  <2>2. /\ IsVec(Append(stmts, x))
        /\ Len(Append(stmts, x)) = Len(stmts) + 1
        /\ \A i \in 1 .. Len(stmts) : Append(stmts, x)[i] = stmts[i]
        /\ Append(stmts, x)[Len(stmts) + 1] = x
    <3> HIDE DEF stmts
    <3> QED
      BY <1>4, AppendVec
  <2> HIDE DEF stmts, more
  <2> QED
    BY <2>1, <2>2
<1>6. [r EXCEPT !.blocks[r.current].stmts = @ \o <<x>>]
        = [r EXCEPT !.blocks = [blocks EXCEPT ![current] = [blocks[current] EXCEPT !.stmts = more]]]
  OBVIOUS
<1>7. [blocks[current] EXCEPT !.stmts = more] = block
  <2> HIDE DEF more, stmts, term
  <2>1. \A y : [[stmts |-> stmts, term |-> term] EXCEPT !.stmts = y] = [stmts |-> y, term |-> term]
    OBVIOUS
  <2> QED
    BY <2>1, <1>3
<1>8. s = [r EXCEPT !.blocks = after]
  BY <1>1, <1>6, <1>7
<1>9. /\ IsVec(after) /\ Len(after) = Len(blocks)
      /\ after[current] = block
      /\ \A i \in 1 .. Len(blocks) : i # current => after[i] = blocks[i]
  <2> HIDE DEF block, blocks, current
  <2> QED
    BY <1>4, VecChanged
<1> HIDE DEF after
<1>10. /\ IsBuilder(s) /\ s.current = current /\ s.finalized = finalized /\ s.ok = ok
       /\ s.blocks = after
  <2> HIDE DEF s, blocks, current, finalized, ok
  <2>1. \A y : [[blocks |-> blocks, current |-> current, finalized |-> finalized, ok |-> ok]
                  EXCEPT !.blocks = y]
                = [blocks |-> y, current |-> current, finalized |-> finalized, ok |-> ok]
    OBVIOUS
  <2>2. s = [blocks |-> after, current |-> current, finalized |-> finalized, ok |-> ok]
    BY <2>1, <1>2, <1>8
  <2> QED
    BY <2>2 DEF IsBuilder
<1>11. /\ block = [stmts |-> block.stmts, term |-> block.term]
       /\ block.stmts = more /\ block.term = term
  OBVIOUS
<1>12. IsBlock(block, n)
  <2>1. term.kind = "Goto" => term.targets[1] \in 1 .. n
    BY DEF IsBlock
  <2> HIDE DEF block, more, term
  <2> QED
    BY <2>1, <1>5, <1>11 DEF IsBlock
<1> HIDE DEF s, block, more, blocks, current, finalized, ok, stmts, term
<1>13. LET new == s.blocks[current]
       IN  /\ IsBuilder(s) /\ s.current = current /\ s.finalized = finalized /\ s.ok = ok
           /\ IsVec(s.blocks) /\ Len(s.blocks) = Len(blocks)
           /\ \A i \in 1 .. Len(blocks) : i # current => s.blocks[i] = blocks[i]
           /\ IsBlock(new, n) /\ new.term = term
           /\ Len(new.stmts) = Len(stmts) + 1
           /\ \A i \in 1 .. Len(stmts) : new.stmts[i] = stmts[i]
           /\ new.stmts[Len(stmts) + 1] = x
  BY <1>5, <1>9, <1>10, <1>11, <1>12
<1> QED
  BY <1>13 DEF s, blocks, current, finalized, ok, stmts, term, WritesInPlace, EmitsOne

LEMMA Terminated ==
  ASSUME NEW r, IsBuilder(r), IsVec(r.blocks), r.current \in 1 .. Len(r.blocks),
         r.current \notin r.finalized,
         NEW n, IsBlock(r.blocks[r.current], n),
         NEW term, term.kind = "Goto" => term.targets[1] \in 1 .. n
  PROVE  WritesInPlace(r, Terminate(r, term), n) /\ EndsBlock(r, Terminate(r, term), term)
<1> DEFINE blocks == r.blocks
           current == r.current
           finalized == r.finalized
           ok == r.ok
           stmts == blocks[current].stmts
           block == [stmts |-> stmts, term |-> term]
           after == [blocks EXCEPT ![current] = block]
           s == Terminate(r, term)
           done == finalized \cup {current}
<1>1. s = [r EXCEPT !.finalized = @ \cup {r.current}, !.blocks[r.current].term = term]
  BY DEF Terminate, IsTerminated
<1>2. r = [blocks |-> blocks, current |-> current, finalized |-> finalized, ok |-> ok]
  BY DEF IsBuilder
<1>3. \E t : blocks[current] = [stmts |-> stmts, term |-> t]
  BY DEF IsBlock
<1>4. IsVec(blocks) /\ current \in 1 .. Len(blocks) /\ IsVec(stmts)
  BY DEF IsBlock
<1>5. [r EXCEPT !.finalized = @ \cup {r.current}, !.blocks[r.current].term = term]
        = [[r EXCEPT !.finalized = done]
             EXCEPT !.blocks = [blocks EXCEPT ![current] = [blocks[current] EXCEPT !.term = term]]]
  <2> HIDE DEF blocks, current, finalized, ok
  <2>1. [r EXCEPT !.finalized = done].blocks = blocks
    BY <1>2
  <2>2. r.finalized = finalized /\ r.current = current
    BY DEF finalized, current
  <2> QED
    BY <2>1, <2>2
<1>6. [blocks[current] EXCEPT !.term = term] = block
  <2> HIDE DEF stmts
  <2>1. \A t : [[stmts |-> stmts, term |-> t] EXCEPT !.term = term] = [stmts |-> stmts, term |-> term]
    OBVIOUS
  <2> QED
    BY <2>1, <1>3
<1>7. s = [[r EXCEPT !.finalized = done] EXCEPT !.blocks = after]
  BY <1>1, <1>5, <1>6
<1>8. /\ IsVec(after) /\ Len(after) = Len(blocks)
      /\ after[current] = block
      /\ \A i \in 1 .. Len(blocks) : i # current => after[i] = blocks[i]
  <2> HIDE DEF block, blocks, current
  <2> QED
    BY <1>4, VecChanged
<1> HIDE DEF after
<1>9. /\ IsBuilder(s) /\ s.current = current /\ s.finalized = done /\ s.ok = ok
      /\ s.blocks = after
  <2> HIDE DEF s, blocks, current, finalized, ok, done
  <2>1. \A z : [[blocks |-> blocks, current |-> current, finalized |-> finalized, ok |-> ok]
                  EXCEPT !.finalized = z]
                = [blocks |-> blocks, current |-> current, finalized |-> z, ok |-> ok]
    OBVIOUS
  <2>2. \A y, z : [[blocks |-> blocks, current |-> current, finalized |-> z, ok |-> ok]
                     EXCEPT !.blocks = y]
                   = [blocks |-> y, current |-> current, finalized |-> z, ok |-> ok]
    OBVIOUS
  <2>3. [r EXCEPT !.finalized = done] = [blocks |-> blocks, current |-> current, finalized |-> done, ok |-> ok]
    BY <2>1, <1>2
  <2>4. s = [blocks |-> after, current |-> current, finalized |-> done, ok |-> ok]
    BY <2>2, <2>3, <1>7
  <2> QED
    BY <2>4 DEF IsBuilder
<1>10. /\ block = [stmts |-> block.stmts, term |-> block.term]
       /\ block.stmts = stmts /\ block.term = term
  OBVIOUS
<1>11. IsBlock(block, n)
  <2> HIDE DEF block, stmts
  <2> QED
    BY <1>4, <1>10 DEF IsBlock
<1> HIDE DEF s, block, blocks, current, finalized, ok, stmts
<1>12. LET new == s.blocks[current]
       IN  /\ IsBuilder(s) /\ s.current = current /\ s.ok = ok
           /\ s.finalized = done
           /\ IsVec(s.blocks) /\ Len(s.blocks) = Len(blocks)
           /\ \A i \in 1 .. Len(blocks) : i # current => s.blocks[i] = blocks[i]
           /\ IsBlock(new, n) /\ new.term = term /\ new.stmts = stmts
  BY <1>8, <1>9, <1>10, <1>11
<1> QED
  BY <1>12 DEF s, blocks, current, finalized, ok, stmts, done, WritesInPlace, EndsBlock

-----------------------------------------------------------------------------
\* What the copying actions start from.
LEMMA CopyingProps ==
  ASSUME IsBody(mir), CopyInv, Copying
  PROVE  /\ cursor.block \in Placed /\ cursor.block \in Old /\ cursor.block \in Reachable(mir.blocks)
         /\ cursor = At(cursor.block, cursor.line)
         /\ cursor.line \in 1 .. (Size(cursor.block) + 1)
         /\ Size(cursor.block) \in Nat
         /\ AtTerminator(mir.blocks, cursor) <=> cursor.line = Size(cursor.block) + 1
         /\ placed[cursor.block].block = b.current
         /\ placed[cursor.block].line \in Nat \ {0}
         /\ Len(b.blocks[b.current].stmts) \in Nat
         /\ Len(b.blocks[b.current].stmts) + 1 = placed[cursor.block].line + cursor.line - 1
         /\ b.current \notin b.finalized
         /\ b.current \in 1 .. Cardinality(heads)
         /\ Len(b.blocks) = Cardinality(heads)
         /\ \E h \in begun : b.current = CopyOf(heads, h)
         /\ \A h \in heads \ begun : CopyOf(heads, h) # b.current
         /\ IsBlock(b.blocks[b.current], Cardinality(heads))
         /\ IsBuilder(b) /\ b.ok /\ IsVec(b.blocks)
<1>1. GraphInv /\ LocalsInv /\ BuilderInv /\ FinishedInv /\ PlacedInv /\ CursorInv
  BY DEF CopyInv
<1>2. cursor # Nowhere
  BY DEF Copying
<1>3. /\ cursor = At(cursor.block, cursor.line)
      /\ cursor.block \in Placed
      /\ cursor.line \in 1 .. (Size(cursor.block) + 1)
      /\ placed[cursor.block].block = b.current
      /\ \E h \in begun : b.current = CopyOf(heads, h)
      /\ Len(b.blocks[b.current].stmts) + 1 = placed[cursor.block].line + cursor.line - 1
  BY <1>1, <1>2 DEF CursorInv
<1>4. cursor.block \in Old /\ cursor.block \in Reachable(mir.blocks) /\ placed[cursor.block].line \in Nat \ {0}
  BY <1>1, <1>3 DEF Placed, PlacedInv
<1>5. Size(cursor.block) \in Nat
  BY <1>4, MirProps
<1>6. AtTerminator(mir.blocks, cursor) <=> cursor.line = Size(cursor.block) + 1
  BY DEF AtTerminator, Size
<1>7. /\ IsBuilder(b) /\ b.ok /\ IsVec(b.blocks)
      /\ b.current \in 1 .. Cardinality(heads)
      /\ Len(b.blocks) = Cardinality(heads)
      /\ IsBlock(b.blocks[b.current], Cardinality(heads))
  BY <1>1 DEF BuilderInv
<1>8. Len(b.blocks[b.current].stmts) \in Nat /\ b.current \notin b.finalized
  BY <1>1, <1>2, <1>7, InvProps
<1>9. ASSUME NEW h \in heads \ begun PROVE CopyOf(heads, h) # b.current
  <2>1. PICK g \in begun : b.current = CopyOf(heads, g)
    BY <1>3
  <2>2. begun \subseteq heads
    BY <1>1 DEF FinishedInv
  <2>3. \A x, y \in heads : CopyOf(heads, x) = CopyOf(heads, y) => x = y
    BY <1>1, InvProps
  <2> QED
    BY <2>1, <2>2, <2>3
<1> QED
  BY <1>3, <1>4, <1>5, <1>6, <1>7, <1>8, <1>9

LEMMA CopyOneStmtKeeps ==
  ASSUME IsBody(mir), CopyInv, CopyOneStmt
  PROVE  CopyInv' /\ phase' = "copy"
<1>0. PICK i0, line0, cur : i0 = cursor.block /\ line0 = cursor.line /\ cur = b.current
  OBVIOUS
<1> DEFINE n == Cardinality(heads)
           stmt == mir.blocks[i0].stmts[line0]
           new == CopyStmt(local_map', stmt)
           len == Len(b.blocks[cur].stmts)
<1>1. Copying /\ phase = "copy" /\ ~ AtTerminator(mir.blocks, cursor)
  BY DEF CopyOneStmt, Copying
<1>2. /\ local_map' = WithLocals(local_map, stmt.locals)
      /\ b' = EmitAll(b, <<new>>)
      /\ cursor' = [cursor EXCEPT !.line = @ + 1]
      /\ phase' = IF b'.ok THEN phase ELSE "panicked"
      /\ mir' = mir /\ merge_next' = merge_next /\ heads' = heads /\ begun' = begun
      /\ placed' = placed
  BY <1>0 DEF CopyOneStmt, GoOn
<1>3. GraphInv /\ LocalsInv /\ BuilderInv /\ FinishedInv /\ PlacedInv /\ StmtsInv /\ EndsInv
  BY DEF CopyInv
<1>4. /\ i0 \in Placed /\ i0 \in Old
      /\ cursor = At(i0, line0)
      /\ line0 \in 1 .. Size(i0) /\ Size(i0) \in Nat
      /\ placed[i0].block = cur
      /\ placed[i0].line \in Nat \ {0}
      /\ len \in Nat
      /\ len + 1 = placed[i0].line + line0 - 1
      /\ cur \notin b.finalized
      /\ cur \in 1 .. n
      /\ \E h \in begun : cur = CopyOf(heads, h)
      /\ \A h \in heads \ begun : CopyOf(heads, h) # cur
  BY <1>0, <1>1, CopyingProps
<1>5. /\ IsBuilder(b') /\ b'.current = cur /\ b'.finalized = b.finalized /\ b'.ok
      /\ IsVec(b'.blocks) /\ Len(b'.blocks) = n
      /\ \A i \in 1 .. n : i # cur => b'.blocks[i] = b.blocks[i]
      /\ IsBlock(b'.blocks[cur], n)
      /\ Len(b'.blocks[cur].stmts) = len + 1
      /\ \A i \in 1 .. len : b'.blocks[cur].stmts[i] = b.blocks[cur].stmts[i]
      /\ b'.blocks[cur].stmts[len + 1] = new
  <2>1. /\ IsBuilder(b) /\ b.ok /\ IsVec(b.blocks) /\ cur \in 1 .. Len(b.blocks) /\ Len(b.blocks) = n
        /\ cur \notin b.finalized /\ IsBlock(b.blocks[cur], n)
    BY <1>0, <1>1, CopyingProps
  <2> HIDE DEF n, new
  <2>2. /\ IsBuilder(b) /\ IsVec(b.blocks) /\ b.current \in 1 .. Len(b.blocks)
        /\ b.current \notin b.finalized /\ IsBlock(b.blocks[b.current], n)
    BY <2>1, <1>0
  <2>3. WritesInPlace(b, EmitAll(b, <<new>>), n) /\ EmitsOne(b, EmitAll(b, <<new>>), new)
    BY <2>2, Emitted
  <2>4. WritesInPlace(b, b', n) /\ EmitsOne(b, b', new)
    BY <2>3, <1>2
  <2> QED
    BY <2>1, <2>4, <1>0 DEF WritesInPlace, EmitsOne, len
<1>6. phase' = "copy"
  BY <1>1, <1>2, <1>5
<1>7. Old' = Old /\ (\A i : Size(i)' = Size(i)) /\ GraphInv'
  BY <1>2, <1>3, SameGraph
<1>8. Placed' = Placed
  BY <1>2, <1>7 DEF Placed
<1>9. cursor' = At(i0, line0 + 1) /\ cursor'.block = i0 /\ cursor'.line = line0 + 1 /\ cursor' # Nowhere
  <2>1. cursor' = At(i0, line0 + 1)
    BY <1>0, <1>2, <1>4 DEF At
  <2>2. Nowhere.block = 0
    BY AtFields DEF Nowhere
  <2>3. cursor'.block = i0 /\ cursor'.line = line0 + 1
    BY <2>1, AtFields
  <2> QED
    BY <2>1, <2>2, <2>3, <1>4, MirProps
<1>10. /\ IsVec(local_map) /\ IsVec(local_map') /\ Extends(local_map', local_map)
       /\ IsInjective(local_map) /\ IsInjective(local_map') /\ IsVec(stmt.locals)
  <2>1. IsVec(stmt.locals) /\ IsVec(local_map) /\ IsInjective(local_map)
    BY <1>3, <1>4, MirProps DEF LocalsInv
  <2> HIDE DEF stmt
  <2> QED
    BY <2>1, <1>2, WithLocalsProps
<1>11. IsCopyOfStmt(local_map', stmt, new)
  <2> HIDE DEF stmt
  <2> QED
    BY <1>2, <1>10, StmtCopied
<1> HIDE DEF n, stmt, new, len
<1>12. LocalsInv'
  <2>1. IsVec(mir.params) /\ Extends(local_map, mir.params)
    BY <1>3, MirProps DEF LocalsInv
  <2>2. Extends(local_map', mir.params)
    BY <2>1, <1>10, ExtendsTransitive
  <2> QED
    BY <2>2, <1>2, <1>10 DEF LocalsInv
<1>13. BuilderInv'
  <2>1. \A k \in 1 .. n : IsBlock(b'.blocks[k], n)
    BY <1>3, <1>5 DEF BuilderInv, n
  <2> QED
    BY <2>1, <1>2, <1>4, <1>5 DEF BuilderInv, n
<1>14. FinishedInv'
  <2>1. b'.finalized = {CopyOf(heads, h) : h \in begun} \ {b'.current}
    BY <1>0, <1>1, <1>3, <1>5 DEF FinishedInv, Copying
  <2>2. ASSUME NEW h \in heads \ begun PROVE b'.blocks[CopyOf(heads, h)].stmts = <<>>
    <3>1. CopyOf(heads, h) \in 1 .. n
      BY <1>3, InvProps DEF n
    <3> QED
      BY <3>1, <1>3, <1>4, <1>5 DEF FinishedInv
  <2> QED
    BY <2>1, <2>2, <1>2, <1>3, <1>9 DEF FinishedInv
<1>15. PlacedInv'
  <2>1. cursor'.block = cursor.block
    BY <1>0, <1>9
  <2> QED
    BY <2>1, <1>2, <1>3, <1>7, <1>8 DEF PlacedInv
<1>16. CursorInv'
  <2>1. cursor'.line \in 1 .. (Size(i0)' + 1)
    BY <1>4, <1>7, <1>9
  <2>2. Len(b'.blocks[cur].stmts) + 1 = placed[i0].line + (line0 + 1) - 1
    <3>1. len \in Nat /\ len + 1 = placed[i0].line + line0 - 1 /\ placed[i0].line \in Nat /\ line0 \in Nat
      BY <1>4
    <3>2. Len(b'.blocks[cur].stmts) = len + 1
      BY <1>5
    <3> QED
      BY <3>1, <3>2
  <2>3. cursor' = At(cursor'.block, cursor'.line)
    BY <1>9
  <2>4. Len(b'.blocks[b'.current].stmts) + 1 = placed'[i0].line + cursor'.line - 1
    BY <2>2, <1>2, <1>5, <1>9
  <2> QED
    BY <2>1, <2>3, <2>4, <1>2, <1>4, <1>5, <1>8, <1>9 DEF CursorInv
<1>17. StmtsInv'
  <2> SUFFICES ASSUME NEW i \in Placed, NEW line \in 1 .. Upto(i)'
               PROVE  LET pos == At(placed[i].block, placed[i].line + line - 1)
                          stmts == b'.blocks[pos.block].stmts
                      IN  /\ pos.line \in 1 .. Len(stmts)
                          /\ IsCopyOfStmt(local_map', mir.blocks[i].stmts[line], stmts[pos.line])
    BY <1>2, <1>8 DEF StmtsInv, Image
  <2> DEFINE k == placed[i].block
             q == placed[i].line + line - 1
  <2>1. At(k, q).block = k /\ At(k, q).line = q
    BY AtFields
  <2>2. k \in 1 .. n
    BY <1>3 DEF PlacedInv, n
  <2>3. CASE i = i0 /\ line = line0
    <3>1. k = cur /\ q = len + 1
      BY <2>3, <1>4
    <3> HIDE DEF k, q
    <3> QED
      BY <2>1, <2>3, <3>1, <1>4, <1>5, <1>11 DEF stmt
  <2>4. CASE ~ (i = i0 /\ line = line0)
    <3>1. line \in 1 .. Upto(i)
      <4>1. CASE i = i0
        <5>1. Upto(i)' = line0 /\ Upto(i) = line0 - 1
          BY <4>1, <1>4, <1>0, <1>9 DEF Upto
        <5> QED
          BY <5>1, <4>1, <2>4, <1>4
      <4>2. CASE i # i0
        <5>1. Upto(i)' = Size(i) /\ Upto(i) = Size(i)
          BY <4>2, <1>0, <1>7, <1>9 DEF Upto
        <5> QED
          BY <5>1
      <4> QED
        BY <4>1, <4>2
    <3>2. /\ q \in 1 .. Len(b.blocks[k].stmts)
          /\ IsCopyOfStmt(local_map, mir.blocks[i].stmts[line], b.blocks[k].stmts[q])
      BY <3>1, <2>1, <1>3 DEF StmtsInv, Image
    <3> HIDE DEF k, q
    <3>3. IsCopyOfStmt(local_map', mir.blocks[i].stmts[line], b.blocks[k].stmts[q])
      BY <3>2, <1>10, StmtKept
    <3>4. q \in 1 .. Len(b'.blocks[k].stmts) /\ b'.blocks[k].stmts[q] = b.blocks[k].stmts[q]
      <4>1. CASE k = cur
        <5>1. len = Len(b.blocks[k].stmts)
          BY <4>1 DEF len
        <5>2. q \in 1 .. len
          BY <5>1, <3>2
        <5>3. q \in 1 .. (len + 1)
          BY <5>2, <1>4
        <5> QED
          BY <4>1, <5>2, <5>3, <1>5
      <4>2. CASE k # cur
        BY <4>2, <2>2, <3>2, <1>5
      <4> QED
        BY <4>1, <4>2
    <3> QED
      BY <2>1, <3>3, <3>4 DEF k, q
  <2> QED
    BY <2>3, <2>4
<1>18. EndsInv'
  <2> SUFFICES ASSUME NEW i \in Placed \ {i0}
               PROVE  LET pos == At(placed[i].block, placed[i].line + (Size(i) + 1) - 1)
                          block == b'.blocks[pos.block]
                      IN  IF i \in DOMAIN merge_next THEN placed[merge_next[i]] = pos
                          ELSE /\ pos.block \in b.finalized
                               /\ pos.line = Len(block.stmts) + 1
                               /\ IsCopyOfTerm(local_map', heads, mir.blocks[i].term, block.term)
    BY <1>2, <1>5, <1>7, <1>8, <1>9 DEF EndsInv, Image
  <2> DEFINE pos == At(placed[i].block, placed[i].line + (Size(i) + 1) - 1)
  <2>1. IF i \in DOMAIN merge_next THEN placed[merge_next[i]] = pos
        ELSE /\ pos.block \in b.finalized
             /\ pos.line = Len(b.blocks[pos.block].stmts) + 1
             /\ IsCopyOfTerm(local_map, heads, mir.blocks[i].term, b.blocks[pos.block].term)
    BY <1>0, <1>3 DEF EndsInv, Image
  <2>2. pos.block \in 1 .. n
    BY <1>3, AtFields DEF PlacedInv, n
  <2> HIDE DEF pos
  <2>3. pos.block \in b.finalized => b'.blocks[pos.block] = b.blocks[pos.block]
    BY <2>2, <1>4, <1>5
  <2>4. \A x, y : IsCopyOfTerm(local_map, heads, x, y) => IsCopyOfTerm(local_map', heads, x, y)
    BY <1>10, TermKept
  <2> QED
    BY <2>1, <2>3, <2>4 DEF pos
<1> QED
  BY <1>6, <1>7, <1>12, <1>13, <1>14, <1>15, <1>16, <1>17, <1>18 DEF CopyInv

LEMMA NextOfPathKeeps ==
  ASSUME IsBody(mir), CopyInv, NextOfPath
  PROVE  CopyInv' /\ phase' = "copy"
<1>0. PICK i0, line0, cur, next :
        i0 = cursor.block /\ line0 = cursor.line /\ cur = b.current /\ next = merge_next[i0]
  OBVIOUS
<1> DEFINE n == Cardinality(heads)
           len == Len(b.blocks[cur].stmts)
<1>1. Copying /\ phase = "copy" /\ AtTerminator(mir.blocks, cursor) /\ i0 \in DOMAIN merge_next
  BY <1>0 DEF NextOfPath, Copying
<1>2. /\ cursor' = At(next, 1)
      /\ placed' = [placed EXCEPT ![next] = At(cur, len + 1)]
      /\ phase' = phase /\ b' = b /\ local_map' = local_map
      /\ mir' = mir /\ merge_next' = merge_next /\ heads' = heads /\ begun' = begun
  BY <1>0 DEF NextOfPath
<1>3. GraphInv /\ LocalsInv /\ BuilderInv /\ FinishedInv /\ PlacedInv /\ StmtsInv /\ EndsInv
  BY DEF CopyInv
<1>4. /\ i0 \in Placed /\ i0 \in Old
      /\ line0 = Size(i0) + 1 /\ Size(i0) \in Nat
      /\ placed[i0].block = cur
      /\ placed[i0].line \in Nat \ {0}
      /\ len \in Nat
      /\ len + 1 = placed[i0].line + (Size(i0) + 1) - 1
      /\ cur \in 1 .. n
      /\ \E h \in begun : cur = CopyOf(heads, h)
  BY <1>0, <1>1, CopyingProps
<1>5. /\ next \in Reachable(mir.blocks) /\ next \in Old /\ next \notin heads
      /\ \A j \in DOMAIN merge_next : merge_next[j] = next => j = i0
  BY <1>0, <1>1, <1>3, InvProps
<1>6. next \notin Placed
  BY <1>0, <1>1, <1>3 DEF PlacedInv
<1> HIDE DEF n, len
<1>7. Old' = Old /\ (\A i : Size(i)' = Size(i)) /\ GraphInv'
  BY <1>2, <1>3, SameGraph
<1>8. cursor'.block = next /\ cursor'.line = 1 /\ cursor' # Nowhere /\ cursor # Nowhere
  <2>1. Nowhere.block = 0
    BY AtFields DEF Nowhere
  <2> QED
    BY <2>1, <1>1, <1>2, <1>5, AtFields, MirProps DEF Copying
<1>9. placed'[next] = At(cur, len + 1) /\ placed'[next] # Nowhere /\ \A i \in Old \ {next} : placed'[i] = placed[i]
  <2>1. DOMAIN placed = Old
    BY <1>3 DEF PlacedInv
  <2>2. At(cur, len + 1).line = len + 1 /\ Nowhere.line = 0
    BY AtFields DEF Nowhere
  <2> QED
    BY <2>1, <2>2, <1>2, <1>4, <1>5
<1>10. Placed' = Placed \cup {next}
  BY <1>5, <1>7, <1>9 DEF Placed
<1>11. LocalsInv' /\ BuilderInv'
  BY <1>2, <1>3 DEF LocalsInv, BuilderInv
<1>12. FinishedInv'
  BY <1>2, <1>3, <1>8 DEF FinishedInv
<1>13. PlacedInv'
  <2>1. DOMAIN placed' = Old
    BY <1>2, <1>3 DEF PlacedInv
  <2>2. ASSUME NEW i \in Placed'
        PROVE  /\ i \in Reachable(mir.blocks)
               /\ placed'[i].block \in 1 .. n
               /\ placed'[i].line \in Nat \ {0}
    <3>1. CASE i = next
      BY <3>1, <1>4, <1>5, <1>9, AtFields
    <3>2. CASE i # next
      BY <3>2, <1>3, <1>9, <1>10 DEF PlacedInv, Placed, n
    <3> QED
      BY <3>1, <3>2
  <2>3. Placed' \cap heads = begun
    BY <1>3, <1>5, <1>10 DEF PlacedInv
  <2>4. ASSUME NEW h \in begun PROVE placed'[h] = At(CopyOf(heads, h), 1)
    <3>1. h \in Placed /\ h \in Old
      BY <1>3 DEF PlacedInv, Placed
    <3> QED
      BY <3>1, <1>3, <1>6, <1>9 DEF PlacedInv
  <2>5. ASSUME NEW i \in DOMAIN merge_next, merge_next[i] \in Placed'
        PROVE  i \in Placed' /\ i # cursor'.block
    <3>1. CASE merge_next[i] = next
      BY <3>1, <1>4, <1>5, <1>6, <1>8, <1>10
    <3>2. CASE merge_next[i] # next
      <4>1. i \in Placed
        BY <3>2, <2>5, <1>3, <1>10 DEF PlacedInv
      <4> QED
        BY <4>1, <1>6, <1>8, <1>10
    <3> QED
      BY <3>1, <3>2
  <2> QED
    BY <2>1, <2>2, <2>3, <2>4, <2>5, <1>2, <1>7 DEF PlacedInv, n
<1>14. CursorInv'
  <2>1. Size(next) \in Nat
    BY <1>5, MirProps
  <2>2. placed'[next].block = cur /\ placed'[next].line = len + 1
    BY <1>9, AtFields
  <2>3. cursor'.line \in 1 .. (Size(next)' + 1)
    BY <2>1, <1>7, <1>8
  <2>4. Len(b'.blocks[b'.current].stmts) + 1 = placed'[next].line + cursor'.line - 1
    BY <2>2, <1>0, <1>2, <1>4, <1>8 DEF len
  <2>5. cursor' = At(cursor'.block, cursor'.line)
    BY <1>2, <1>8
  <2>6. \E h \in begun' : b'.current = CopyOf(heads', h)
    BY <1>0, <1>2, <1>4
  <2>7. placed'[next].block = b'.current
    BY <2>2, <1>0, <1>2
  <2> QED
    BY <2>3, <2>4, <2>5, <2>6, <2>7, <1>8, <1>10 DEF CursorInv
<1>15. StmtsInv'
  <2> SUFFICES ASSUME NEW i \in Placed', NEW line \in 1 .. Upto(i)'
               PROVE  LET pos == At(placed'[i].block, placed'[i].line + line - 1)
                          stmts == b.blocks[pos.block].stmts
                      IN  /\ pos.line \in 1 .. Len(stmts)
                          /\ IsCopyOfStmt(local_map, mir.blocks[i].stmts[line], stmts[pos.line])
    BY <1>2 DEF StmtsInv, Image
  <2>1. i # next
    <3>1. ASSUME i = next PROVE FALSE
      <4>1. Upto(i)' = 0
        BY <3>1, <1>8 DEF Upto
      <4> QED
        BY <4>1
    <3> QED
      BY <3>1
  <2>2. i \in Placed /\ i \in Old
    BY <2>1, <1>10 DEF Placed
  <2>3. Upto(i)' = Size(i)
    BY <2>1, <1>7, <1>8 DEF Upto
  <2>4. Upto(i) = Size(i)
    <3>1. CASE i = i0
      BY <3>1, <1>0, <1>4 DEF Upto
    <3>2. CASE i # i0
      BY <3>2, <1>0 DEF Upto
    <3> QED
      BY <3>1, <3>2
  <2>5. placed'[i] = placed[i]
    BY <2>1, <2>2, <1>9
  <2> QED
    BY <2>2, <2>3, <2>4, <2>5, <1>3 DEF StmtsInv, Image
<1>16. EndsInv'
  <2> SUFFICES ASSUME NEW i \in Placed' \ {next}
               PROVE  LET pos == At(placed'[i].block, placed'[i].line + (Size(i) + 1) - 1)
                          block == b.blocks[pos.block]
                      IN  IF i \in DOMAIN merge_next THEN placed'[merge_next[i]] = pos
                          ELSE /\ pos.block \in b.finalized
                               /\ pos.line = Len(block.stmts) + 1
                               /\ IsCopyOfTerm(local_map, heads, mir.blocks[i].term, block.term)
    BY <1>2, <1>7, <1>8 DEF EndsInv, Image
  <2>1. i \in Placed /\ placed'[i] = placed[i]
    BY <1>9, <1>10 DEF Placed
  <2>2. CASE i = i0
    BY <2>1, <2>2, <1>0, <1>1, <1>4, <1>9
  <2>3. CASE i # i0
    <3>1. i \in DOMAIN merge_next => placed'[merge_next[i]] = placed[merge_next[i]]
      <4>1. i \in DOMAIN merge_next => merge_next[i] # next /\ merge_next[i] \in Old
        BY <2>3, <1>3, <1>5, InvProps
      <4> QED
        BY <4>1, <1>9
    <3> QED
      BY <2>1, <2>3, <3>1, <1>0, <1>3 DEF EndsInv, Image
  <2> QED
    BY <2>2, <2>3
<1> QED
  BY <1>1, <1>2, <1>7, <1>11, <1>12, <1>13, <1>14, <1>15, <1>16 DEF CopyInv

LEMMA EndPathKeeps ==
  ASSUME IsBody(mir), CopyInv, EndPath
  PROVE  CopyInv' /\ phase' = "copy"
<1>0. PICK i0, cur : i0 = cursor.block /\ cur = b.current
  OBVIOUS
<1> DEFINE n == Cardinality(heads)
           term == mir.blocks[i0].term
           new == CopyTerminator(local_map', heads, term)
           len == Len(b.blocks[cur].stmts)
<1>1. Copying /\ phase = "copy" /\ AtTerminator(mir.blocks, cursor) /\ i0 \notin DOMAIN merge_next
  BY <1>0 DEF EndPath, Copying
<1>2. /\ local_map' = WithLocals(local_map, term.locals)
      /\ b' = IF ToSet(term.targets) \subseteq heads THEN Terminate(b, new) ELSE Panicked(b)
      /\ cursor' = Nowhere
      /\ phase' = IF b'.ok THEN phase ELSE "panicked"
      /\ mir' = mir /\ merge_next' = merge_next /\ heads' = heads /\ begun' = begun
      /\ placed' = placed
  BY <1>0 DEF EndPath, GoOn
<1>3. GraphInv /\ LocalsInv /\ BuilderInv /\ FinishedInv /\ PlacedInv /\ StmtsInv /\ EndsInv
  BY DEF CopyInv
<1>4. /\ i0 \in Placed /\ i0 \in Old /\ i0 \in Reachable(mir.blocks)
      /\ Size(i0) \in Nat
      /\ cursor.line = Size(i0) + 1
      /\ placed[i0].block = cur
      /\ placed[i0].line \in Nat \ {0}
      /\ len \in Nat
      /\ len + 1 = placed[i0].line + (Size(i0) + 1) - 1
      /\ cur \notin b.finalized
      /\ cur \in 1 .. n
      /\ \E h \in begun : cur = CopyOf(heads, h)
      /\ \A h \in heads \ begun : CopyOf(heads, h) # cur
  BY <1>0, <1>1, CopyingProps
<1>5. IsVec(term.locals) /\ IsVec(term.targets) /\ (term.kind = "Goto" => Len(term.targets) = 1)
  BY <1>4, MirProps
<1>6. ToSet(term.targets) \subseteq heads
  <2>1. Targets(mir.blocks, i0) \subseteq heads
    BY <1>1, <1>3, <1>4, MirProps, HeadsProps DEF GraphInv
  <2> QED
    BY <2>1 DEF Targets
<1>7. /\ IsVec(local_map) /\ IsVec(local_map') /\ Extends(local_map', local_map)
      /\ IsInjective(local_map) /\ IsInjective(local_map')
  <2>1. IsVec(local_map) /\ IsInjective(local_map)
    BY <1>3 DEF LocalsInv
  <2> HIDE DEF term
  <2> QED
    BY <2>1, <1>2, <1>5, WithLocalsProps
<1>8. IsCopyOfTerm(local_map', heads, term, new)
  <2> HIDE DEF term
  <2> QED
    BY <1>2, <1>5, <1>7, TermCopied
<1>9. new.kind = "Goto" => new.targets[1] \in 1 .. n
  <2> SUFFICES ASSUME new.kind = "Goto" PROVE new.targets[1] \in 1 .. n
    OBVIOUS
  <2> HIDE DEF new, term
  <2>1. term.kind = "Goto" /\ Len(term.targets) = 1
    BY <1>5, <1>8 DEF IsCopyOfTerm
  <2>2. term.targets[1] \in heads /\ new.targets[1] = CopyOf(heads, term.targets[1])
    BY <2>1, <1>5, <1>6, <1>8, VecProps DEF IsCopyOfTerm
  <2> QED
    BY <2>2, <1>3, InvProps
<1>10. /\ IsBuilder(b') /\ b'.current = cur /\ b'.finalized = b.finalized \cup {cur} /\ b'.ok
       /\ IsVec(b'.blocks) /\ Len(b'.blocks) = n
       /\ \A i \in 1 .. n : i # cur => b'.blocks[i] = b.blocks[i]
       /\ IsBlock(b'.blocks[cur], n)
       /\ b'.blocks[cur].term = new
       /\ b'.blocks[cur].stmts = b.blocks[cur].stmts
  <2>1. /\ IsBuilder(b) /\ b.ok /\ IsVec(b.blocks) /\ b.current \in 1 .. Len(b.blocks) /\ Len(b.blocks) = n
        /\ b.current \notin b.finalized /\ IsBlock(b.blocks[b.current], n)
    BY <1>1, CopyingProps
  <2> HIDE DEF n, new
  <2>2. WritesInPlace(b, Terminate(b, new), n) /\ EndsBlock(b, Terminate(b, new), new)
    BY <2>1, <1>9, Terminated
  <2>3. WritesInPlace(b, b', n) /\ EndsBlock(b, b', new)
    BY <2>2, <1>2, <1>6
  <2> QED
    BY <2>1, <2>3, <1>0 DEF WritesInPlace, EndsBlock
<1>11. phase' = "copy"
  BY <1>1, <1>2, <1>10
<1>12. Old' = Old /\ (\A i : Size(i)' = Size(i)) /\ GraphInv'
  BY <1>2, <1>3, SameGraph
<1>13. Placed' = Placed
  BY <1>2, <1>12 DEF Placed
<1>14. cursor # Nowhere /\ cursor'.block = 0 /\ \A i \in Old : i # cursor'.block
  BY <1>1, <1>2, AtFields, MirProps DEF Nowhere, Copying
<1> HIDE DEF n, term, new, len
<1>15. LocalsInv'
  <2>1. IsVec(mir.params) /\ Extends(local_map, mir.params)
    BY <1>3, MirProps DEF LocalsInv
  <2>2. Extends(local_map', mir.params)
    BY <2>1, <1>7, ExtendsTransitive
  <2> QED
    BY <2>2, <1>2, <1>7 DEF LocalsInv
<1>16. BuilderInv'
  <2>1. \A k \in 1 .. n : IsBlock(b'.blocks[k], n)
    BY <1>3, <1>10 DEF BuilderInv, n
  <2> QED
    BY <2>1, <1>2, <1>4, <1>10 DEF BuilderInv, n
<1>17. FinishedInv'
  <2>1. b'.finalized = {CopyOf(heads, h) : h \in begun}
    <3>1. b.finalized = {CopyOf(heads, h) : h \in begun} \ {cur}
      BY <1>0, <1>3, <1>14 DEF FinishedInv
    <3>2. cur \in {CopyOf(heads, h) : h \in begun}
      BY <1>4
    <3> QED
      BY <3>1, <3>2, <1>10
  <2>2. ASSUME NEW h \in heads \ begun PROVE b'.blocks[CopyOf(heads, h)].stmts = <<>>
    <3>1. CopyOf(heads, h) \in 1 .. n
      BY <1>3, InvProps DEF n
    <3> QED
      BY <3>1, <1>3, <1>4, <1>10 DEF FinishedInv
  <2> QED
    BY <2>1, <2>2, <1>2, <1>3 DEF FinishedInv
<1>18. PlacedInv'
  <2>1. \A i \in DOMAIN merge_next : merge_next[i] \in Placed => i \in Placed /\ i # cursor'.block
    BY <1>3, <1>14 DEF PlacedInv, Placed
  <2> QED
    BY <2>1, <1>2, <1>3, <1>12, <1>13 DEF PlacedInv
<1>19. CursorInv'
  BY <1>2 DEF CursorInv
<1>20. StmtsInv'
  <2> SUFFICES ASSUME NEW i \in Placed, NEW line \in 1 .. Upto(i)'
               PROVE  LET pos == At(placed[i].block, placed[i].line + line - 1)
                          stmts == b'.blocks[pos.block].stmts
                      IN  /\ pos.line \in 1 .. Len(stmts)
                          /\ IsCopyOfStmt(local_map', mir.blocks[i].stmts[line], stmts[pos.line])
    BY <1>2, <1>13 DEF StmtsInv, Image
  <2> DEFINE k == placed[i].block
             q == placed[i].line + line - 1
  <2>1. At(k, q).block = k /\ At(k, q).line = q
    BY AtFields
  <2>2. k \in 1 .. n
    BY <1>3 DEF PlacedInv, n
  <2>3. Upto(i)' = Size(i)
    BY <1>12, <1>14 DEF Upto, Placed
  <2>4. Upto(i) = Size(i)
    <3>1. CASE i = i0
      BY <3>1, <1>0, <1>4 DEF Upto
    <3>2. CASE i # i0
      BY <3>2, <1>0 DEF Upto
    <3> QED
      BY <3>1, <3>2
  <2>5. /\ q \in 1 .. Len(b.blocks[k].stmts)
        /\ IsCopyOfStmt(local_map, mir.blocks[i].stmts[line], b.blocks[k].stmts[q])
    BY <2>1, <2>3, <2>4, <1>3 DEF StmtsInv, Image
  <2> HIDE DEF k, q
  <2>6. IsCopyOfStmt(local_map', mir.blocks[i].stmts[line], b.blocks[k].stmts[q])
    BY <2>5, <1>7, StmtKept
  <2>7. b'.blocks[k].stmts = b.blocks[k].stmts
    BY <2>2, <1>10
  <2> QED
    BY <2>1, <2>5, <2>6, <2>7 DEF k, q
<1>21. EndsInv'
  <2> SUFFICES ASSUME NEW i \in Placed
               PROVE  LET pos == At(placed[i].block, placed[i].line + (Size(i) + 1) - 1)
                          block == b'.blocks[pos.block]
                      IN  IF i \in DOMAIN merge_next THEN placed[merge_next[i]] = pos
                          ELSE /\ pos.block \in b'.finalized
                               /\ pos.line = Len(block.stmts) + 1
                               /\ IsCopyOfTerm(local_map', heads, mir.blocks[i].term, block.term)
    BY <1>2, <1>12, <1>13 DEF EndsInv, Image
  <2> DEFINE pos == At(placed[i].block, placed[i].line + (Size(i) + 1) - 1)
  <2>1. pos.block = placed[i].block /\ pos.line = placed[i].line + (Size(i) + 1) - 1
    BY AtFields
  <2>2. pos.block \in 1 .. n
    BY <2>1, <1>3 DEF PlacedInv, n
  <2>3. CASE i = i0
    <3>1. pos.block = cur /\ pos.line = len + 1
      BY <2>1, <2>3, <1>4
    <3> HIDE DEF pos
    <3>2. IsCopyOfTerm(local_map', heads, mir.blocks[i].term, b'.blocks[cur].term)
      BY <2>3, <1>8, <1>10 DEF term
    <3>3. pos.line = Len(b'.blocks[cur].stmts) + 1
      BY <3>1, <1>10 DEF len
    <3> QED
      BY <2>3, <3>1, <3>2, <3>3, <1>1, <1>10 DEF pos
  <2>4. CASE i # i0
    <3>1. IF i \in DOMAIN merge_next THEN placed[merge_next[i]] = pos
          ELSE /\ pos.block \in b.finalized
               /\ pos.line = Len(b.blocks[pos.block].stmts) + 1
               /\ IsCopyOfTerm(local_map, heads, mir.blocks[i].term, b.blocks[pos.block].term)
      BY <2>4, <1>0, <1>3 DEF EndsInv, Image
    <3> HIDE DEF pos
    <3>2. pos.block \in b.finalized => b'.blocks[pos.block] = b.blocks[pos.block] /\ pos.block \in b'.finalized
      BY <2>2, <1>4, <1>10
    <3>3. \A x, y : IsCopyOfTerm(local_map, heads, x, y) => IsCopyOfTerm(local_map', heads, x, y)
      BY <1>7, TermKept
    <3> QED
      BY <3>1, <3>2, <3>3 DEF pos
  <2> QED
    BY <2>3, <2>4
<1> QED
  BY <1>11, <1>12, <1>15, <1>16, <1>17, <1>18, <1>19, <1>20, <1>21 DEF CopyInv

-----------------------------------------------------------------------------
\* When the paths are copied.
Done == CopyInv /\ cursor = Nowhere /\ begun = heads

\* A jump that merges nothing goes to a head, and a copied goto to a block.
LEMMA AllPlaced ==
  ASSUME IsBody(mir), Done
  PROVE  Placed = Reachable(mir.blocks)
<1>1. /\ GraphInv /\ BuilderInv /\ FinishedInv /\ PlacedInv /\ EndsInv
      /\ cursor = Nowhere /\ begun = heads
  BY DEF Done, CopyInv
<1>2. IsWellFormed(mir.blocks) /\ merge_next = MergeNext(mir.blocks) /\ heads = HeadsOf(mir.blocks)
  BY <1>1, MirProps DEF GraphInv
<1>3. Placed \subseteq Reachable(mir.blocks) /\ heads \subseteq Placed
  BY <1>1 DEF PlacedInv
<1>4. EntryBlock \in Placed
  BY <1>1, <1>3, InvProps
<1>5. ASSUME NEW i \in Placed, NEW t \in Targets(mir.blocks, i) PROVE t \in Placed
  <2>1. t \in Reachable(mir.blocks) /\ t \in Old /\ i \in Old
    BY <1>2, <1>3, ReachableProps DEF Old
  <2>2. CASE t \in heads
    BY <2>2, <1>3
  <2>3. CASE t \notin heads
    <3>1. PICK j \in DOMAIN merge_next : merge_next[j] = t
      BY <2>1, <2>3, <1>2, HeadsProps
    <3>2. i = j
      BY <3>1, <1>2, <1>3, MergeProps
    <3>3. i # cursor.block
      BY <2>1, <1>1, AtFields, MirProps DEF Nowhere
    <3>4. placed[t] = Image(i, Size(i) + 1)
      BY <3>1, <3>2, <3>3, <1>1 DEF EndsInv
    <3>5. placed[t].line = placed[i].line + (Size(i) + 1) - 1
      BY <3>4, AtFields DEF Image
    <3>6. placed[i].line \in Nat \ {0} /\ Size(i) \in Nat
      BY <2>1, <1>1, MirProps DEF PlacedInv
    <3>7. placed[t].line # 0 /\ Nowhere.line = 0
      BY <3>5, <3>6, AtFields DEF Nowhere
    <3> QED
      BY <3>7, <2>1 DEF Placed
  <2> QED
    BY <2>2, <2>3
<1>6. Reachable(mir.blocks) \subseteq Placed
  <2> DEFINE S == Placed
  <2>1. EntryBlock \in S /\ \A i \in S \cap DOMAIN mir.blocks : Targets(mir.blocks, i) \subseteq S
    BY <1>4, <1>5
  <2> HIDE DEF S
  <2>2. Reachable(mir.blocks) \subseteq S
    BY <2>1, <1>2, ReachableLeast
  <2> QED
    BY <2>2 DEF S
<1> QED
  BY <1>3, <1>6

\* Where a reachable block is in the finished copy.
IsCopied(i) ==
  LET k == placed[i].block
      end == placed[i].line + Size(i)
      stmts == b.blocks[k].stmts
  IN  /\ i \in Old /\ i # 0 /\ Size(i) \in Nat
      /\ k \in DOMAIN b.blocks
      /\ Len(stmts) \in Nat
      /\ placed[i].line \in Nat \ {0}
      /\ \A line \in 1 .. Size(i) :
           LET at == placed[i].line + line - 1
           IN  at \in 1 .. Len(stmts) /\ IsCopyOfStmt(local_map, mir.blocks[i].stmts[line], stmts[at])
      /\ IF i \in DOMAIN merge_next
         THEN placed[merge_next[i]] = At(k, end)
         ELSE /\ end = Len(stmts) + 1
              /\ IsCopyOfTerm(local_map, heads, mir.blocks[i].term, b.blocks[k].term)
              /\ Targets(mir.blocks, i) \subseteq heads

LEMMA AllCopied ==
  ASSUME IsBody(mir), Done, NEW i \in Reachable(mir.blocks)
  PROVE  IsCopied(i)
<1>1. /\ GraphInv /\ BuilderInv /\ FinishedInv /\ PlacedInv /\ EndsInv /\ StmtsInv
      /\ cursor = Nowhere /\ begun = heads
  BY DEF Done, CopyInv
<1>2. i \in Placed
  BY AllPlaced
<1> DEFINE k == placed[i].block
           l == placed[i].line
           n == Size(i)
<1>3. /\ i \in Old /\ n \in Nat /\ i # 0
      /\ k \in DOMAIN b.blocks /\ Len(b.blocks[k].stmts) \in Nat
      /\ l \in Nat \ {0}
  <2>1. i \in Old /\ k \in 1 .. Cardinality(heads) /\ l \in Nat \ {0}
    BY <1>1, <1>2 DEF PlacedInv, Placed
  <2> HIDE DEF k, l
  <2> QED
    BY <2>1, <1>1, InvProps, MirProps
<1>4. i # cursor.block
  BY <1>1, <1>3, AtFields DEF Nowhere
<1>5. ASSUME NEW line \in 1 .. n
      PROVE  /\ l + line - 1 \in 1 .. Len(b.blocks[k].stmts)
             /\ IsCopyOfStmt(local_map, mir.blocks[i].stmts[line], b.blocks[k].stmts[l + line - 1])
  <2> DEFINE at == l + line - 1
  <2>1. line \in 1 .. Upto(i)
    BY <1>4 DEF Upto
  <2>2. At(k, at).block = k /\ At(k, at).line = at
    BY AtFields
  <2>3. LET pos == At(k, at)
            stmts == b.blocks[pos.block].stmts
        IN  /\ pos.line \in 1 .. Len(stmts)
            /\ IsCopyOfStmt(local_map, mir.blocks[i].stmts[line], stmts[pos.line])
    BY <2>1, <1>1, <1>2 DEF StmtsInv, Image
  <2> HIDE DEF k, l
  <2> QED
    BY <2>2, <2>3
<1>6. LET pos == At(k, l + (n + 1) - 1)
      IN  IF i \in DOMAIN merge_next THEN placed[merge_next[i]] = pos
          ELSE /\ pos.line = Len(b.blocks[pos.block].stmts) + 1
               /\ IsCopyOfTerm(local_map, heads, mir.blocks[i].term, b.blocks[pos.block].term)
  BY <1>1, <1>2, <1>4 DEF EndsInv, Image
<1>7. l + (n + 1) - 1 = l + n
  BY <1>3
<1>8. i \notin DOMAIN merge_next => Targets(mir.blocks, i) \subseteq heads
  BY <1>1, MirProps, HeadsProps DEF GraphInv
<1>9. IF i \in DOMAIN merge_next THEN placed[merge_next[i]] = At(k, l + n)
      ELSE /\ l + n = Len(b.blocks[k].stmts) + 1
           /\ IsCopyOfTerm(local_map, heads, mir.blocks[i].term, b.blocks[k].term)
  <2> HIDE DEF k, l, n
  <2> QED
    BY <1>6, <1>7, AtFields
<1> HIDE DEF k, l, n
<1> QED
  BY <1>3, <1>5, <1>8, <1>9 DEF IsCopied, k, l, n

LEMMA BothClosed ==
  ASSUME IsBody(mir), Done
  PROVE  Closed(mir.blocks) /\ Closed(b.blocks)
<1>1. GraphInv /\ BuilderInv /\ FinishedInv
  BY DEF Done, CopyInv
<1>2. Closed(mir.blocks)
  <2>1. ASSUME NEW i \in DOMAIN mir.blocks
        PROVE  /\ Len(mir.blocks[i].stmts) \in Nat
               /\ mir.blocks[i].term.kind = "Goto" => mir.blocks[i].term.targets[1] \in DOMAIN mir.blocks
    <3>1. Len(mir.blocks[i].stmts) \in Nat
      BY MirProps DEF Old, Size
    <3>2. ASSUME mir.blocks[i].term.kind = "Goto" PROVE mir.blocks[i].term.targets[1] \in DOMAIN mir.blocks
      <4>1. /\ Len(mir.blocks[i].term.targets) = 1
            /\ Targets(mir.blocks, i) = {mir.blocks[i].term.targets[j] : j \in 1 .. Len(mir.blocks[i].term.targets)}
        BY <3>2, MirProps DEF Old
      <4>2. mir.blocks[i].term.targets[1] \in Targets(mir.blocks, i)
        BY <4>1
      <4> QED
        BY <4>2, MirProps, BlocksProps
    <3> QED
      BY <3>1, <3>2
  <2> QED
    BY <2>1, ClosedWhen
<1>3. Closed(b.blocks)
  <2>1. DOMAIN b.blocks = 1 .. Cardinality(heads)
    BY <1>1, InvProps
  <2>2. ASSUME NEW k \in DOMAIN b.blocks
        PROVE  /\ Len(b.blocks[k].stmts) \in Nat
               /\ b.blocks[k].term.kind = "Goto" => b.blocks[k].term.targets[1] \in DOMAIN b.blocks
    BY <2>1, <1>1, InvProps DEF BuilderInv, IsBlock
  <2> QED
    BY <2>2, ClosedWhen
<1> QED
  BY <1>2, <1>3

LEMMA DoneCanFinalize ==
  ASSUME IsBody(mir), Done
  PROVE  CanFinalize(b)
<1>1. GraphInv /\ BuilderInv /\ FinishedInv /\ cursor = Nowhere /\ begun = heads
  BY DEF Done, CopyInv
<1>2. b.finalized = {CopyOf(heads, h) : h \in heads}
  BY <1>1 DEF FinishedInv
<1>3. /\ DOMAIN b.blocks = 1 .. Cardinality(heads)
      /\ \A h \in heads : CopyOf(heads, h) \in 1 .. Cardinality(heads)
      /\ \A k \in 1 .. Cardinality(heads) : \E h \in heads : CopyOf(heads, h) = k
  BY <1>1, InvProps
<1> QED
  BY <1>2, <1>3 DEF CanFinalize

-----------------------------------------------------------------------------
\* The body and its copy settle in step.
InStepAt(i, line) ==
  InStep(Settle(mir.blocks, At(i, line)), Settle(b.blocks, Image(i, line)))

LEMMA ImageFields ==
  ASSUME NEW i, NEW line
  PROVE  Image(i, line).block = placed[i].block /\ Image(i, line).line = placed[i].line + line - 1
BY AtFields DEF Image

\* A head is copied to the beginning of its block.
LEMMA HeadsImage ==
  ASSUME IsBody(mir), Done, NEW h \in heads
  PROVE  Image(h, 1) = At(CopyOf(heads, h), 1)
<1>1. placed[h] = At(CopyOf(heads, h), 1)
  BY DEF Done, CopyInv, PlacedInv
<1>2. placed[h].block = CopyOf(heads, h) /\ placed[h].line = 1
  BY <1>1, AtFields
<1> QED
  BY <1>2 DEF Image

\* Where one is at something observable, the other is.
LEMMA SettledHere ==
  ASSUME IsBody(mir), Done, NEW i \in Reachable(mir.blocks), NEW line \in 1 .. (Size(i) + 1),
         line = Size(i) + 1 => mir.blocks[i].term.kind # "Goto"
  PROVE  InStepAt(i, line)
<1>1. IsCopied(i)
  BY AllCopied
<1> DEFINE k == placed[i].block
           old == At(i, line)
           new == Image(i, line)
<1>2. Closed(mir.blocks) /\ Closed(b.blocks)
  BY BothClosed
<1>3. /\ i \in Old /\ Size(i) \in Nat
      /\ k \in DOMAIN b.blocks /\ Len(b.blocks[k].stmts) \in Nat
      /\ placed[i].line \in Nat \ {0}
  BY <1>1 DEF IsCopied
<1>4. old.block = i /\ old.line = line
  BY AtFields
<1>5. new = At(k, placed[i].line + line - 1) /\ new.block = k /\ new.line = placed[i].line + line - 1
  BY AtFields DEF Image
<1>6. Settle(mir.blocks, old) = old
  <2>1. old \in Positions(mir.blocks)
    BY <1>3, AtIn DEF Old, Size
  <2>2. ~ AtTerminator(mir.blocks, old) \/ mir.blocks[old.block].term.kind # "Goto"
    BY <1>3, <1>4 DEF AtTerminator, Size
  <2> HIDE DEF old
  <2> QED
    BY <2>1, <2>2, <1>2, SettleHere
<1>7. Settle(b.blocks, new) = new
  <2>1. CASE line = Size(i) + 1
    <3>1. mir.blocks[i].term.kind # "Goto"
      BY <2>1
    <3>2. i \notin DOMAIN merge_next
      BY <3>1, MirProps, MergeProps DEF Done, CopyInv, GraphInv
    <3>3. /\ placed[i].line + Size(i) = Len(b.blocks[k].stmts) + 1
          /\ IsCopyOfTerm(local_map, heads, mir.blocks[i].term, b.blocks[k].term)
      BY <3>2, <1>1 DEF IsCopied
    <3>4. new.line = Len(b.blocks[k].stmts) + 1
      BY <2>1, <3>3, <1>3, <1>5
    <3>5. new.line \in 1 .. (Len(b.blocks[k].stmts) + 1)
      <4>1. ASSUME NEW n \in Nat PROVE n + 1 \in 1 .. (n + 1)
        OBVIOUS
      <4> HIDE DEF new, k
      <4> QED
        BY <4>1, <3>4, <1>3
    <3>6. new \in Positions(b.blocks)
      BY <3>5, <1>3, <1>5, AtIn
    <3>7. b.blocks[new.block].term.kind # "Goto"
      BY <3>1, <3>3, <1>5 DEF IsCopyOfTerm
    <3> HIDE DEF new
    <3> QED
      BY <3>6, <3>7, <1>2, SettleHere
  <2>2. CASE line # Size(i) + 1
    <3>1. line \in 1 .. Size(i)
      BY <2>2, <1>3
    <3>2. placed[i].line + line - 1 \in 1 .. Len(b.blocks[k].stmts)
      BY <3>1, <1>1 DEF IsCopied
    <3>3. new.line \in 1 .. (Len(b.blocks[k].stmts) + 1) /\ new.line # Len(b.blocks[k].stmts) + 1
      <4>1. ASSUME NEW n \in Nat, NEW x \in 1 .. n PROVE x \in 1 .. (n + 1) /\ x # n + 1
        OBVIOUS
      <4>2. new.line \in 1 .. Len(b.blocks[k].stmts)
        BY <3>2, <1>5
      <4> HIDE DEF new, k
      <4> QED
        BY <4>1, <4>2, <1>3
    <3>4. new \in Positions(b.blocks)
      BY <3>3, <1>3, <1>5, AtIn
    <3>5. ~ AtTerminator(b.blocks, new)
      BY <3>3, <1>5 DEF AtTerminator
    <3> HIDE DEF new
    <3> QED
      BY <3>4, <3>5, <1>2, SettleHere
  <2> QED
    BY <2>1, <2>2
<1>8. InStep(old, new)
  BY DEF InStep
<1> HIDE DEF old, new
<1> QED
  BY <1>6, <1>7, <1>8 DEF InStepAt, old, new

\* A goto is in step when what it jumps to is.
LEMMA SettledThere ==
  ASSUME IsBody(mir), Done, NEW i \in Reachable(mir.blocks),
         mir.blocks[i].term.kind = "Goto"
  PROVE  LET t == mir.blocks[i].term.targets[1]
         IN  /\ t \in Reachable(mir.blocks)
             /\ InStepAt(t, 1) => InStepAt(i, Size(i) + 1)
<1> DEFINE t == mir.blocks[i].term.targets[1]
           k == placed[i].block
           line == Size(i) + 1
           old == At(i, line)
           new == Image(i, line)
<1>1. IsCopied(i)
  BY AllCopied
<1>2. Closed(mir.blocks) /\ Closed(b.blocks)
  BY BothClosed
<1>3. /\ i \in Old /\ Size(i) \in Nat
      /\ k \in DOMAIN b.blocks /\ Len(b.blocks[k].stmts) \in Nat
      /\ placed[i].line \in Nat \ {0}
      /\ line \in 1 .. line
  BY <1>1 DEF IsCopied
<1>4. old.block = i /\ old.line = line
  BY AtFields
<1>5. /\ new = At(k, placed[i].line + line - 1) /\ new.block = k /\ new.line = placed[i].line + line - 1
      /\ new.line = placed[i].line + Size(i)
  <2>1. placed[i].line + line - 1 = placed[i].line + Size(i)
    BY <1>3
  <2> QED
    BY <2>1, AtFields DEF Image
<1>6. /\ Len(mir.blocks[i].term.targets) = 1
      /\ t \in Targets(mir.blocks, i)
  <2>1. /\ Len(mir.blocks[i].term.targets) = 1
        /\ Targets(mir.blocks, i) = {mir.blocks[i].term.targets[j] : j \in 1 .. Len(mir.blocks[i].term.targets)}
    BY <1>3, MirProps
  <2> QED
    BY <2>1
<1>7. t \in Reachable(mir.blocks)
  BY <1>6, MirProps, ReachableProps
<1>8. Settle(mir.blocks, old) = Settle(mir.blocks, At(t, 1))
  <2>1. old \in Positions(mir.blocks)
    BY <1>3, AtIn DEF Old, Size
  <2>2. AtTerminator(mir.blocks, old) /\ mir.blocks[old.block].term.kind = "Goto"
    BY <1>3, <1>4 DEF AtTerminator, Size
  <2>3. t = mir.blocks[old.block].term.targets[1]
    BY <1>4
  <2> HIDE DEF old, t
  <2> QED
    BY <2>1, <2>2, <2>3, <1>2, SettleThere
<1>9. Settle(b.blocks, new) = Settle(b.blocks, Image(t, 1))
  <2>1. CASE i \in DOMAIN merge_next
    <3>1. merge_next[i] = t
      BY <2>1, MirProps, MergeProps DEF Done, CopyInv, GraphInv
    <3>2. placed[t] = At(k, placed[i].line + Size(i))
      BY <2>1, <3>1, <1>1 DEF IsCopied
    <3>3. placed[t].block = k /\ placed[t].line = placed[i].line + Size(i)
      BY <3>2, AtFields
    <3>4. Image(t, 1) = At(k, placed[i].line + Size(i) + 1 - 1)
      BY <3>3 DEF Image
    <3>5. placed[i].line + Size(i) + 1 - 1 = placed[i].line + line - 1
      BY <1>3
    <3>6. Image(t, 1) = new
      BY <3>4, <3>5, <1>5
    <3> QED
      BY <3>6
  <2>2. CASE i \notin DOMAIN merge_next
    <3>1. /\ placed[i].line + Size(i) = Len(b.blocks[k].stmts) + 1
          /\ IsCopyOfTerm(local_map, heads, mir.blocks[i].term, b.blocks[k].term)
          /\ t \in heads
      BY <2>2, <1>1, <1>6 DEF IsCopied
    <3>2. new.line \in 1 .. (Len(b.blocks[k].stmts) + 1) /\ new.line = Len(b.blocks[k].stmts) + 1
      BY <3>1, <1>3, <1>5
    <3>3. new \in Positions(b.blocks)
      BY <3>2, <1>3, <1>5, AtIn
    <3>4. AtTerminator(b.blocks, new)
      BY <3>2, <1>5 DEF AtTerminator
    <3>5. b.blocks[new.block].term.kind = "Goto" /\ b.blocks[new.block].term.targets[1] = CopyOf(heads, t)
      <4>1. b.blocks[k].term.kind = "Goto" /\ b.blocks[k].term.targets[1] = CopyOf(heads, t)
        <5> DEFINE old_term == mir.blocks[i].term
                   new_term == b.blocks[k].term
        <5>1. /\ new_term.kind = old_term.kind
              /\ \A x \in 1 .. Len(old_term.targets) : new_term.targets[x] = CopyOf(heads, old_term.targets[x])
          BY <3>1 DEF IsCopyOfTerm
        <5>2. Len(old_term.targets) = 1 /\ old_term.kind = "Goto"
          BY <1>6
        <5>3. 1 \in 1 .. Len(old_term.targets)
          BY <5>2
        <5> QED
          BY <5>1, <5>2, <5>3
      <4>2. new.block = k
        BY <1>5
      <4> HIDE DEF new, k, t
      <4> QED
        BY <4>1, <4>2
    <3>6. Image(t, 1) = At(CopyOf(heads, t), 1)
      BY <3>1, HeadsImage
    <3> HIDE DEF new, t
    <3>7. Settle(b.blocks, new) = Settle(b.blocks, At(b.blocks[new.block].term.targets[1], 1))
      BY <3>3, <3>4, <3>5, <1>2, SettleThere
    <3> QED
      BY <3>5, <3>6, <3>7
  <2> QED
    BY <2>1, <2>2
<1> HIDE DEF old, new, t, line
<1>10. InStepAt(t, 1) => InStepAt(i, line)
  BY <1>8, <1>9 DEF InStepAt, old, new
<1> QED
  BY <1>7, <1>10 DEF t, line

\* Chains of gotos end, so everything is in step.
LEMMA AllInStep ==
  ASSUME IsBody(mir), Done, NEW i \in Reachable(mir.blocks), NEW line \in 1 .. (Size(i) + 1)
  PROVE  InStepAt(i, line)
<1> DEFINE R == Reachable(mir.blocks)
           Bad == {j \in R : ~ InStepAt(j, 1)}
           IsGoto(j) == mir.blocks[j].term.kind = "Goto"
           target(j) == mir.blocks[j].term.targets[1]
<1>1. \A j \in R : IsGoto(j) => target(j) \in R /\ (InStepAt(target(j), 1) => InStepAt(j, Size(j) + 1))
  BY SettledThere
<1>2. \A j \in R : \A l \in 1 .. (Size(j) + 1) : InStepAt(j, l) \/ (IsGoto(j) /\ l = Size(j) + 1)
  BY SettledHere
<1>3. \A j \in R : j \in DOMAIN mir.blocks /\ Size(j) \in Nat
  BY MirProps, ReachableProps DEF Old
<1>4. Bad = {}
  <2> SUFFICES ASSUME Bad # {} PROVE FALSE
    OBVIOUS
  <2>1. Bad \in (SUBSET DOMAIN mir.blocks) \ {{}}
    BY <1>3
  <2>2. \A cycle \in (SUBSET DOMAIN mir.blocks) \ {{}} :
          \E j \in cycle : IsGoto(j) => target(j) \notin cycle
    BY MirProps DEF IsWellFormed
  <2>3. PICK j \in Bad : IsGoto(j) => target(j) \notin Bad
    <3> HIDE DEF Bad, IsGoto, target
    <3> QED
      BY <2>1, <2>2
  <2>4. 1 \in 1 .. (Size(j) + 1)
    BY <1>3
  <2>5. IsGoto(j) /\ 1 = Size(j) + 1
    BY <2>4, <1>2
  <2>6. target(j) \in R /\ InStepAt(target(j), 1)
    BY <2>3, <2>5, <1>1
  <2>7. InStepAt(j, Size(j) + 1)
    BY <2>5, <2>6, <1>1
  <2> QED
    BY <2>5, <2>7
<1>5. CASE IsGoto(i) /\ line = Size(i) + 1
  <2>1. target(i) \in R
    BY <1>1, <1>5
  <2>2. InStepAt(target(i), 1)
    BY <2>1, <1>4
  <2> QED
    BY <2>2, <1>1, <1>5
<1> QED
  BY <1>2, <1>5

-----------------------------------------------------------------------------
\* Finalize and RunAlong keep the invariant.
LEMMA SameCopy ==
  ASSUME CopyInv,
         mir' = mir, local_map' = local_map, merge_next' = merge_next, heads' = heads,
         begun' = begun, cursor' = cursor, placed' = placed, b' = b
  PROVE  CopyInv'
<1>1. GraphInv' /\ LocalsInv' /\ BuilderInv' /\ FinishedInv'
  BY DEF CopyInv, GraphInv, LocalsInv, BuilderInv, FinishedInv
<1>2. Old' = Old /\ (\A i : Size(i)' = Size(i)) /\ (\A i : Upto(i)' = Upto(i))
  BY DEF Old, Size, Upto
<1>3. Placed' = Placed /\ \A i, line : Image(i, line)' = Image(i, line)
  BY <1>2 DEF Placed, Image
<1>4. PlacedInv'
  BY <1>2, <1>3 DEF CopyInv, PlacedInv
<1>5. CursorInv'
  BY <1>2, <1>3 DEF CopyInv, CursorInv
<1>6. StmtsInv'
  BY <1>2, <1>3 DEF CopyInv, StmtsInv
<1>7. EndsInv'
  BY <1>2, <1>3 DEF CopyInv, EndsInv
<1> QED
  BY <1>1, <1>4, <1>5, <1>6, <1>7 DEF CopyInv

LEMMA FinalizeKeeps ==
  ASSUME IsBody(mir), CopyInv, AtEntry, Finalize
  PROVE  /\ CopyInv' /\ phase' = "run" /\ cursor' = Nowhere /\ begun' = heads'
         /\ InStep(old_pos, new_pos)'
<1>1. Done /\ AtEntry
  BY DEF Done, Finalize
<1>2. CanFinalize(b)
  BY <1>1, DoneCanFinalize
<1>3. /\ phase' = "run"
      /\ old_pos' = Settle(mir.blocks, old_pos)
      /\ new_pos' = Settle(b.blocks, new_pos)
      /\ mir' = mir /\ local_map' = local_map /\ merge_next' = merge_next /\ heads' = heads
      /\ begun' = begun /\ cursor' = cursor /\ placed' = placed /\ b' = b
  BY <1>2 DEF Finalize
<1>4. EntryBlock \in heads /\ CopyOf(heads, EntryBlock) = EntryBlock /\ EntryBlock \in Reachable(mir.blocks)
  BY <1>1, InvProps DEF Done, CopyInv
<1>5. new_pos = Image(EntryBlock, 1) /\ old_pos = At(EntryBlock, 1)
  BY <1>1, <1>4, HeadsImage DEF AtEntry
<1>6. 1 \in 1 .. (Size(EntryBlock) + 1)
  BY <1>1, <1>4, AllCopied DEF IsCopied
<1>7. InStepAt(EntryBlock, 1)
  BY <1>1, <1>4, <1>6, AllInStep
<1>8. InStep(old_pos', new_pos')
  BY <1>3, <1>5, <1>7 DEF InStepAt
<1>9. InStep(old_pos, new_pos)'
  BY <1>3, <1>8 DEF InStep, Image, Size
<1>10. CopyInv'
  BY <1>3, SameCopy
<1> QED
  BY <1>1, <1>3, <1>9, <1>10 DEF Done

\* What the two bodies offer at a position and at its image.
IsOffered(i, line) ==
  LET old == Offer(mir.blocks, At(i, line))
      new == Offer(b.blocks, Image(i, line))
  IN  /\ new = [does |-> old.does, label |-> old.label, locals |-> new.locals, ways |-> old.ways]
      /\ SameLocals(local_map, old.locals, new.locals)
      /\ IsVec(old.locals)

LEMMA Offered ==
  ASSUME IsBody(mir), Done, NEW i \in Reachable(mir.blocks), NEW line \in 1 .. (Size(i) + 1),
         line = Size(i) + 1 => mir.blocks[i].term.kind # "Goto"
  PROVE  /\ IsOffered(i, line)
         /\ AtTerminator(mir.blocks, At(i, line)) <=> line = Size(i) + 1
         /\ AtTerminator(b.blocks, Image(i, line)) <=> line = Size(i) + 1
<1> DEFINE k == placed[i].block
           old == At(i, line)
           new == Image(i, line)
           block == mir.blocks[i]
           copy == b.blocks[k]
<1>1. IsCopied(i)
  BY AllCopied
<1>2. /\ i \in Old /\ Size(i) \in Nat
      /\ Len(copy.stmts) \in Nat
      /\ placed[i].line \in Nat \ {0}
  BY <1>1 DEF IsCopied
<1>3. old.block = i /\ old.line = line /\ new.block = k /\ new.line = placed[i].line + line - 1
  BY AtFields, ImageFields
<1>4. AtTerminator(mir.blocks, old) <=> line = Size(i) + 1
  BY <1>3 DEF AtTerminator, Size
<1>5. CASE line = Size(i) + 1
  <2>1. i \notin DOMAIN merge_next
    BY <1>5, MirProps, MergeProps DEF Done, CopyInv, GraphInv
  <2>2. /\ placed[i].line + Size(i) = Len(copy.stmts) + 1
        /\ IsCopyOfTerm(local_map, heads, block.term, copy.term)
    BY <2>1, <1>1 DEF IsCopied
  <2>3. new.line = Len(copy.stmts) + 1
    BY <2>2, <1>2, <1>3, <1>5
  <2>4. AtTerminator(b.blocks, new)
    BY <2>3, <1>3 DEF AtTerminator
  <2>5. IsVec(block.term.locals)
    BY <1>2, MirProps
  <2> HIDE DEF old, new
  <2>6. Offer(mir.blocks, old) = [does |-> block.term.kind, label |-> block.term.label,
                                  locals |-> block.term.locals, ways |-> Len(block.term.targets)]
    BY <1>3, <1>4, <1>5 DEF Offer
  <2>7. Offer(b.blocks, new) = [does |-> copy.term.kind, label |-> copy.term.label,
                                locals |-> copy.term.locals, ways |-> Len(copy.term.targets)]
    BY <2>4, <1>3 DEF Offer
  <2>8. /\ copy.term.kind = block.term.kind /\ copy.term.label = block.term.label
        /\ Len(copy.term.targets) = Len(block.term.targets)
        /\ SameLocals(local_map, block.term.locals, copy.term.locals)
    BY <2>2 DEF IsCopyOfTerm
  <2> HIDE DEF block, copy
  <2>9. IsOffered(i, line)
    BY <2>5, <2>6, <2>7, <2>8 DEF IsOffered, old, new
  <2> QED
    BY <2>4, <2>9, <1>4, <1>5 DEF old, new
<1>6. CASE line # Size(i) + 1
  <2>1. line \in 1 .. Size(i)
    BY <1>2, <1>6
  <2> DEFINE at == placed[i].line + line - 1
  <2>2. /\ at \in 1 .. Len(copy.stmts)
        /\ IsCopyOfStmt(local_map, block.stmts[line], copy.stmts[at])
    BY <2>1, <1>1 DEF IsCopied
  <2>3. new.line # Len(copy.stmts) + 1
    BY <2>2, <1>2, <1>3
  <2>4. ~ AtTerminator(b.blocks, new)
    BY <2>3, <1>3 DEF AtTerminator
  <2>5. IsVec(block.stmts[line].locals)
    BY <2>1, <1>2, MirProps
  <2> HIDE DEF old, new, at
  <2>6. Offer(mir.blocks, old) = [does |-> "Stmt", label |-> block.stmts[line].label,
                                  locals |-> block.stmts[line].locals, ways |-> 1]
    BY <1>3, <1>4, <1>6 DEF Offer
  <2>7. Offer(b.blocks, new) = [does |-> "Stmt", label |-> copy.stmts[at].label,
                                locals |-> copy.stmts[at].locals, ways |-> 1]
    BY <2>4, <1>3 DEF Offer, at
  <2>8. /\ copy.stmts[at].label = block.stmts[line].label
        /\ SameLocals(local_map, block.stmts[line].locals, copy.stmts[at].locals)
    BY <2>2 DEF IsCopyOfStmt
  <2> HIDE DEF block, copy
  <2>9. IsOffered(i, line)
    BY <2>5, <2>6, <2>7, <2>8 DEF IsOffered, old, new
  <2> QED
    BY <2>4, <2>9, <1>4, <1>6 DEF old, new
<1> QED
  BY <1>5, <1>6

LEMMA RunAlongKeeps ==
  ASSUME IsBody(mir), Done, InStep(old_pos, new_pos), NEW way \in 1 .. OldOffer.ways, RunAlong(way)
  PROVE  Done' /\ phase' = "run" /\ InStep(old_pos, new_pos)'
<1>1. PICK i, line :
        /\ i \in Reachable(mir.blocks)
        /\ line \in 1 .. (Size(i) + 1)
        /\ old_pos = At(i, line)
        /\ new_pos = Image(i, line)
        /\ line = Size(i) + 1 => mir.blocks[i].term.kind # "Goto"
  BY DEF InStep
<1> DEFINE k == placed[i].block
<1>2. /\ phase' = "run"
      /\ old_pos' = After(mir.blocks, old_pos, way)
      /\ new_pos' = After(b.blocks, new_pos, way)
      /\ mir' = mir /\ local_map' = local_map /\ merge_next' = merge_next /\ heads' = heads
      /\ begun' = begun /\ cursor' = cursor /\ placed' = placed /\ b' = b
  BY DEF RunAlong
<1>3. /\ AtTerminator(mir.blocks, old_pos) <=> line = Size(i) + 1
      /\ AtTerminator(b.blocks, new_pos) <=> line = Size(i) + 1
  BY <1>1, Offered
<1>4. IsCopied(i)
  BY <1>1, AllCopied
<1>5. /\ i \in Old /\ Size(i) \in Nat /\ placed[i].line \in Nat \ {0}
      /\ line \in Nat
  BY <1>1, <1>4 DEF IsCopied
<1>6. old_pos.block = i /\ new_pos.block = k
  BY <1>1, AtFields, ImageFields
<1>7. InStep(old_pos', new_pos')
  <2>1. CASE line = Size(i) + 1
    <3> DEFINE term == mir.blocks[i].term
               copy == b.blocks[k].term
               t == term.targets[way]
    <3>1. i \notin DOMAIN merge_next
      BY <2>1, <1>1, MirProps, MergeProps DEF Done, CopyInv, GraphInv
    <3>2. IsCopyOfTerm(local_map, heads, term, copy) /\ Targets(mir.blocks, i) \subseteq heads
      BY <3>1, <1>4 DEF IsCopied
    <3>3. way \in 1 .. Len(term.targets)
      BY <2>1, <1>3, <1>6 DEF OldOffer, Offer
    <3>4. t \in Targets(mir.blocks, i)
      BY <3>3, <1>5, MirProps
    <3>5. t \in heads
      BY <3>2, <3>4
    <3>6. copy.targets[way] = CopyOf(heads, t)
      BY <3>2, <3>3 DEF IsCopyOfTerm
    <3>7. old_pos' = Settle(mir.blocks, At(t, 1))
      BY <2>1, <1>2, <1>3, <1>6 DEF After
    <3>8. new_pos' = Settle(b.blocks, At(copy.targets[way], 1))
      BY <2>1, <1>2, <1>3, <1>6 DEF After
    <3> HIDE DEF t, copy
    <3>9. t \in Reachable(mir.blocks)
      BY <3>5, InvProps DEF Done, CopyInv
    <3>10. 1 \in 1 .. (Size(t) + 1)
      BY <3>9, AllCopied DEF IsCopied
    <3>11. InStepAt(t, 1) /\ Image(t, 1) = At(CopyOf(heads, t), 1)
      BY <3>5, <3>9, <3>10, AllInStep, HeadsImage
    <3> QED
      BY <3>6, <3>7, <3>8, <3>11 DEF InStepAt
  <2>2. CASE line # Size(i) + 1
    <3>1. \A x, y : [[block |-> x, line |-> y] EXCEPT !.line = @ + 1] = [block |-> x, line |-> y + 1]
      OBVIOUS
    <3>2. \A x, y : [At(x, y) EXCEPT !.line = @ + 1] = At(x, y + 1)
      BY <3>1 DEF At
    <3>3. line + 1 \in 1 .. (Size(i) + 1)
      BY <2>2, <1>1, <1>5
    <3>4. [old_pos EXCEPT !.line = @ + 1] = At(i, line + 1)
      BY <3>2, <1>1
    <3>5. [new_pos EXCEPT !.line = @ + 1] = Image(i, line + 1)
      <4>1. (placed[i].line + line - 1) + 1 = placed[i].line + (line + 1) - 1
        BY <1>5
      <4>2. [new_pos EXCEPT !.line = @ + 1] = At(k, (placed[i].line + line - 1) + 1)
        BY <3>2, <1>1 DEF Image
      <4> QED
        BY <4>1, <4>2 DEF Image
    <3>6. old_pos' = Settle(mir.blocks, At(i, line + 1))
      BY <2>2, <3>4, <1>2, <1>3 DEF After
    <3>7. new_pos' = Settle(b.blocks, Image(i, line + 1))
      BY <2>2, <3>5, <1>2, <1>3 DEF After
    <3>8. InStepAt(i, line + 1)
      BY <1>1, <3>3, AllInStep
    <3> QED
      BY <3>6, <3>7, <3>8 DEF InStepAt
  <2> QED
    BY <2>1, <2>2
<1>8. InStep(old_pos, new_pos)'
  BY <1>2, <1>7 DEF InStep, Image, Size
<1>9. Done'
  BY <1>2, SameCopy DEF Done
<1> QED
  BY <1>2, <1>8, <1>9

-----------------------------------------------------------------------------
LEMMA InitInv == Init => Inv
BY BodiesAssumption DEF Init, Inv, AtEntry

LEMMA NextKeepsInv ==
  ASSUME Inv, [Next]_vars
  PROVE  Inv'
<1>1. IsBody(mir)
  BY DEF Inv
<1>2. CASE Prepare
  <2>1. begun = {} /\ cursor = Nowhere /\ AtEntry /\ old_pos' = old_pos /\ new_pos' = new_pos /\ mir' = mir
    BY <1>2 DEF Inv, Prepare
  <2>2. CopyInv' /\ phase' = "copy"
    BY <1>1, <1>2, <2>1, PrepareKeeps
  <2>3. AtEntry'
    BY <2>1 DEF AtEntry
  <2> QED
    BY <1>1, <2>1, <2>2, <2>3 DEF Inv
<1>3. ASSUME BeginPath \/ CopyOneStmt \/ NextOfPath \/ EndPath PROVE Inv'
  <2>1. phase = "copy"
    BY <1>3 DEF BeginPath, CopyOneStmt, NextOfPath, EndPath, Copying
  <2>2. old_pos' = old_pos /\ new_pos' = new_pos /\ mir' = mir
    BY <1>3 DEF BeginPath, CopyOneStmt, NextOfPath, EndPath
  <2>3. CopyInv /\ AtEntry
    BY <2>1 DEF Inv
  <2>4. CopyInv' /\ phase' = "copy"
    BY <1>1, <1>3, <2>3, BeginPathKeeps, CopyOneStmtKeeps, NextOfPathKeeps, EndPathKeeps
  <2>5. AtEntry'
    BY <2>2, <2>3 DEF AtEntry
  <2> QED
    BY <1>1, <2>2, <2>4, <2>5 DEF Inv
<1>4. CASE Finalize
  <2>1. CopyInv /\ AtEntry /\ mir' = mir
    BY <1>4 DEF Inv, Finalize
  <2>2. CopyInv' /\ phase' = "run" /\ cursor' = Nowhere /\ begun' = heads' /\ InStep(old_pos, new_pos)'
    BY <1>1, <1>4, <2>1, FinalizeKeeps
  <2> QED
    BY <1>1, <2>1, <2>2 DEF Inv
<1>5. ASSUME NEW way \in 1 .. OldOffer.ways, RunAlong(way) PROVE Inv'
  <2>1. phase = "run" /\ mir' = mir
    BY <1>5 DEF RunAlong
  <2>2. Done /\ InStep(old_pos, new_pos)
    BY <2>1 DEF Inv, Done
  <2>3. Done' /\ phase' = "run" /\ InStep(old_pos, new_pos)'
    BY <1>1, <1>5, <2>2, RunAlongKeeps
  <2> QED
    BY <1>1, <2>1, <2>3 DEF Inv, Done
<1>6. CASE UNCHANGED vars
  <2>1. /\ mir' = mir /\ local_map' = local_map /\ merge_next' = merge_next /\ heads' = heads
        /\ begun' = begun /\ cursor' = cursor /\ placed' = placed /\ b' = b /\ phase' = phase
        /\ old_pos' = old_pos /\ new_pos' = new_pos
    BY <1>6 DEF vars
  <2>2. CopyInv => CopyInv'
    BY <2>1, SameCopy
  <2>3. AtEntry => AtEntry'
    BY <2>1 DEF AtEntry
  <2>4. InStep(old_pos, new_pos) => InStep(old_pos, new_pos)'
    BY <2>1 DEF InStep, Image, Size
  <2> QED
    BY <1>1, <2>1, <2>2, <2>3, <2>4 DEF Inv
<1> QED
  BY <1>2, <1>3, <1>4, <1>5, <1>6 DEF Next, Pass

LEMMA InvHolds == Spec => []Inv
<1>1. Init => Inv
  BY InitInv
<1>2. Inv /\ [Next]_vars => Inv'
  BY NextKeepsInv
<1> QED
  BY <1>1, <1>2, PTL DEF Spec

\* The pass never panics, whatever the body: every jump that ends a path goes to
\* the head of one, the builder writes each block once, and all of them.
THEOREM NeverPanicsHolds == Spec => []NeverPanics
<1>1. Inv => NeverPanics
  BY DEF Inv, NeverPanics
<1> QED
  BY <1>1, InvHolds, PTL

LEMMA InvSameBehaviour == Inv => SameBehaviour
<1> SUFFICES ASSUME Inv, phase = "run" PROVE OldOffer = NewOffer /\ IsInjective(local_map)
  BY DEF SameBehaviour
<1>1. IsBody(mir) /\ Done /\ InStep(old_pos, new_pos)
  BY DEF Inv, Done
<1>2. IsInjective(local_map)
  BY <1>1 DEF Done, CopyInv, LocalsInv
<1>3. PICK i, line :
        /\ i \in Reachable(mir.blocks)
        /\ line \in 1 .. (Size(i) + 1)
        /\ old_pos = At(i, line)
        /\ new_pos = Image(i, line)
        /\ line = Size(i) + 1 => mir.blocks[i].term.kind # "Goto"
  BY <1>1 DEF InStep
<1> DEFINE old == Offer(mir.blocks, old_pos)
           new == Offer(b.blocks, new_pos)
           back == [n \in DOMAIN new.locals |-> local_map[new.locals[n]]]
<1>4. /\ new = [does |-> old.does, label |-> old.label, locals |-> new.locals, ways |-> old.ways]
      /\ SameLocals(local_map, old.locals, new.locals)
      /\ IsVec(old.locals)
  <2>1. IsOffered(i, line)
    BY <1>1, <1>3, Offered
  <2> QED
    BY <2>1, <1>3 DEF IsOffered
<1>5. old = [does |-> old.does, label |-> old.label, locals |-> old.locals, ways |-> old.ways]
  BY DEF Offer
<1> HIDE DEF old, new
<1>6. back = old.locals
  <2> DEFINE n == Len(old.locals)
  <2>1. n \in Nat /\ old.locals \in [1 .. n -> ToSet(old.locals)]
    BY <1>4, VecProps
  <2>2. DOMAIN new.locals = 1 .. n /\ \A x \in 1 .. n : local_map[new.locals[x]] = old.locals[x]
    BY <1>4 DEF SameLocals
  <2> HIDE DEF n
  <2> QED
    BY <2>1, <2>2
<1>7. [new EXCEPT !.locals = back]
        = [does |-> old.does, label |-> old.label, locals |-> back, ways |-> old.ways]
  <2>1. \A d, l, x, w, y :
          [[does |-> d, label |-> l, locals |-> x, ways |-> w] EXCEPT !.locals = y]
            = [does |-> d, label |-> l, locals |-> y, ways |-> w]
    OBVIOUS
  <2> HIDE DEF back
  <2> QED
    BY <2>1, <1>4
<1>8. NewOffer = [new EXCEPT !.locals = back] /\ OldOffer = old
  BY DEF NewOffer, OldOffer, Original, old, new
<1> HIDE DEF back
<1>9. OldOffer = NewOffer
  BY <1>5, <1>6, <1>7, <1>8
<1> QED
  BY <1>2, <1>9

\* The copy does what the body does, as long as they run, whatever the body.
THEOREM SameBehaviourHolds == Spec => []SameBehaviour
<1> QED
  BY InvSameBehaviour, InvHolds, PTL

LEMMA InvParametersComeFirst == Inv => ParametersComeFirst
<1> SUFFICES ASSUME Inv, phase \in {"copy", "run"}
             PROVE  SubSeq(local_map, 1, Len(mir.params)) = mir.params
  BY DEF ParametersComeFirst
<1> DEFINE n == Len(mir.params)
           part == SubSeq(local_map, 1, n)
<1>1. IsVec(mir.params) /\ IsVec(local_map) /\ Extends(local_map, mir.params)
  BY MirProps DEF Inv, CopyInv, LocalsInv
<1>2. n \in Nat /\ n <= Len(local_map) /\ Len(local_map) \in Nat
      /\ \A x \in 1 .. n : local_map[x] = mir.params[x]
  BY <1>1, VecProps DEF Extends
<1>3. /\ part \in Seq(ToSet(mir.params))
      /\ Len(part) = n
      /\ \A x \in 1 .. n : part[x] = mir.params[x]
  <2> DEFINE S == ToSet(mir.params)
  <2>1. \A x \in 1 .. n : local_map[x] \in S
    BY <1>1, <1>2, VecProps
  <2> HIDE DEF n, S
  <2>2. /\ SubSeq(local_map, 1, n) \in Seq(S)
        /\ Len(SubSeq(local_map, 1, n)) = IF 1 <= n THEN n - 1 + 1 ELSE 0
        /\ \A x \in 1 .. n - 1 + 1 : SubSeq(local_map, 1, n)[x] = local_map[1 + x - 1]
    BY <1>2, <2>1, SubSeqProperties
  <2> QED
    BY <1>2, <2>2 DEF S
<1>4. mir.params \in [1 .. n -> ToSet(mir.params)] /\ part \in [1 .. Len(part) -> ToSet(mir.params)]
  BY <1>1, <1>3, VecProps, LenProperties
<1> HIDE DEF n, part
<1>5. part = mir.params
  BY <1>3, <1>4
<1> QED
  BY <1>5 DEF n, part

\* The parameters come first in the copy, in their order, whatever else the
\* pass meets.
THEOREM ParametersComeFirstHolds == Spec => []ParametersComeFirst
<1> QED
  BY InvParametersComeFirst, InvHolds, PTL
==============================================================================
