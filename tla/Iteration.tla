------------------------------- MODULE Iteration -------------------------------
(***************************************************************************)
(* What the proofs need of iteration: induction over the naturals with     *)
(* sets, sequences built from one end, and running a function until        *)
(* nothing changes.                                                        *)
(***************************************************************************)
EXTENDS Naturals, FiniteSetTheorems, WellFoundedInduction, TLAPS

-----------------------------------------------------------------------------
\* Induction over the naturals, for sets.
Less == {pair \in Nat \X Nat : pair[1] < pair[2]}

\* A set of naturals has a least element.
LEMMA NatMin ==
  ASSUME NEW T \in SUBSET Nat, T # {}
  PROVE  \E x \in T : \A y \in T : x <= y
<1>1. IsWellFoundedOn(Less, Nat)
  BY NatLessThanWellFounded, Zenon DEF OpToRel, Less
<1>2. PICK x \in T : \A y \in T : <<y, x>> \notin Less
  BY <1>1, WFMin
<1>3. ASSUME NEW y \in T, y < x PROVE FALSE
  <2>1. <<y, x>> \in Nat \X Nat
    BY <1>2
  <2>2. <<y, x>> \in Less
    BY <2>1, <1>3 DEF Less
  <2> QED
    BY <2>2, <1>2
<1>4. \A y \in T : y \in Nat /\ x \in Nat
  BY <1>2
<1> QED
  BY <1>3, <1>4

\* A set with 0 and every successor of its naturals has all of them.
LEMMA NatInd ==
  ASSUME NEW T, 0 \in T, \A n \in Nat : n \in T => n + 1 \in T
  PROVE  \A n \in Nat : n \in T
<1> SUFFICES ASSUME Nat \ T # {} PROVE FALSE
  OBVIOUS
<1>1. PICK x \in Nat \ T : \A y \in Nat \ T : x <= y
  BY NatMin
<1>2. x # 0 /\ x - 1 \in Nat
  BY <1>1
<1>3. x - 1 \in T
  BY <1>1, <1>2
<1> QED
  BY <1>1, <1>2, <1>3

-----------------------------------------------------------------------------
\* A function defined from a first value, each of the others from the last one.
ChainsUp(n, base, step, f) == f[1] = base /\ \A i \in 1 .. n : f[i + 1] = step[i][f[i]]

LEMMA ChainUp ==
  ASSUME NEW n \in Nat, NEW X, NEW base \in X, NEW step \in [1 .. n -> [X -> X]]
  PROVE  \E f \in [1 .. (n + 1) -> X] : ChainsUp(n, base, step, f)
<1> DEFINE Upto(k, f) == f[1] = base /\ \A i \in 1 .. k : f[i + 1] = step[i][f[i]]
           T == {k \in Nat : k <= n => \E f \in [1 .. (k + 1) -> X] : Upto(k, f)}
<1>1. 0 \in T
  <2> DEFINE f == [i \in 1 .. 1 |-> base]
  <2>1. f \in [1 .. (0 + 1) -> X] /\ Upto(0, f)
    OBVIOUS
  <2> QED
    BY <2>1
<1>2. ASSUME NEW k \in Nat, k \in T PROVE k + 1 \in T
  <2> SUFFICES ASSUME k + 1 <= n PROVE \E f \in [1 .. (k + 1 + 1) -> X] : Upto(k + 1, f)
    OBVIOUS
  <2>1. PICK f \in [1 .. (k + 1) -> X] : Upto(k, f)
    BY <1>2
  <2>2. k + 1 \in 1 .. n /\ f[k + 1] \in X
    OBVIOUS
  <2> DEFINE v == step[k + 1][f[k + 1]]
             h == [i \in 1 .. (k + 1 + 1) |-> IF i = k + 2 THEN v ELSE f[i]]
  <2>3. v \in X
    BY <2>2
  <2> HIDE DEF v
  <2>4. h \in [1 .. (k + 1 + 1) -> X]
    BY <2>3
  <2>5. h[1] = base
    BY <2>1
  <2>6. ASSUME NEW i \in 1 .. (k + 1) PROVE h[i + 1] = step[i][h[i]]
    <3>1. CASE i = k + 1
      BY <3>1 DEF v
    <3>2. CASE i # k + 1
      <4>1. i \in 1 .. k /\ h[i + 1] = f[i + 1] /\ h[i] = f[i]
        BY <3>2
      <4> QED
        BY <4>1, <2>1
    <3> QED
      BY <3>1, <3>2
  <2> QED
    BY <2>4, <2>5, <2>6
<1> HIDE DEF T
<1>3. n \in T
  BY <1>1, <1>2, NatInd
<1> QED
  BY <1>3 DEF T, ChainsUp

\* A function defined from a last value, each of the others from the next one.
ChainsDown(n, base, step, f) == f[n + 1] = base /\ \A i \in 1 .. n : f[i] = step[i][f[i + 1]]

LEMMA ChainDown ==
  ASSUME NEW n \in Nat, NEW X, NEW base \in X, NEW step \in [1 .. n -> [X -> X]]
  PROVE  \E f \in [1 .. (n + 1) -> X] : ChainsDown(n, base, step, f)
<1> DEFINE back == [i \in 1 .. n |-> step[n + 1 - i]]
<1>1. back \in [1 .. n -> [X -> X]]
  OBVIOUS
<1>2. PICK g \in [1 .. (n + 1) -> X] : ChainsUp(n, base, back, g)
  <2> HIDE DEF back
  <2> QED
    BY <1>1, ChainUp
<1> DEFINE f == [i \in 1 .. (n + 1) |-> g[n + 2 - i]]
<1>3. f \in [1 .. (n + 1) -> X] /\ f[n + 1] = base
  BY <1>2 DEF ChainsUp
<1>4. ASSUME NEW i \in 1 .. n PROVE f[i] = step[i][f[i + 1]]
  <2> DEFINE j == n + 1 - i
  <2>1. j \in 1 .. n /\ j + 1 = n + 2 - i /\ j = n + 2 - (i + 1)
    OBVIOUS
  <2>2. g[j + 1] = back[j][g[j]] /\ back[j] = step[n + 1 - j] /\ n + 1 - j = i
    BY <1>2, <2>1 DEF ChainsUp
  <2>3. f[i] = g[j + 1] /\ f[i + 1] = g[j]
    BY <2>1
  <2> QED
    BY <2>2, <2>3
<1> QED
  BY <1>3, <1>4 DEF ChainsDown

-----------------------------------------------------------------------------
\* Iterating a function from a point: what every set with the point that is
\* closed under the function holds.
Orbit(X, g, x) == {y \in X : \A C \in SUBSET X : x \in C /\ (\A z \in C : g[z] \in C) => y \in C}

Fixed(X, g) == {y \in X : g[y] = y}

LEMMA OrbitProps ==
  ASSUME NEW X, NEW g \in [X -> X], NEW x \in X
  PROVE  /\ x \in Orbit(X, g, x)
         /\ \A y \in Orbit(X, g, x) : g[y] \in Orbit(X, g, x)
BY DEF Orbit

\* A point that moves ends where its image ends.
LEMMA OrbitOfImage ==
  ASSUME NEW X, NEW g \in [X -> X], NEW x \in X, g[x] # x
  PROVE  Orbit(X, g, x) \cap Fixed(X, g) = Orbit(X, g, g[x]) \cap Fixed(X, g)
<1>1. ASSUME NEW y \in Orbit(X, g, g[x]) PROVE y \in Orbit(X, g, x)
  BY DEF Orbit
<1>2. ASSUME NEW y \in Orbit(X, g, x), g[y] = y PROVE y \in Orbit(X, g, g[x])
  <2> SUFFICES ASSUME NEW C \in SUBSET X, g[x] \in C, \A z \in C : g[z] \in C
               PROVE  y \in C
    BY DEF Orbit
  <2> DEFINE D == C \cup {x}
  <2>1. D \in SUBSET X /\ x \in D /\ \A z \in D : g[z] \in D
    OBVIOUS
  <2>2. y \in D
    BY <2>1 DEF Orbit
  <2> QED
    BY <2>2, <1>2
<1> QED
  BY <1>1, <1>2 DEF Fixed

LEMMA OrbitOfFixed ==
  ASSUME NEW X, NEW g \in [X -> X], NEW x \in X, g[x] = x
  PROVE  Orbit(X, g, x) \cap Fixed(X, g) = {x}
<1>1. ASSUME NEW y \in Orbit(X, g, x) PROVE y = x
  <2>1. {x} \in SUBSET X /\ x \in {x} /\ \A z \in {x} : g[z] \in {x}
    OBVIOUS
  <2> QED
    BY <2>1 DEF Orbit
<1> QED
  BY <1>1, OrbitProps DEF Fixed

\* The function that runs g until nothing changes exists, whatever g is.
LEMMA SettlingExists ==
  ASSUME NEW X, NEW g \in [X -> X]
  PROVE  \E f : f = [s \in X |-> IF g[s] = s THEN s ELSE f[g[s]]]
<1> DEFINE ends(s) == Orbit(X, g, s) \cap Fixed(X, g)
           f == [s \in X |-> CHOOSE y : y \in ends(s)]
<1>1. ASSUME NEW s \in X, g[s] = s PROVE f[s] = s
  BY <1>1, OrbitOfFixed
<1>2. ASSUME NEW s \in X, g[s] # s PROVE f[s] = f[g[s]]
  <2>1. ends(s) = ends(g[s])
    BY <1>2, OrbitOfImage
  <2>2. g[s] \in X
    OBVIOUS
  <2> QED
    BY <2>1, <2>2
<1>3. f = [s \in X |-> IF g[s] = s THEN s ELSE f[g[s]]]
  <2> HIDE DEF f
  <2>1. f = [s \in X |-> f[s]]
    BY DEF f
  <2>2. \A s \in X : f[s] = IF g[s] = s THEN s ELSE f[g[s]]
    BY <1>1, <1>2
  <2> QED
    BY <2>1, <2>2
<1> QED
  BY <1>3

\* It goes to the fixed point of the orbit, when there is one.
LEMMA SettlingEnds ==
  ASSUME NEW X, NEW g \in [X -> X], NEW x \in X, NEW f,
         f = [s \in X |-> IF g[s] = s THEN s ELSE f[g[s]]],
         NEW y \in Orbit(X, g, x), g[y] = y
  PROVE  f[x] = y
<1> DEFINE C == {z \in X : f[z] = f[x]}
<1>1. \A s \in X : f[s] = IF g[s] = s THEN s ELSE f[g[s]]
  <2> DEFINE h == [s \in X |-> IF g[s] = s THEN s ELSE f[g[s]]]
  <2>1. \A s \in X : h[s] = IF g[s] = s THEN s ELSE f[g[s]]
    OBVIOUS
  <2>2. f = h
    OBVIOUS
  <2> HIDE DEF h
  <2> QED
    BY <2>1, <2>2
<1>2. C \in SUBSET X /\ x \in C
  OBVIOUS
<1>3. ASSUME NEW z \in C PROVE g[z] \in C
  BY <1>1
<1>4. y \in C /\ y \in X
  BY <1>2, <1>3 DEF Orbit
<1> QED
  BY <1>1, <1>4
==============================================================================
