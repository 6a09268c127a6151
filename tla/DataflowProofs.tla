---------------------------- MODULE DataflowProofs ----------------------------
(***************************************************************************)
(* What LeastSolution returns for a monotone problem over finitely many    *)
(* facts: an assignment the equations leave alone, below every assignment  *)
(* that satisfies them.  The proof follows the sweeps from the empty       *)
(* facts: they only grow, so the largest one is a fixed point.             *)
(***************************************************************************)
EXTENDS Dataflow, Iteration

-----------------------------------------------------------------------------
\* A problem over the facts F with monotone transfers.
IsProblem(p, F) ==
  /\ p.graph \in Graphs
  /\ p.seed \in SUBSET F
  /\ p.transfer \in [Blocks -> [SUBSET F -> SUBSET F]]

IsMonotone(p, F) ==
  \A b \in Blocks : \A X, Y \in SUBSET F :
     X \subseteq Y => p.transfer[b][X] \subseteq p.transfer[b][Y]

Under(s, t) ==
  \A b \in Blocks : s.ins[b] \subseteq t.ins[b] /\ s.outs[b] \subseteq t.outs[b]

LEMMA FlowTyped ==
  ASSUME NEW F, NEW p, IsProblem(p, F), NEW f \in [Blocks -> SUBSET F], NEW b \in Blocks
  PROVE  /\ FromPreds(p, f, b) \in SUBSET F
         /\ FromSuccs(p, f, b) \in SUBSET F
         /\ SeedAt(p, b) \in SUBSET F
<1>1. p.graph.succs[b] \in SUBSET Blocks /\ p.seed \in SUBSET F
  BY DEF IsProblem, Graphs
<1>2. \A a \in Blocks : f[a] \in SUBSET F
  OBVIOUS
<1>3. FromPreds(p, f, b) \in SUBSET F
  BY <1>2 DEF FromPreds, Preds
<1>4. FromSuccs(p, f, b) \in SUBSET F
  BY <1>1, <1>2 DEF FromSuccs
<1>5. SeedAt(p, b) \in SUBSET F
  BY <1>1 DEF SeedAt
<1> QED
  BY <1>3, <1>4, <1>5

LEMMA FlowMonotone ==
  ASSUME NEW F, NEW p, IsProblem(p, F), NEW b \in Blocks,
         NEW f \in [Blocks -> SUBSET F], NEW g \in [Blocks -> SUBSET F],
         \A a \in Blocks : f[a] \subseteq g[a]
  PROVE  /\ FromPreds(p, f, b) \subseteq FromPreds(p, g, b)
         /\ FromSuccs(p, f, b) \subseteq FromSuccs(p, g, b)
<1>1. p.graph.succs[b] \in SUBSET Blocks
  BY DEF IsProblem, Graphs
<1>2. FromPreds(p, f, b) \subseteq FromPreds(p, g, b)
  BY DEF FromPreds, Preds
<1>3. FromSuccs(p, f, b) \subseteq FromSuccs(p, g, b)
  BY <1>1 DEF FromSuccs
<1> QED
  BY <1>2, <1>3

\* A sweep block by block.
LEMMA SweepIs ==
  ASSUME NEW F, NEW p, IsProblem(p, F), NEW s \in Assignments(F)
  PROVE  /\ Sweep(p, s) \in Assignments(F)
         /\ \A b \in Blocks :
              IF p.direction = "Forward"
              THEN /\ Sweep(p, s).ins[b] = FromPreds(p, s.outs, b) \cup SeedAt(p, b)
                   /\ Sweep(p, s).outs[b] = p.transfer[b][Sweep(p, s).ins[b]]
              ELSE /\ Sweep(p, s).outs[b] = FromSuccs(p, s.ins, b)
                   /\ Sweep(p, s).ins[b] = p.transfer[b][Sweep(p, s).outs[b]] \cup SeedAt(p, b)
<1>1. s.ins \in [Blocks -> SUBSET F] /\ s.outs \in [Blocks -> SUBSET F]
  BY DEF Assignments
<1>2. \A b \in Blocks : /\ FromPreds(p, s.outs, b) \in SUBSET F
                         /\ FromSuccs(p, s.ins, b) \in SUBSET F
                         /\ SeedAt(p, b) \in SUBSET F
  BY <1>1, FlowTyped
<1>3. \A b \in Blocks : \A X \in SUBSET F : p.transfer[b][X] \in SUBSET F
  BY DEF IsProblem
<1>4. CASE p.direction = "Forward"
  <2> DEFINE ins == [b \in Blocks |-> FromPreds(p, s.outs, b) \cup SeedAt(p, b)]
             outs == [b \in Blocks |-> p.transfer[b][ins[b]]]
  <2>1. Sweep(p, s) = [ins |-> ins, outs |-> outs]
    BY <1>4 DEF Sweep
  <2>2. \A b \in Blocks : ins[b] = FromPreds(p, s.outs, b) \cup SeedAt(p, b)
    OBVIOUS
  <2>3. ins \in [Blocks -> SUBSET F]
    BY <1>2
  <2>4. \A b \in Blocks : outs[b] = p.transfer[b][ins[b]] /\ outs[b] \in SUBSET F
    BY <1>3, <2>3
  <2>5. outs \in [Blocks -> SUBSET F]
    BY <2>4
  <2> HIDE DEF ins, outs
  <2>6. Sweep(p, s).ins = ins /\ Sweep(p, s).outs = outs
    BY <2>1
  <2>7. Sweep(p, s) \in Assignments(F)
    BY <2>1, <2>3, <2>5 DEF Assignments
  <2> QED
    BY <2>2, <2>4, <2>6, <2>7, <1>4
<1>5. CASE p.direction # "Forward"
  <2> DEFINE outs == [b \in Blocks |-> FromSuccs(p, s.ins, b)]
             ins == [b \in Blocks |-> p.transfer[b][outs[b]] \cup SeedAt(p, b)]
  <2>1. Sweep(p, s) = [ins |-> ins, outs |-> outs]
    BY <1>5 DEF Sweep
  <2>2. \A b \in Blocks : outs[b] = FromSuccs(p, s.ins, b)
    OBVIOUS
  <2>3. outs \in [Blocks -> SUBSET F]
    BY <1>2
  <2>4. \A b \in Blocks : /\ ins[b] = p.transfer[b][outs[b]] \cup SeedAt(p, b)
                           /\ ins[b] \in SUBSET F
    BY <1>2, <1>3, <2>3
  <2>5. ins \in [Blocks -> SUBSET F]
    BY <2>4
  <2> HIDE DEF ins, outs
  <2>6. Sweep(p, s).ins = ins /\ Sweep(p, s).outs = outs
    BY <2>1
  <2>7. Sweep(p, s) \in Assignments(F)
    BY <2>1, <2>3, <2>5 DEF Assignments
  <2> QED
    BY <2>2, <2>4, <2>6, <2>7, <1>5
<1> QED
  BY <1>4, <1>5

LEMMA SweepMonotone ==
  ASSUME NEW F, NEW p, IsProblem(p, F), IsMonotone(p, F),
         NEW s \in Assignments(F), NEW t \in Assignments(F), Under(s, t)
  PROVE  Under(Sweep(p, s), Sweep(p, t))
<1> DEFINE u == Sweep(p, s)
           v == Sweep(p, t)
<1>1. u \in Assignments(F) /\ v \in Assignments(F)
  BY SweepIs
<1>2. \A b \in Blocks : /\ u.ins[b] \in SUBSET F /\ v.ins[b] \in SUBSET F
                         /\ u.outs[b] \in SUBSET F /\ v.outs[b] \in SUBSET F
  BY <1>1 DEF Assignments
<1>3. /\ s.ins \in [Blocks -> SUBSET F] /\ s.outs \in [Blocks -> SUBSET F]
      /\ t.ins \in [Blocks -> SUBSET F] /\ t.outs \in [Blocks -> SUBSET F]
  BY DEF Assignments
<1>4. \A b \in Blocks : /\ FromPreds(p, s.outs, b) \subseteq FromPreds(p, t.outs, b)
                         /\ FromSuccs(p, s.ins, b) \subseteq FromSuccs(p, t.ins, b)
  <2>1. \A a \in Blocks : s.ins[a] \subseteq t.ins[a] /\ s.outs[a] \subseteq t.outs[a]
    BY DEF Under
  <2> QED
    BY <2>1, <1>3, FlowMonotone
<1>5. ASSUME NEW b \in Blocks
      PROVE  u.ins[b] \subseteq v.ins[b] /\ u.outs[b] \subseteq v.outs[b]
  <2>1. CASE p.direction = "Forward"
    <3>1. /\ u.ins[b] = FromPreds(p, s.outs, b) \cup SeedAt(p, b)
          /\ u.outs[b] = p.transfer[b][u.ins[b]]
      BY <2>1, SweepIs
    <3>2. /\ v.ins[b] = FromPreds(p, t.outs, b) \cup SeedAt(p, b)
          /\ v.outs[b] = p.transfer[b][v.ins[b]]
      BY <2>1, SweepIs
    <3> HIDE DEF u, v
    <3>3. u.ins[b] \subseteq v.ins[b]
      BY <3>1, <3>2, <1>4
    <3> QED
      BY <3>1, <3>2, <3>3, <1>2 DEF IsMonotone
  <2>2. CASE p.direction # "Forward"
    <3>1. /\ u.outs[b] = FromSuccs(p, s.ins, b)
          /\ u.ins[b] = p.transfer[b][u.outs[b]] \cup SeedAt(p, b)
      BY <2>2, SweepIs
    <3>2. /\ v.outs[b] = FromSuccs(p, t.ins, b)
          /\ v.ins[b] = p.transfer[b][v.outs[b]] \cup SeedAt(p, b)
      BY <2>2, SweepIs
    <3> HIDE DEF u, v
    <3>3. u.outs[b] \subseteq v.outs[b]
      BY <3>1, <3>2, <1>4
    <3>4. p.transfer[b][u.outs[b]] \subseteq p.transfer[b][v.outs[b]]
      BY <3>3, <1>2 DEF IsMonotone
    <3> QED
      BY <3>1, <3>2, <3>3, <3>4
  <2> QED
    BY <2>1, <2>2
<1> QED
  BY <1>5 DEF Under

-----------------------------------------------------------------------------
\* The facts of an assignment, as one finite set.
AllFacts(F) == (Blocks \X F) \X ({"ins"} \cup {"outs"})

FactsIn(s, F) ==
  {t \in AllFacts(F) :
     IF t[2] = "ins" THEN t[1][2] \in s.ins[t[1][1]] ELSE t[1][2] \in s.outs[t[1][1]]}

LEMMA FactsInFinite ==
  ASSUME NEW F, IsFiniteSet(F), NEW s
  PROVE  /\ IsFiniteSet(FactsIn(s, F))
         /\ Cardinality(FactsIn(s, F)) \in Nat
         /\ Cardinality(AllFacts(F)) \in Nat
         /\ Cardinality(FactsIn(s, F)) <= Cardinality(AllFacts(F))
<1>1. IsFiniteSet({"ins"} \cup {"outs"})
  BY FS_Singleton, FS_AddElement
<1>2. IsFiniteSet(Blocks \X F)
  BY BlocksAssumption, FS_Product
<1>3. IsFiniteSet(AllFacts(F))
  BY <1>1, <1>2, FS_Product DEF AllFacts
<1>4. FactsIn(s, F) \in SUBSET AllFacts(F)
  BY DEF FactsIn
<1> QED
  BY <1>3, <1>4, FS_Subset, FS_CardinalityType

\* An assignment under another one with as many facts is the other one.
LEMMA UnderSame ==
  ASSUME NEW F, IsFiniteSet(F), NEW s \in Assignments(F), NEW t \in Assignments(F),
         Under(s, t)
  PROVE  /\ Cardinality(FactsIn(s, F)) <= Cardinality(FactsIn(t, F))
         /\ Cardinality(FactsIn(s, F)) = Cardinality(FactsIn(t, F)) => s = t
<1>1. /\ s.ins \in [Blocks -> SUBSET F] /\ s.outs \in [Blocks -> SUBSET F]
      /\ t.ins \in [Blocks -> SUBSET F] /\ t.outs \in [Blocks -> SUBSET F]
      /\ s = [ins |-> s.ins, outs |-> s.outs] /\ t = [ins |-> t.ins, outs |-> t.outs]
  BY DEF Assignments
<1>2. FactsIn(s, F) \in SUBSET FactsIn(t, F)
  <2> SUFFICES ASSUME NEW x \in FactsIn(s, F) PROVE x \in FactsIn(t, F)
    OBVIOUS
  <2>1. x \in AllFacts(F) /\ x[1][1] \in Blocks
    BY DEF FactsIn, AllFacts
  <2> QED
    BY <2>1 DEF FactsIn, Under
<1>3. IsFiniteSet(FactsIn(t, F))
  BY FactsInFinite
<1>4. /\ Cardinality(FactsIn(s, F)) <= Cardinality(FactsIn(t, F))
      /\ Cardinality(FactsIn(s, F)) = Cardinality(FactsIn(t, F))
           => FactsIn(s, F) = FactsIn(t, F)
  BY <1>2, <1>3, FS_Subset
<1>5. ASSUME FactsIn(s, F) = FactsIn(t, F) PROVE s = t
  <2>1. ASSUME NEW b \in Blocks, NEW x \in F
        PROVE  (x \in s.ins[b] <=> x \in t.ins[b]) /\ (x \in s.outs[b] <=> x \in t.outs[b])
    <3> DEFINE i == <<<<b, x>>, "ins">>
               o == <<<<b, x>>, "outs">>
    <3>1. /\ i \in AllFacts(F) /\ i[2] = "ins" /\ i[1][1] = b /\ i[1][2] = x
          /\ o \in AllFacts(F) /\ o[2] = "outs" /\ o[1][1] = b /\ o[1][2] = x
      BY DEF AllFacts
    <3> HIDE DEF i, o
    <3>2. /\ i \in FactsIn(s, F) <=> x \in s.ins[b]
          /\ i \in FactsIn(t, F) <=> x \in t.ins[b]
          /\ o \in FactsIn(s, F) <=> x \in s.outs[b]
          /\ o \in FactsIn(t, F) <=> x \in t.outs[b]
      BY <3>1 DEF FactsIn
    <3> QED
      BY <3>2, <1>5
  <2>2. \A b \in Blocks : s.ins[b] = t.ins[b] /\ s.outs[b] = t.outs[b]
    BY <2>1, <1>1
  <2>3. s.ins = t.ins /\ s.outs = t.outs
    BY <2>2, <1>1
  <2> QED
    BY <2>3, <1>1
<1> QED
  BY <1>4, <1>5

-----------------------------------------------------------------------------
\* LeastSolution is a fixed point of the sweep in the orbit of the empty facts.
LEMMA LeastSolutionInOrbit ==
  ASSUME NEW F, IsFiniteSet(F), NEW p, IsProblem(p, F), IsMonotone(p, F)
  PROVE  LET S == Assignments(F)
             g == [s \in S |-> Sweep(p, s)]
         IN  /\ NoFacts \in S
             /\ LeastSolution(p, F) \in Orbit(S, g, NoFacts)
             /\ Sweep(p, LeastSolution(p, F)) = LeastSolution(p, F)
<1> DEFINE S == Assignments(F)
           g == [s \in S |-> Sweep(p, s)]
           O == Orbit(S, g, NoFacts)
           size(s) == Cardinality(FactsIn(s, F))
           m == Cardinality(AllFacts(F))
           left == {m - size(s) : s \in O}
<1>1. NoFacts \in S
  BY DEF NoFacts, Assignments
<1>2. g \in [S -> S] /\ \A s \in S : g[s] = Sweep(p, s)
  BY SweepIs
<1> HIDE DEF g
<1>3. NoFacts \in O /\ O \subseteq S /\ \A s \in O : g[s] \in O
  <2>1. O \subseteq S
    BY DEF Orbit
  <2> QED
    BY <2>1, <1>1, <1>2, OrbitProps
<1>4. \A s \in O : Under(s, g[s])
  <2> DEFINE C == {s \in S : Under(s, g[s])}
  <2>1. NoFacts \in C
    <3>1. \A b \in Blocks : NoFacts.ins[b] = {} /\ NoFacts.outs[b] = {}
      BY DEF NoFacts
    <3> QED
      BY <3>1, <1>1 DEF Under
  <2>2. ASSUME NEW s \in C PROVE g[s] \in C
    <3>1. s \in S /\ g[s] \in S /\ g[g[s]] \in S /\ Under(s, g[s])
      BY <1>2
    <3>2. Under(Sweep(p, s), Sweep(p, g[s]))
      BY <3>1, SweepMonotone
    <3>3. g[s] = Sweep(p, s) /\ g[g[s]] = Sweep(p, g[s])
      BY <1>2, <3>1
    <3> QED
      BY <3>1, <3>2, <3>3
  <2> HIDE DEF C
  <2>3. C \in SUBSET S
    BY DEF C
  <2>4. O \subseteq C
    BY <2>1, <2>2, <2>3 DEF Orbit
  <2> QED
    BY <2>4 DEF C
<1>5. PICK y \in O : \A s \in O : size(s) <= size(y)
  <2>1. m \in Nat /\ \A s : size(s) \in Nat /\ size(s) <= m
    BY FactsInFinite
  <2> HIDE DEF O, size, m
  <2>2. left \in SUBSET Nat /\ left # {}
    BY <2>1, <1>3
  <2>3. PICK x \in left : \A z \in left : x <= z
    BY <2>2, NatMin
  <2>4. PICK y \in O : x = m - size(y)
    OBVIOUS
  <2>5. ASSUME NEW s \in O PROVE size(s) <= size(y)
    <3>1. m - size(y) <= m - size(s)
      BY <2>3, <2>4
    <3> QED
      BY <3>1, <2>1
  <2> QED
    BY <2>5
<1>6. g[y] = y
  <2>1. y \in S /\ g[y] \in S /\ g[y] \in O /\ Under(y, g[y])
    BY <1>2, <1>3, <1>4
  <2>2. /\ size(y) <= size(g[y])
        /\ size(y) = size(g[y]) => y = g[y]
    BY <2>1, UnderSame
  <2>3. size(g[y]) <= size(y) /\ size(y) \in Nat /\ size(g[y]) \in Nat
    BY <2>1, <1>5, FactsInFinite
  <2> HIDE DEF size
  <2> QED
    BY <2>2, <2>3
<1> DEFINE settle == CHOOSE f : f = [s \in S |-> IF Sweep(p, s) = s THEN s ELSE f[Sweep(p, s)]]
<1>7. LeastSolution(p, F) = settle[NoFacts]
  BY DEF LeastSolution
<1>8. settle = [s \in S |-> IF g[s] = s THEN s ELSE settle[g[s]]]
  <2>1. \E f : f = [s \in S |-> IF g[s] = s THEN s ELSE f[g[s]]]
    BY <1>2, SettlingExists
  <2>2. \A f : [s \in S |-> IF g[s] = s THEN s ELSE f[g[s]]]
                = [s \in S |-> IF Sweep(p, s) = s THEN s ELSE f[Sweep(p, s)]]
    BY <1>2
  <2>3. \E f : f = [s \in S |-> IF Sweep(p, s) = s THEN s ELSE f[Sweep(p, s)]]
    BY <2>1, <2>2
  <2>4. settle = [s \in S |-> IF Sweep(p, s) = s THEN s ELSE settle[Sweep(p, s)]]
    BY <2>3
  <2> HIDE DEF settle
  <2> QED
    BY <2>2, <2>4
<1> HIDE DEF settle, S
<1>9. settle[NoFacts] = y
  BY <1>1, <1>2, <1>5, <1>6, <1>8, SettlingEnds
<1>10. Sweep(p, y) = y
  BY <1>2, <1>3, <1>5, <1>6
<1> QED
  BY <1>1, <1>5, <1>7, <1>9, <1>10 DEF S, g
-----------------------------------------------------------------------------
\* What an analysis relies on: the equations hold at every block, the
\* unreachable ones included.
THEOREM LeastSolutionSolves ==
  ASSUME NEW F, IsFiniteSet(F), NEW p, IsProblem(p, F), IsMonotone(p, F), NEW b \in Blocks
  PROVE  LET s == LeastSolution(p, F)
         IN  /\ s \in Assignments(F)
             /\ s.ins[b] \in SUBSET F /\ s.outs[b] \in SUBSET F
             /\ IF p.direction = "Forward"
                THEN /\ s.ins[b] = FromPreds(p, s.outs, b) \cup SeedAt(p, b)
                     /\ s.outs[b] = p.transfer[b][s.ins[b]]
                ELSE /\ s.outs[b] = FromSuccs(p, s.ins, b)
                     /\ s.ins[b] = p.transfer[b][s.outs[b]] \cup SeedAt(p, b)
<1> DEFINE s == LeastSolution(p, F)
<1>1. s \in Assignments(F) /\ Sweep(p, s) = s
  BY LeastSolutionInOrbit DEF Orbit
<1> HIDE DEF s
<1>2. s.ins[b] \in SUBSET F /\ s.outs[b] \in SUBSET F
  BY <1>1 DEF Assignments
<1>3. IF p.direction = "Forward"
      THEN /\ s.ins[b] = FromPreds(p, s.outs, b) \cup SeedAt(p, b)
           /\ s.outs[b] = p.transfer[b][s.ins[b]]
      ELSE /\ s.outs[b] = FromSuccs(p, s.ins, b)
           /\ s.ins[b] = p.transfer[b][s.outs[b]] \cup SeedAt(p, b)
  BY <1>1, SweepIs
<1> QED
  BY <1>1, <1>2, <1>3 DEF s

\* No assignment that a sweep does not add to holds less.
THEOREM LeastSolutionIsLeast ==
  ASSUME NEW F, IsFiniteSet(F), NEW p, IsProblem(p, F), IsMonotone(p, F),
         NEW t \in Assignments(F), Under(Sweep(p, t), t)
  PROVE  Under(LeastSolution(p, F), t)
<1> DEFINE S == Assignments(F)
           g == [s \in S |-> Sweep(p, s)]
           C == {s \in S : Under(s, t)}
<1>1. NoFacts \in C
  <2>1. \A b \in Blocks : NoFacts.ins[b] = {} /\ NoFacts.outs[b] = {}
    BY DEF NoFacts
  <2>2. NoFacts \in S
    BY LeastSolutionInOrbit
  <2> QED
    BY <2>1, <2>2 DEF Under
<1>2. ASSUME NEW s \in C PROVE g[s] \in C
  <2>1. s \in S /\ Sweep(p, s) \in S /\ Sweep(p, t) \in S /\ g[s] = Sweep(p, s)
    BY SweepIs
  <2>2. Under(Sweep(p, s), Sweep(p, t))
    BY <2>1, SweepMonotone
  <2>3. Under(Sweep(p, s), t)
    BY <2>2 DEF Under
  <2> QED
    BY <2>1, <2>3
<1>3. LeastSolution(p, F) \in Orbit(S, g, NoFacts)
  BY LeastSolutionInOrbit
<1> HIDE DEF g
<1>4. C \in SUBSET S
  OBVIOUS
<1>5. LeastSolution(p, F) \in C
  <2> HIDE DEF C
  <2> QED
    BY <1>1, <1>2, <1>3, <1>4 DEF Orbit
<1> QED
  BY <1>5
===============================================================================
