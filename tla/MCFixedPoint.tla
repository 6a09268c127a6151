---------------------------- MODULE MCFixedPoint ----------------------------
(***************************************************************************)
(* Every graph on three blocks (the fourth stands alone) with six choices  *)
(* of transfer functions, in both directions, with and without a seed; and *)
(* graphs of four blocks, with nested and entangled loops, for one choice. *)
(***************************************************************************)
EXTENDS RpoRanks

CONSTANTS b1, b2, b3, b4, f

MCBlocks == {b1, b2, b3, b4}
MCFacts == {f}

UpToTwo(S) == {T \in SUBSET S : Cardinality(T) <= 2}

SmallGraphs ==
  {[entry |-> b1, succs |-> (b1 :> x @@ b2 :> y @@ b3 :> z @@ b4 :> {})] :
     x \in UpToTwo({b2, b3}), y, z \in UpToTwo({b1, b2, b3})}

LargeGraphs ==
  {[entry |-> b1, succs |-> (b1 :> x @@ b2 :> y @@ b3 :> z @@ b4 :> w)] :
     x \in {{b2}, {b2, b3}}, y \in UpToTwo({b1, b3, b4}),
     z \in SUBSET {b2, b4}, w \in {{}, {b2}, {b3}}}

\* Keep, generate, kill, and one that is not monotone.
Keep == [X \in SUBSET MCFacts |-> X]
Gen == [X \in SUBSET MCFacts |-> MCFacts]
Kill == [X \in SUBSET MCFacts |-> {}]
Flip == [X \in SUBSET MCFacts |-> MCFacts \ X]

Transfers(T1, T2, T3) ==
  {(b1 :> t1 @@ b2 :> t2 @@ b3 :> t3 @@ b4 :> Keep) : t1 \in T1, t2 \in T2, t3 \in T3}

MCProblems ==
  [ graph : SmallGraphs,
    direction : {"Forward", "Backward"},
    seed : SUBSET MCFacts,
    transfer : Transfers({Keep}, {Keep, Kill, Flip}, {Keep, Gen}) ]
  \cup
  [ graph : LargeGraphs,
    direction : {"Forward"},
    seed : {{}},
    transfer : Transfers({Gen}, {Keep}, {Kill}) ]
=============================================================================
