----------------------------- MODULE AppendOnly -----------------------------
(***************************************************************************)
(* What an append-only store that is filled through a shared reference     *)
(* promises: every call takes effect at one moment, elements are only      *)
(* added at the end, and what is read of an index is what was put there.   *)
(***************************************************************************)
EXTENDS Integers, Sequences

CONSTANTS Elems, None

VARIABLES
  elems,   \* the elements, in the order of their arrival
  result   \* what the last call to return has returned

vars == <<elems, result>>

Lookup(i) == IF i < Len(elems) THEN elems[i + 1] ELSE None

At(i, v) == [at |-> i, item |-> v]
Number(n) == [number |-> n]
All(s) == [all |-> s]

Init == elems = <<>> /\ result = At(0, None)

Returns(r) == result' = r

Push(e) == elems' = Append(elems, e) /\ UNCHANGED result

(* Of any index: the step says of which, so that no set of indices is named. *)
Get ==
  /\ "at" \in DOMAIN result'
  /\ result'.at \in Nat
  /\ Returns(At(result'.at, Lookup(result'.at)))
  /\ UNCHANGED elems

Count == Returns(Number(Len(elems))) /\ UNCHANGED elems

(* The owner takes the elements out, all of them and in order. *)
Consume == Returns(All(elems)) /\ elems' = <<>>

(* The owner drops the store with what is in it. *)
Discard == elems' = <<>> /\ UNCHANGED result

Next ==
  \/ \E e \in Elems : Push(e)
  \/ Get
  \/ Count
  \/ Consume
  \/ Discard

Spec == Init /\ [][Next]_vars
=============================================================================
