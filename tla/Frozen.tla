------------------------------- MODULE Frozen -------------------------------
(***************************************************************************)
(* The store under every table of the compiler (common/frozen.rs,          *)
(* common/arena.rs): buckets of a fixed size, filled through a shared      *)
(* reference. A critical section of the mutex is one action; the length    *)
(* and the lookup each take two of them, an insertion three.               *)
(***************************************************************************)
EXTENDS Integers, Sequences

CONSTANTS
  Threads,
  Elems,
  BucketSize,
  Indices,     \* the indices asked for
  MaxElems,    \* bound: no insertion begins once the store holds so many
  None,        \* Option::None
  Uninit       \* a cell nobody has written

ASSUME FrozenAssumption ==
  /\ BucketSize \in Nat \ {0}
  /\ MaxElems \in Nat
  /\ Indices \subseteq Nat
  /\ Uninit \notin Elems
  /\ None \notin Elems

VARIABLES
  data,      \* the buckets, each with its cells; a bucket never moves
  nextCell,  \* next_bucket_idx, the first free cell of the last bucket
  taking,    \* how far the owner has come in taking the elements out
  call,      \* what each thread is in the middle of
  result,    \* what the last call to return has returned
  cursor,    \* the FrozenIter of each thread
  seen,      \* history: what its loop has yielded
  floor      \* history: how many elements there were when it began

store == <<data, nextCell, taking>>
loops == <<cursor, seen, floor>>
vars == <<data, nextCell, taking, call, result, cursor, seen, floor>>

Offsets == 0 .. BucketSize - 1
Idle == [at |-> "idle"]
At(i, v) == [at |-> i, item |-> v]
Number(n) == [number |-> n]
All(s) == [all |-> s]
NoLoop == [on |-> FALSE, bucket |-> 0, item |-> 0]
NotTaking == [on |-> FALSE, buckets |-> 0, res |-> <<>>]
Taking(n, s) == [on |-> TRUE, buckets |-> n, res |-> s]

\* Mutant: one bucket counts as none, whatever is in it.
IsEmptyByBuckets == Len(data) <= 1
IsEmpty == data = <<>> \/ (Len(data) = 1 /\ nextCell = 0)

(* What len computes when is_empty said no. *)
LenUnderLock == nextCell + (Len(data) - 1) * BucketSize

\* Mutant: off by one at the end of the last bucket.
GetOnePast(idx) ==
  LET bucket == idx \div BucketSize
      item == idx - bucket * BucketSize
  IN  IF bucket >= Len(data) \/ (bucket = Len(data) - 1 /\ item > nextCell)
      THEN None
      ELSE data[bucket + 1][item]

(* What get computes when is_empty said no. *)
GetUnderLock(idx) ==
  LET bucket == idx \div BucketSize
      item == idx - bucket * BucketSize
  IN  IF bucket >= Len(data) \/ (bucket = Len(data) - 1 /\ item >= nextCell)
      THEN None
      ELSE data[bucket + 1][item]

(* The abstract contents: the cells in order, up to the first free one. *)
Size == IF data = <<>> THEN 0 ELSE LenUnderLock
Contents ==
  [k \in 1 .. Size |-> data[(k - 1) \div BucketSize + 1][(k - 1) % BucketSize]]

-----------------------------------------------------------------------------
Init ==
  /\ data = <<>>
  /\ nextCell = 0
  /\ taking = NotTaking
  /\ call = [t \in Threads |-> Idle]
  /\ result = At(0, None)
  /\ cursor = [t \in Threads |-> NoLoop]
  /\ seen = [t \in Threads |-> <<>>]
  /\ floor = [t \in Threads |-> 0]

Enters(t, c) == call' = [call EXCEPT ![t] = c]
Returns(r) == result' = r

\* A thread may begin a call, unless the store belongs to its owner alone.
MayCall(t) == call[t] = Idle /\ ~ taking.on

(* Frozen::push. Another thread that is about to push has its index stale. *)
\* Mutant: a bucket one cell early.
NeedsBucketEarly == data = <<>> \/ nextCell = BucketSize - 1
NeedsBucket == data = <<>> \/ nextCell = BucketSize
FreshBucket == [i \in Offsets |-> Uninit]
FreeCell == IF NeedsBucket THEN 0 ELSE nextCell
WithRoom == IF NeedsBucket THEN Append(data, FreshBucket) ELSE data

PushItem(e) ==
  /\ data' = [WithRoom EXCEPT ![Len(WithRoom)] = [@ EXCEPT ![FreeCell] = e]]
  /\ nextCell' = FreeCell + 1

(* Frozen::get *)
BeginGet(t, i) ==
  /\ MayCall(t)
  /\ IF IsEmpty THEN Returns(At(i, None)) /\ UNCHANGED call
                ELSE Enters(t, [at |-> "get", idx |-> i]) /\ UNCHANGED result
  /\ UNCHANGED <<store, loops>>

EndGet(t) ==
  /\ call[t].at = "get"
  /\ Returns(At(call[t].idx, GetUnderLock(call[t].idx)))
  /\ Enters(t, Idle)
  /\ UNCHANGED <<store, loops>>

(* Frozen::len *)
BeginLen(t) ==
  /\ MayCall(t)
  /\ IF IsEmpty THEN Returns(Number(0)) /\ UNCHANGED call
                ELSE Enters(t, [at |-> "len"]) /\ UNCHANGED result
  /\ UNCHANGED <<store, loops>>

EndLen(t) ==
  /\ call[t].at = "len"
  /\ Returns(Number(LenUnderLock))
  /\ Enters(t, Idle)
  /\ UNCHANGED <<store, loops>>

(* Arena::insert takes the length for an index, then pushes. *)
Inserting(e, i) == [at |-> "push", item |-> e, id |-> i, raced |-> FALSE]

BeginInsert(t, e) ==
  /\ MayCall(t)
  /\ Size < MaxElems
  /\ Enters(t, IF IsEmpty THEN Inserting(e, 0) ELSE [at |-> "insert", item |-> e])
  /\ UNCHANGED <<store, result, loops>>

InsertLen(t) ==
  /\ call[t].at = "insert"
  /\ Enters(t, Inserting(call[t].item, LenUnderLock))
  /\ UNCHANGED <<store, result, loops>>

InsertPush(t) ==
  /\ call[t].at = "push"
  /\ PushItem(call[t].item)
  /\ call' = [s \in Threads |->
                CASE s = t -> Idle
                  [] s # t /\ call[s].at = "push" -> [call[s] EXCEPT !.raced = TRUE]
                  [] OTHER -> call[s]]
  /\ UNCHANGED <<taking, result, loops>>

(* A loop over a shared reference (FrozenIter). It ends with its first None. *)
StartLoop(t) ==
  /\ MayCall(t)
  /\ cursor' = [cursor EXCEPT ![t] = [NoLoop EXCEPT !.on = TRUE]]
  /\ seen' = [seen EXCEPT ![t] = <<>>]
  /\ floor' = [floor EXCEPT ![t] = Size]
  /\ UNCHANGED <<store, call, result>>

Position(t) == cursor[t].item + cursor[t].bucket * BucketSize

\* Mutant: the cursor moves to the next bucket one step late.
AdvancedLate(c) ==
  IF c.item >= BucketSize
  THEN [c EXCEPT !.item = 0, !.bucket = c.bucket + 1]
  ELSE [c EXCEPT !.item = c.item + 1]

Advanced(c) ==
  IF c.item + 1 >= BucketSize
  THEN [c EXCEPT !.item = 0, !.bucket = c.bucket + 1]
  ELSE [c EXCEPT !.item = c.item + 1]

Yields(t, v) ==
  /\ Returns(At(Position(t), v))
  /\ IF v = None
     THEN cursor' = [cursor EXCEPT ![t].on = FALSE] /\ UNCHANGED seen
     ELSE /\ cursor' = [cursor EXCEPT ![t] = Advanced(@)]
          /\ seen' = [seen EXCEPT ![t] = Append(@, v)]

BeginNext(t) ==
  /\ MayCall(t)
  /\ cursor[t].on
  /\ IF IsEmpty
     THEN Yields(t, None) /\ UNCHANGED call
     ELSE Enters(t, [at |-> "next"]) /\ UNCHANGED <<result, cursor, seen>>
  /\ UNCHANGED <<store, floor>>

EndNext(t) ==
  /\ call[t].at = "next"
  /\ Yields(t, GetUnderLock(Position(t)))
  /\ Enters(t, Idle)
  /\ UNCHANGED <<store, floor>>

(* The owner of the store may take it apart when nobody is using it. *)
Unused == \A s \in Threads : call[s] = Idle
Emptied ==
  /\ data' = <<>>
  /\ nextCell' = 0
  /\ cursor' = [s \in Threads |-> NoLoop]
  /\ seen' = [s \in Threads |-> <<>>]
  /\ floor' = [s \in Threads |-> 0]

(* The cells of a bucket that have been written. *)
CellsOfBucket(b) == IF b = Len(data) THEN nextCell ELSE BucketSize

(* Frozen::into_iter moves the buckets out of the mutex and goes through    *)
(* them. The vector it collects is reversed, and the iterator pops from its *)
(* end.                                                                     *)
BeginConsume ==
  /\ Unused
  /\ ~ taking.on
  /\ IF data = <<>>
     THEN Returns(All(<<>>)) /\ Emptied /\ UNCHANGED taking
     ELSE taking' = Taking(0, <<>>) /\ UNCHANGED <<data, nextCell, result, loops>>
  /\ UNCHANGED call

TakenOf(b) == [k \in 1 .. CellsOfBucket(b) |-> data[b][k - 1]]

TakeBucket ==
  /\ taking.on
  /\ taking.buckets < Len(data)
  /\ taking' = Taking(taking.buckets + 1, taking.res \o TakenOf(taking.buckets + 1))
  /\ UNCHANGED <<data, nextCell, call, result, loops>>

EndConsume ==
  /\ taking.on
  /\ taking.buckets = Len(data)
  /\ Returns(All(taking.res))
  /\ Emptied
  /\ taking' = NotTaking
  /\ UNCHANGED call

(* Frozen::drop: the cells it frees. *)
Freed == {at \in (1 .. Len(data)) \X Offsets : at[2] < CellsOfBucket(at[1])}

Drop ==
  /\ Unused
  /\ ~ taking.on
  /\ Emptied
  /\ UNCHANGED <<taking, call, result>>

Step(t) ==
  \/ \E i \in Indices : BeginGet(t, i)
  \/ EndGet(t)
  \/ BeginLen(t)
  \/ EndLen(t)
  \/ \E e \in Elems : BeginInsert(t, e)
  \/ InsertLen(t)
  \/ InsertPush(t)
  \/ StartLoop(t)
  \/ BeginNext(t)
  \/ EndNext(t)

Owner == BeginConsume \/ TakeBucket \/ EndConsume \/ Drop

Next == (\E t \in Threads : Step(t)) \/ Owner

Spec == Init /\ [][Next]_vars

-----------------------------------------------------------------------------
(* What Drop would free now (frozen.rs:143-157) is what holds an element,   *)
(* and only that: nothing is leaked, or freed before it is written.         *)
DropFreesWhatWasWritten ==
  Freed = {at \in (1 .. Len(data)) \X Offsets : data[at[1]][at[2]] # Uninit}

(* The index Arena::insert hands out is the one its element gets            *)
(* (arena.rs:89-93), unless another thread pushed in between.               *)
InsertNamesItsElement ==
  \A t \in Threads :
    call[t].at = "push" => call[t].id <= Size /\ (~ call[t].raced => call[t].id = Size)

(* A loop over a store that is being filled yields its elements in order,   *)
(* each once, and ends only when it has yielded all that were there when it *)
(* began (FrozenIter::next, 162-170).                                       *)
LoopsSeeEverything ==
  \A t \in Threads :
    /\ Len(seen[t]) <= Size
    /\ \A k \in 1 .. Len(seen[t]) : seen[t][k] = Contents[k]
    /\ ~ cursor[t].on => Len(seen[t]) >= floor[t]

(* Every call takes effect at one moment: the store is an append-only       *)
(* sequence, whatever the bucket size.                                      *)
Abstract == INSTANCE AppendOnly WITH elems <- Contents
ImplementsAppendOnly == Abstract!Spec
=============================================================================
