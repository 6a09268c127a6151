----------------------------- MODULE FrozenProofs -----------------------------
(***************************************************************************)
(* The properties of Frozen, for any number of threads and elements and    *)
(* any size of the buckets.                                                *)
(***************************************************************************)
EXTENDS Frozen, SequenceTheorems, TLAPS

Bucket == [Offsets -> Elems \cup {Uninit}]

StoreOK ==
  /\ data \in Seq(Bucket)
  /\ nextCell \in 0 .. BucketSize
  /\ data = <<>> => nextCell = 0

Written ==
  \A b \in 1 .. Len(data) : \A i \in Offsets : data[b][i] # Uninit <=> i < CellsOfBucket(b)

-----------------------------------------------------------------------------
LEMMA DivMod ==
  ASSUME NEW n \in Nat
  PROVE  /\ n \div BucketSize \in Nat
         /\ n % BucketSize \in Offsets
         /\ n = (n \div BucketSize) * BucketSize + (n % BucketSize)
         /\ n - (n \div BucketSize) * BucketSize = n % BucketSize
BY FrozenAssumption DEF Offsets

LEMMA DivOf ==
  ASSUME NEW q \in Nat, NEW r \in Offsets
  PROVE  /\ (q * BucketSize + r) \div BucketSize = q
         /\ (q * BucketSize + r) % BucketSize = r
BY FrozenAssumption, Z3 DEF Offsets

LEMMA FartherBucket ==
  ASSUME NEW p \in Nat, NEW q \in Nat, p < q
  PROVE  p * BucketSize + BucketSize <= q * BucketSize
BY FrozenAssumption

LEMMA SizeOK ==
  ASSUME StoreOK
  PROVE  /\ Size \in Nat
         /\ data # <<>> => Size = nextCell + (Len(data) - 1) * BucketSize
         /\ data = <<>> => Size = 0
<1>1. CASE data = <<>>
  BY <1>1 DEF Size
<1>2. CASE data # <<>>
  <2>1. Len(data) - 1 \in Nat
    BY <1>2 DEF StoreOK
  <2>2. (Len(data) - 1) * BucketSize \in Nat
    BY <2>1, FrozenAssumption
  <2> QED
    BY <1>2, <2>2, FrozenAssumption DEF Size, LenUnderLock, StoreOK
<1> QED
  BY <1>1, <1>2

\* Which indices are in the store, and where.
LEMMA Where ==
  ASSUME StoreOK, data # <<>>, NEW n \in Nat
  PROVE  n < Size <=> \/ n \div BucketSize < Len(data) - 1
                      \/ n \div BucketSize = Len(data) - 1 /\ n % BucketSize < nextCell
<1> DEFINE q == n \div BucketSize
           r == n % BucketSize
           last == Len(data) - 1
<1>1. q \in Nat /\ r \in Offsets /\ n = q * BucketSize + r
  BY DivMod
<1>2. last \in Nat /\ Size = nextCell + last * BucketSize
  BY SizeOK DEF StoreOK
<1>3. nextCell \in 0 .. BucketSize
  BY DEF StoreOK
<1> HIDE DEF q, r, last
<1>4. q < last => n < Size
  BY <1>1, <1>2, <1>3, FartherBucket, FrozenAssumption DEF Offsets
<1>5. q = last => (n < Size <=> r < nextCell)
  BY <1>1, <1>2, <1>3, FrozenAssumption DEF Offsets
<1>6. last < q => ~(n < Size)
  BY <1>1, <1>2, <1>3, FartherBucket, FrozenAssumption DEF Offsets
<1>7. n < Size <=> q < last \/ (q = last /\ r < nextCell)
  BY <1>1, <1>2, <1>4, <1>5, <1>6
<1> QED
  BY <1>7 DEF q, r, last

\* What a lookup finds, in the abstract contents.
LEMMA Lookup ==
  ASSUME StoreOK, data # <<>>, NEW n \in Nat
  PROVE  GetUnderLock(n) = IF n < Size THEN Contents[n + 1] ELSE None
<1>1. n - (n \div BucketSize) * BucketSize = n % BucketSize
  BY DivMod
<1>2. /\ n \div BucketSize \in Nat /\ n % BucketSize \in Nat
      /\ Len(data) \in Nat /\ nextCell \in Nat
  <2>1. n \div BucketSize \in Nat /\ n % BucketSize \in Nat
    BY DivMod, FrozenAssumption DEF Offsets
  <2>2. Len(data) \in Nat /\ nextCell \in Nat
    BY FrozenAssumption DEF StoreOK
  <2> QED
    BY <2>1, <2>2
<1>3. CASE n < Size
  <2>1. n + 1 \in 1 .. Size /\ (n + 1) - 1 = n
    BY <1>3, SizeOK
  <2>2. Contents[n + 1] = data[n \div BucketSize + 1][n % BucketSize]
    BY <2>1 DEF Contents
  <2>3. ~(n \div BucketSize >= Len(data) \/ (n \div BucketSize = Len(data) - 1 /\ n % BucketSize >= nextCell))
    BY <1>2, <1>3, Where
  <2> QED
    BY <1>1, <1>3, <2>2, <2>3 DEF GetUnderLock
<1>4. CASE ~(n < Size)
  <2>1. n \div BucketSize >= Len(data) \/ (n \div BucketSize = Len(data) - 1 /\ n % BucketSize >= nextCell)
    BY <1>2, <1>4, Where
  <2> QED
    BY <1>1, <1>4, <2>1 DEF GetUnderLock
<1> QED
  BY <1>3, <1>4

\* What a call finds before it has the lock.
LEMMA EmptyOrNot ==
  ASSUME StoreOK
  PROVE  /\ IsEmpty => Size = 0
         /\ ~ IsEmpty => data # <<>>
         /\ data # <<>> => LenUnderLock = Size
<1>1. CASE data = <<>>
  BY <1>1 DEF IsEmpty, Size
<1>2. CASE data # <<>>
  <2>1. Len(data) = 1 => (Len(data) - 1) * BucketSize = 0
    BY FrozenAssumption
  <2> QED
    BY <1>2, <2>1 DEF IsEmpty, Size, LenUnderLock
<1> QED
  BY <1>1, <1>2

\* Every index below the size holds an element.
LEMMA ContentsOK ==
  ASSUME StoreOK, Written
  PROVE  /\ Contents \in Seq(Elems) /\ Len(Contents) = Size
         /\ \A k \in 1 .. Size : Contents[k] \in Elems
<1>1. Size \in Nat
  BY SizeOK
<1>2. ASSUME NEW k \in 1 .. Size
      PROVE  Contents[k] \in Elems
  <2> DEFINE q == (k - 1) \div BucketSize
             r == (k - 1) % BucketSize
  <2>1. k - 1 \in Nat /\ k - 1 < Size /\ data # <<>>
    BY <1>1, SizeOK
  <2>2. q \in Nat /\ r \in Offsets
    BY <2>1, DivMod
  <2>3. q < Len(data) - 1 \/ (q = Len(data) - 1 /\ r < nextCell)
    BY <2>1, Where
  <2>4. Contents[k] = data[q + 1][r]
    BY DEF Contents
  <2> HIDE DEF q, r
  <2>5. q + 1 \in 1 .. Len(data) /\ (q + 1 = Len(data) => r < nextCell)
    BY <2>2, <2>3 DEF StoreOK
  <2>6. r < CellsOfBucket(q + 1)
    BY <2>2, <2>5, FrozenAssumption DEF CellsOfBucket, Offsets
  <2>7. data[q + 1][r] # Uninit
    BY <2>2, <2>5, <2>6 DEF Written
  <2>8. data[q + 1] \in Bucket
    BY <2>5 DEF StoreOK
  <2> QED
    BY <2>2, <2>4, <2>7, <2>8 DEF Bucket
<1>3. Contents = [k \in 1 .. Size |-> Contents[k]]
  BY DEF Contents
<1>4. Contents \in Seq(Elems) /\ Len(Contents) = Size
  BY <1>1, <1>2, <1>3
<1> QED
  BY <1>2, <1>4

\* The contents, and whatever is asked of them, depend on the store alone.
LEMMA SameStore ==
  ASSUME UNCHANGED store
  PROVE  /\ Size' = Size /\ Contents' = Contents
         /\ StoreOK' = StoreOK /\ Written' = Written
BY DEF store, Size, LenUnderLock, Contents, StoreOK, Written, CellsOfBucket

-----------------------------------------------------------------------------
LEMMA FreshOK ==
  /\ FreshBucket \in Bucket
  /\ \A e \in Elems : [FreshBucket EXCEPT ![0] = e] \in Bucket
BY FrozenAssumption DEF FreshBucket, Bucket, Offsets

\* A sequence with its last element replaced.
LEMMA ReplaceLast ==
  ASSUME NEW S, NEW a \in Seq(S), NEW b \in Seq(S), NEW y \in S,
         Len(a) \in 1 .. Len(a), Len(b) = Len(a), b[Len(a)] = y,
         \A k \in 1 .. Len(a) - 1 : a[k] = b[k]
  PROVE  [a EXCEPT ![Len(a)] = y] = b
<1> DEFINE z == [a EXCEPT ![Len(a)] = y]
<1>1. /\ z \in Seq(S) /\ Len(z) = Len(a)
      /\ \A k \in 1 .. Len(a) : z[k] = IF k = Len(a) THEN y ELSE a[k]
  BY ExceptSeq
<1> HIDE DEF z
<1>2. \A k \in 1 .. Len(z) : z[k] = b[k]
  BY <1>1
<1>3. z = b
  BY <1>1, <1>2, SeqEqual
<1> QED
  BY <1>3 DEF z

LEMMA LastOfAppend ==
  ASSUME NEW S, NEW d \in Seq(S), NEW x \in S, NEW y \in S
  PROVE  /\ Append(d, x)[Len(Append(d, x))] = x
         /\ [Append(d, x) EXCEPT ![Len(Append(d, x))] = y] = Append(d, y)
<1> DEFINE a == Append(d, x)
           b == Append(d, y)
<1>1. /\ a \in Seq(S) /\ Len(a) = Len(d) + 1 /\ a[Len(d) + 1] = x
      /\ \A k \in 1 .. Len(d) : a[k] = d[k]
  BY AppendProperties
<1>2. /\ b \in Seq(S) /\ Len(b) = Len(d) + 1 /\ b[Len(d) + 1] = y
      /\ \A k \in 1 .. Len(d) : b[k] = d[k]
  BY AppendProperties
<1>3. Len(d) \in Nat
  OBVIOUS
<1> HIDE DEF a, b
<1>4. /\ Len(a) \in 1 .. Len(a) /\ Len(b) = Len(a) /\ b[Len(a)] = y
      /\ \A k \in 1 .. Len(a) - 1 : a[k] = b[k]
  BY <1>1, <1>2, <1>3
<1>5. [a EXCEPT ![Len(a)] = y] = b
  BY <1>1, <1>2, <1>4, ReplaceLast
<1> QED
  BY <1>1, <1>5 DEF a, b

\* The buckets before the one that gets the element.
OldBuckets == IF NeedsBucket THEN Len(data) ELSE Len(data) - 1

\* Where an element goes: into the free cell of the last bucket, or the first
\* cell of a new one.
LEMMA PushedInto ==
  ASSUME StoreOK, NEW e \in Elems, PushItem(e)
  PROVE  \/ /\ data # <<>> /\ nextCell \in Offsets
            /\ OldBuckets = Len(data) - 1 /\ FreeCell = nextCell
            /\ data' = [data EXCEPT ![Len(data)] = [@ EXCEPT ![nextCell] = e]]
            /\ nextCell' = nextCell + 1
         \/ /\ data = <<>> \/ nextCell = BucketSize
            /\ OldBuckets = Len(data) /\ FreeCell = 0
            /\ data' = Append(data, [FreshBucket EXCEPT ![0] = e])
            /\ nextCell' = 1
<1>1. CASE NeedsBucket
  <2>1. WithRoom = Append(data, FreshBucket) /\ FreeCell = 0
    BY <1>1 DEF WithRoom, FreeCell
  <2>2. Len(WithRoom) = Len(data) + 1
    BY <2>1 DEF StoreOK
  <2>3. data' = [WithRoom EXCEPT ![Len(WithRoom)] = [WithRoom[Len(WithRoom)] EXCEPT ![0] = e]]
    BY <2>1 DEF PushItem
  <2>4. data' = Append(data, [FreshBucket EXCEPT ![0] = e])
    <3> DEFINE new == [FreshBucket EXCEPT ![0] = e]
    <3>1. data \in Seq(Bucket) /\ FreshBucket \in Bucket /\ new \in Bucket
      BY FreshOK DEF StoreOK
    <3> HIDE DEF new
    <3>2. /\ WithRoom[Len(WithRoom)] = FreshBucket
          /\ \A y \in Bucket : [WithRoom EXCEPT ![Len(WithRoom)] = y] = Append(data, y)
      <4>1. ASSUME NEW y \in Bucket
            PROVE  /\ Append(data, FreshBucket)[Len(Append(data, FreshBucket))] = FreshBucket
                   /\ [Append(data, FreshBucket) EXCEPT ![Len(Append(data, FreshBucket))] = y] = Append(data, y)
        BY <3>1, LastOfAppend
      <4> QED
        BY <2>1, <3>1, <4>1, Zenon
    <3>3. [WithRoom EXCEPT ![Len(WithRoom)] = new] = Append(data, new)
      BY <3>1, <3>2
    <3> QED
      BY <2>3, <3>2, <3>3, Zenon DEF new
  <2> QED
    BY <1>1, <2>1, <2>4 DEF PushItem, NeedsBucket, OldBuckets
<1>2. CASE ~NeedsBucket
  <2>1. WithRoom = data /\ FreeCell = nextCell
    BY <1>2 DEF WithRoom, FreeCell
  <2>2. data # <<>> /\ nextCell \in Offsets
    BY <1>2, FrozenAssumption DEF NeedsBucket, StoreOK, Offsets
  <2> QED
    BY <1>2, <2>1, <2>2 DEF PushItem, OldBuckets
<1> QED
  BY <1>1, <1>2

\* The cell an element gets, and what happens to the others.
LEMMA PushedCells ==
  ASSUME StoreOK, Written, NEW e \in Elems, PushItem(e)
  PROVE  /\ OldBuckets \in Nat /\ FreeCell \in Offsets
         /\ data' \in Seq(Bucket) /\ Len(data') = OldBuckets + 1 /\ nextCell' = FreeCell + 1
         /\ Size = FreeCell + OldBuckets * BucketSize
         /\ data'[OldBuckets + 1][FreeCell] = e
         /\ Len(data) <= OldBuckets + 1
         /\ \A b \in 1 .. Len(data) : \A i \in Offsets :
              (b = OldBuckets + 1 /\ i = FreeCell) \/ data'[b][i] = data[b][i]
         /\ \A b \in 1 .. (OldBuckets + 1) : \A i \in Offsets :
              data'[b][i] # Uninit <=> i < (IF b = OldBuckets + 1 THEN FreeCell + 1 ELSE BucketSize)
<1>1. Len(data) \in Nat /\ e # Uninit
  BY FrozenAssumption DEF StoreOK
<1>2. CASE /\ data # <<>> /\ nextCell \in Offsets
           /\ OldBuckets = Len(data) - 1 /\ FreeCell = nextCell
           /\ data' = [data EXCEPT ![Len(data)] = [@ EXCEPT ![nextCell] = e]]
           /\ nextCell' = nextCell + 1
  <2> DEFINE new == [data[Len(data)] EXCEPT ![nextCell] = e]
  <2>1. OldBuckets \in Nat /\ Len(data) \in 1 .. Len(data) /\ OldBuckets + 1 = Len(data)
    BY <1>1, <1>2 DEF StoreOK
  <2>2. data[Len(data)] \in Bucket
    BY <2>1 DEF StoreOK
  <2>3. /\ new \in Bucket /\ new[nextCell] = e
        /\ \A i \in Offsets : i # nextCell => new[i] = data[Len(data)][i]
    BY <1>2, <2>2 DEF Bucket
  <2> HIDE DEF new
  <2>4. data' = [data EXCEPT ![Len(data)] = new]
    BY <1>2 DEF new
  <2>5. /\ data' \in Seq(Bucket) /\ Len(data') = Len(data)
        /\ \A b \in 1 .. Len(data) : data'[b] = IF b = Len(data) THEN new ELSE data[b]
    BY <2>1, <2>3, <2>4, ExceptSeq DEF StoreOK
  <2>6. Size = nextCell + OldBuckets * BucketSize
    BY <1>2, SizeOK
  <2>7. \A b \in 1 .. Len(data) : \A i \in Offsets :
          data[b][i] # Uninit <=> i < (IF b = Len(data) THEN nextCell ELSE BucketSize)
    BY DEF Written, CellsOfBucket
  <2>8. \A b \in 1 .. (OldBuckets + 1) : \A i \in Offsets :
          data'[b][i] # Uninit <=> i < (IF b = OldBuckets + 1 THEN nextCell + 1 ELSE BucketSize)
    <3>1. SUFFICES ASSUME NEW b \in 1 .. (OldBuckets + 1), NEW i \in Offsets
                   PROVE  data'[b][i] # Uninit <=> i < (IF b = OldBuckets + 1 THEN nextCell + 1 ELSE BucketSize)
      OBVIOUS
    <3>2. CASE b = OldBuckets + 1 /\ i = nextCell
      <4>1. data'[b][i] = e
        BY <2>1, <2>3, <2>5, <3>2
      <4> QED
        BY <1>1, <1>2, <3>2, <4>1, FrozenAssumption DEF Offsets
    <3>3. CASE b = OldBuckets + 1 /\ i # nextCell
      <4>1. data'[b][i] = data[b][i] /\ (data[b][i] # Uninit <=> i < nextCell)
        BY <2>1, <2>3, <2>5, <2>7, <3>3
      <4> QED
        BY <1>2, <3>3, <4>1, FrozenAssumption DEF Offsets
    <3>4. CASE b # OldBuckets + 1
      BY <2>1, <2>5, <2>7, <3>4
    <3> QED
      BY <3>2, <3>3, <3>4
  <2>9. \A b \in 1 .. Len(data) : \A i \in Offsets :
          (b = OldBuckets + 1 /\ i = nextCell) \/ data'[b][i] = data[b][i]
    BY <2>1, <2>3, <2>5
  <2>10. Len(data) <= OldBuckets + 1 /\ data'[OldBuckets + 1][nextCell] = e
    BY <2>1, <2>3, <2>5
  <2> QED
    BY <1>2, <2>1, <2>5, <2>6, <2>8, <2>9, <2>10, Zenon
<1>3. CASE /\ data = <<>> \/ nextCell = BucketSize
           /\ OldBuckets = Len(data) /\ FreeCell = 0
           /\ data' = Append(data, [FreshBucket EXCEPT ![0] = e])
           /\ nextCell' = 1
  <2> DEFINE new == [FreshBucket EXCEPT ![0] = e]
  <2>1. /\ new \in Bucket /\ new[0] = e /\ 0 \in Offsets
        /\ \A i \in Offsets : i # 0 => new[i] = Uninit
    BY FrozenAssumption DEF FreshBucket, Bucket, Offsets
  <2> HIDE DEF new
  <2>2. data' = Append(data, new)
    BY <1>3 DEF new
  <2>3. /\ data' \in Seq(Bucket) /\ Len(data') = OldBuckets + 1 /\ data'[OldBuckets + 1] = new
        /\ \A b \in 1 .. OldBuckets : data'[b] = data[b]
    BY <1>3, <2>1, <2>2, AppendProperties DEF StoreOK
  <2>4. Size = FreeCell + OldBuckets * BucketSize
    <3>1. CASE data = <<>>
      BY <1>3, <3>1, SizeOK, FrozenAssumption
    <3>2. CASE data # <<>>
      BY <1>1, <1>3, <3>2, SizeOK, FrozenAssumption
    <3> QED
      BY <3>1, <3>2
  <2>5. \A b \in 1 .. OldBuckets : \A i \in Offsets : data[b][i] # Uninit
    <3>1. SUFFICES ASSUME NEW b \in 1 .. OldBuckets, NEW i \in Offsets PROVE data[b][i] # Uninit
      OBVIOUS
    <3>2. nextCell = BucketSize
      BY <1>3, <3>1 DEF StoreOK
    <3>3. i < CellsOfBucket(b)
      BY <1>3, <3>1, <3>2, FrozenAssumption DEF CellsOfBucket, Offsets
    <3> QED
      BY <1>3, <3>1, <3>3 DEF Written
  <2>6. \A b \in 1 .. (OldBuckets + 1) : \A i \in Offsets :
          data'[b][i] # Uninit <=> i < (IF b = OldBuckets + 1 THEN FreeCell + 1 ELSE BucketSize)
    <3>1. SUFFICES ASSUME NEW b \in 1 .. (OldBuckets + 1), NEW i \in Offsets
                   PROVE  data'[b][i] # Uninit <=> i < (IF b = OldBuckets + 1 THEN FreeCell + 1 ELSE BucketSize)
      OBVIOUS
    <3>2. CASE b = OldBuckets + 1
      <4>1. data'[b] = new
        BY <2>3, <3>2
      <4>2. CASE i = 0
        <5>1. data'[b][i] # Uninit
          BY <1>1, <2>1, <4>1, <4>2
        <5> QED
          BY <1>3, <3>2, <4>2, <5>1
      <4>3. CASE i # 0
        <5>1. data'[b][i] = Uninit
          BY <2>1, <4>1, <4>3
        <5> QED
          BY <1>3, <3>2, <4>3, <5>1, FrozenAssumption DEF Offsets
      <4> QED
        BY <4>2, <4>3
    <3>3. CASE b # OldBuckets + 1
      <4>1. b \in 1 .. OldBuckets
        BY <1>1, <1>3, <3>3
      <4>2. data'[b][i] # Uninit
        BY <2>3, <2>5, <4>1
      <4> QED
        BY <3>3, <4>2, FrozenAssumption DEF Offsets
    <3> QED
      BY <3>2, <3>3
  <2>7. /\ OldBuckets \in Nat /\ Len(data) <= OldBuckets + 1
        /\ FreeCell \in Offsets /\ nextCell' = FreeCell + 1
    BY <1>1, <1>3, <2>1
  <2>8. data'[OldBuckets + 1][FreeCell] = e
    BY <1>3, <2>1, <2>3
  <2>9. \A b \in 1 .. Len(data) : \A i \in Offsets :
          (b = OldBuckets + 1 /\ i = FreeCell) \/ data'[b][i] = data[b][i]
    BY <1>3, <2>3
  <2> QED
    BY <2>3, <2>4, <2>6, <2>7, <2>8, <2>9
<1> QED
  BY <1>2, <1>3, PushedInto

\* A push adds one element at the end, and every other stays as it was.
LEMMA Pushed ==
  ASSUME StoreOK, Written, NEW e \in Elems, PushItem(e)
  PROVE  /\ StoreOK' /\ Written'
         /\ Size' = Size + 1
         /\ \A k \in 1 .. Size : Contents'[k] = Contents[k]
         /\ Contents'[Size + 1] = e
<1>1. /\ OldBuckets \in Nat /\ FreeCell \in Offsets
      /\ data' \in Seq(Bucket) /\ Len(data') = OldBuckets + 1 /\ nextCell' = FreeCell + 1
      /\ Size = FreeCell + OldBuckets * BucketSize
      /\ data'[OldBuckets + 1][FreeCell] = e
      /\ Len(data) <= OldBuckets + 1
  BY PushedCells
<1>2. \A b \in 1 .. Len(data) : \A i \in Offsets :
        (b = OldBuckets + 1 /\ i = FreeCell) \/ data'[b][i] = data[b][i]
  BY PushedCells
<1>3. \A b \in 1 .. (OldBuckets + 1) : \A i \in Offsets :
        data'[b][i] # Uninit <=> i < (IF b = OldBuckets + 1 THEN FreeCell + 1 ELSE BucketSize)
  BY PushedCells
<1>4. OldBuckets * BucketSize \in Nat /\ FreeCell \in Nat /\ Size \in Nat
  BY <1>1, SizeOK, FrozenAssumption DEF Offsets
<1>5. StoreOK' /\ data' # <<>>
  BY <1>1, FrozenAssumption DEF StoreOK, Offsets
<1>6. Written'
  BY <1>1, <1>3 DEF Written, CellsOfBucket
<1>7. Size' = Size + 1
  <2>1. Size' = nextCell' + (Len(data') - 1) * BucketSize
    BY <1>5 DEF Size, LenUnderLock
  <2> QED
    BY <2>1, <1>1, <1>4
<1>8. \A k \in 1 .. Size + 1 : Contents'[k] = data'[(k - 1) \div BucketSize + 1][(k - 1) % BucketSize]
  BY <1>7 DEF Contents
<1>9. ASSUME NEW k \in 1 .. Size
      PROVE  Contents'[k] = Contents[k]
  <2> DEFINE q == (k - 1) \div BucketSize
             r == (k - 1) % BucketSize
  <2>1. k - 1 \in Nat /\ k - 1 < Size /\ k \in 1 .. Size + 1
    BY <1>4
  <2>2. q \in Nat /\ r \in Offsets /\ k - 1 = q * BucketSize + r
    BY <2>1, DivMod
  <2>3. data # <<>>
    BY <1>4, SizeOK
  <2>4. q < Len(data) - 1 \/ q = Len(data) - 1
    BY <2>1, <2>3, Where
  <2>5. Contents[k] = data[q + 1][r] /\ Contents'[k] = data'[q + 1][r]
    BY <1>8, <2>1 DEF Contents
  <2> HIDE DEF q, r
  <2>6. q + 1 \in 1 .. Len(data)
    BY <2>2, <2>4 DEF StoreOK
  <2>7. ~ (q = OldBuckets /\ r = FreeCell)
    BY <1>1, <1>4, <2>1, <2>2
  <2>8. ~ (q + 1 = OldBuckets + 1 /\ r = FreeCell)
    BY <1>1, <2>2, <2>7
  <2> QED
    BY <1>2, <2>2, <2>5, <2>6, <2>8
<1>10. Contents'[Size + 1] = e
  <2>1. /\ Size \div BucketSize = OldBuckets
        /\ Size % BucketSize = FreeCell
    <3>1. Size = OldBuckets * BucketSize + FreeCell
      BY <1>1, <1>4
    <3> QED
      BY <3>1, <1>1, DivOf
  <2>2. (Size + 1) - 1 = Size /\ Size + 1 \in 1 .. Size + 1
    BY <1>4
  <2> QED
    BY <1>1, <1>8, <2>1, <2>2
<1> QED
  BY <1>5, <1>6, <1>7, <1>9, <1>10

-----------------------------------------------------------------------------
(* The strengthening: what a thread in the middle of a call relies on, and *)
(* where each loop stands.                                                 *)
Calls ==
  [at : {"idle", "len", "next"}] \cup [at : {"get"}, idx : Indices]
  \cup [at : {"insert"}, item : Elems]
  \cup [at : {"push"}, item : Elems, id : Nat, raced : BOOLEAN]

\* A call that found the store not empty finds it so when it has the lock.
CallOK(c) ==
  /\ c \in Calls
  /\ c.at \in {"get", "len", "insert", "next"} => data # <<>>
  /\ c.at = "push" => c.id <= Size /\ (~ c.raced => c.id = Size)

Cursors == [on : BOOLEAN, bucket : Nat, item : Offsets]

LoopOK(c, s, f) ==
  /\ c \in Cursors /\ s \in Seq(Elems) /\ f \in Nat
  /\ f <= Size /\ Len(s) <= Size
  /\ \A k \in 1 .. Len(s) : s[k] = Contents[k]
  /\ c.on => c.item + c.bucket * BucketSize = Len(s)
  /\ ~ c.on => Len(s) >= f

CallsOK ==
  /\ call \in [Threads -> Calls]
  /\ \A t \in Threads : CallOK(call[t])

LoopsOK ==
  /\ cursor \in [Threads -> Cursors]
  /\ seen \in [Threads -> Seq(Elems)]
  /\ floor \in [Threads -> Nat]
  /\ \A t \in Threads : LoopOK(cursor[t], seen[t], floor[t])
  /\ \A t \in Threads : call[t].at = "next" => cursor[t].on

\* While the owner takes the elements out nobody else is in a call, and what it
\* has is what the buckets it went through hold.
TakenUpTo(b) == IF b = Len(data) THEN Size ELSE b * BucketSize

TakingOK ==
  /\ taking \in [on : BOOLEAN, buckets : Nat, res : Seq(Elems)]
  /\ taking.on =>
       /\ Unused /\ data # <<>> /\ taking.buckets <= Len(data)
       /\ Len(taking.res) = TakenUpTo(taking.buckets)
       /\ \A k \in 1 .. Len(taking.res) : taking.res[k] = Contents[k]

IInv == StoreOK /\ Written /\ CallsOK /\ LoopsOK /\ TakingOK

-----------------------------------------------------------------------------
LEMMA Initially == Init => IInv
<1> SUFFICES ASSUME Init PROVE IInv
  OBVIOUS
<1>1. StoreOK /\ Written
  BY FrozenAssumption DEF Init, StoreOK, Written
<1>2. Size = 0
  BY DEF Init, Size
<1>3. CallsOK
  BY <1>2 DEF Init, CallsOK, CallOK, Calls, Idle
<1>4. NoLoop \in Cursors /\ ~ NoLoop.on
  BY FrozenAssumption DEF NoLoop, Cursors, Offsets
<1>5. LoopsOK
  BY <1>2, <1>4 DEF Init, LoopsOK, LoopOK, Idle
<1>6. TakingOK
  BY DEF Init, TakingOK, NotTaking
<1> QED
  BY <1>1, <1>3, <1>5, <1>6 DEF IInv

\* A call that goes on, or ends, has the store to itself and its like.
LEMMA OwnerWaits ==
  ASSUME IInv, NEW t \in Threads, call[t].at # "idle"
  PROVE  ~ taking.on
BY DEF IInv, TakingOK, Unused, Idle

\* Only calls move.
LEMMA CallMoves ==
  ASSUME IInv, ~ taking.on, UNCHANGED <<store, loops>>,
         NEW t \in Threads, NEW c, CallOK(c), c.at = "next" => cursor[t].on,
         call' = [call EXCEPT ![t] = c]
  PROVE  IInv'
<1>1. Size' = Size /\ Contents' = Contents /\ StoreOK' /\ Written' /\ data' = data
  BY SameStore DEF IInv, store
<1>2. c \in Calls
  BY DEF CallOK
<1>3. call' \in [Threads -> Calls]
  BY <1>2 DEF IInv, CallsOK
<1>4. \A u \in Threads : call'[u] = IF u = t THEN c ELSE call[u]
  BY DEF IInv, CallsOK
<1>5. CallsOK'
  BY <1>1, <1>3, <1>4 DEF IInv, CallsOK, CallOK
<1>6. cursor' = cursor /\ seen' = seen /\ floor' = floor
  BY DEF loops
<1>7. LoopsOK'
  BY <1>1, <1>4, <1>6 DEF IInv, LoopsOK, LoopOK
<1>8. TakingOK'
  BY DEF IInv, TakingOK, store
<1> QED
  BY <1>1, <1>5, <1>7, <1>8 DEF IInv

\* One loop moves, and perhaps the call of its thread.
LEMMA LoopMoves ==
  ASSUME IInv, ~ taking.on, UNCHANGED store,
         NEW t \in Threads, NEW c, NEW s, NEW f, LoopOK(c, s, f),
         cursor' = [cursor EXCEPT ![t] = c],
         seen' = [seen EXCEPT ![t] = s],
         floor' = [floor EXCEPT ![t] = f],
         \/ UNCHANGED call /\ call[t] = Idle
         \/ call' = [call EXCEPT ![t] = Idle]
  PROVE  IInv'
<1>1. Size' = Size /\ Contents' = Contents /\ StoreOK' /\ Written' /\ data' = data
  BY SameStore DEF IInv, store
<1>2. \A u \in Threads : call'[u] = IF u = t THEN Idle ELSE call[u]
  BY DEF IInv, CallsOK
<1>3. Idle \in Calls /\ Idle.at = "idle"
  BY DEF Idle, Calls
<1>4. call' \in [Threads -> Calls]
  BY <1>3 DEF IInv, CallsOK
<1>5. CallsOK'
  BY <1>1, <1>2, <1>3, <1>4 DEF IInv, CallsOK, CallOK
<1>6. c \in Cursors /\ s \in Seq(Elems) /\ f \in Nat
  BY DEF LoopOK
<1>7. /\ cursor' \in [Threads -> Cursors] /\ seen' \in [Threads -> Seq(Elems)]
      /\ floor' \in [Threads -> Nat]
      /\ cursor'[t] = c /\ seen'[t] = s /\ floor'[t] = f
      /\ \A u \in Threads : u # t => cursor'[u] = cursor[u] /\ seen'[u] = seen[u] /\ floor'[u] = floor[u]
  BY <1>6 DEF IInv, LoopsOK
<1>8. \A u \in Threads : LoopOK(cursor[u], seen[u], floor[u])'
  <2>1. \A u \in Threads : LoopOK(cursor'[u], seen'[u], floor'[u])
    BY <1>7 DEF IInv, LoopsOK
  <2> QED
    BY <1>1, <2>1 DEF LoopOK
<1>9. \A u \in Threads : call'[u].at = "next" => cursor'[u].on
  BY <1>2, <1>3, <1>7 DEF IInv, LoopsOK
<1>10. LoopsOK'
  BY <1>7, <1>8, <1>9 DEF LoopsOK
<1>11. TakingOK'
  BY DEF IInv, TakingOK, store
<1> QED
  BY <1>1, <1>5, <1>10, <1>11 DEF IInv

\* An element is added: the calls in the middle of an insertion have their
\* index stale, the loops have one more element to see.
LEMMA InsertMoves ==
  ASSUME IInv, NEW t \in Threads, InsertPush(t)
  PROVE  IInv'
<1>1. call[t] \in Calls /\ call[t].at = "push" /\ call[t].item \in Elems
  BY DEF InsertPush, IInv, CallsOK, Calls
<1>2. PushItem(call[t].item)
  BY DEF InsertPush
<1>3. /\ StoreOK' /\ Written' /\ data' # <<>> /\ Size' = Size + 1 /\ Size \in Nat
      /\ \A k \in 1 .. Size : Contents'[k] = Contents[k]
  <2>1. Size \in Nat
    BY SizeOK DEF IInv
  <2>2. StoreOK' /\ Written' /\ Size' = Size + 1
    BY <1>1, <1>2, Pushed DEF IInv
  <2>3. data' # <<>>
    BY <2>1, <2>2 DEF Size
  <2> QED
    BY <1>1, <1>2, <2>1, <2>2, <2>3, Pushed DEF IInv
<1>4. \A u \in Threads :
        CallOK(call[u]) /\ call'[u] = (CASE u = t -> Idle
                                       [] u # t /\ call[u].at = "push" -> [call[u] EXCEPT !.raced = TRUE]
                                       [] OTHER -> call[u])
  BY DEF InsertPush, IInv, CallsOK
<1>5. \A u \in Threads : CallOK(call[u])' /\ (call'[u].at = "next" => call[u].at = "next")
  <2>1. SUFFICES ASSUME NEW u \in Threads
                 PROVE  CallOK(call[u])' /\ (call'[u].at = "next" => call[u].at = "next")
    OBVIOUS
  <2>2. CASE u = t
    <3>1. call'[u] = Idle
      BY <1>4, <2>2
    <3>2. Idle \in Calls /\ Idle.at = "idle"
      BY DEF Idle, Calls
    <3> QED
      BY <3>1, <3>2 DEF CallOK
  <2>3. CASE u # t /\ call[u].at = "push"
    <3> DEFINE c == [call[u] EXCEPT !.raced = TRUE]
    <3>1. call'[u] = c
      BY <1>4, <2>3
    <3>2. call[u] \in [at : {"push"}, item : Elems, id : Nat, raced : BOOLEAN] /\ call[u].id <= Size
      BY <1>4, <2>3 DEF CallOK, Calls
    <3>3. c \in [at : {"push"}, item : Elems, id : Nat, raced : BOOLEAN] /\ c.id = call[u].id /\ c.raced
      BY <3>2
    <3> HIDE DEF c
    <3>4. c.id <= Size' /\ c.at = "push" /\ c \in Calls
      BY <1>3, <3>2, <3>3 DEF Calls
    <3> QED
      BY <3>1, <3>3, <3>4 DEF CallOK
  <2>4. CASE u # t /\ call[u].at # "push"
    <3>1. call'[u] = call[u] /\ CallOK(call[u])
      BY <1>4, <2>4
    <3> QED
      BY <1>3, <2>4, <3>1 DEF CallOK
  <2> QED
    BY <2>2, <2>3, <2>4
<1>6. CallsOK'
  <2>1. call' = [u \in Threads |-> call'[u]]
    BY DEF InsertPush
  <2>2. \A u \in Threads : call'[u] \in Calls
    <3>1. \A u \in Threads : CallOK(call[u])'
      BY <1>5
    <3> QED
      BY <3>1 DEF CallOK
  <2>3. call' \in [Threads -> Calls]
    BY <2>1, <2>2
  <2> QED
    BY <1>5, <2>3 DEF CallsOK
<1>7. cursor' = cursor /\ seen' = seen /\ floor' = floor
  BY DEF InsertPush, loops
<1>8. \A u \in Threads : LoopOK(cursor[u], seen[u], floor[u])'
  <2>1. SUFFICES ASSUME NEW u \in Threads PROVE LoopOK(cursor[u], seen[u], floor[u])'
    OBVIOUS
  <2>2. LoopOK(cursor[u], seen[u], floor[u])
    BY DEF IInv, LoopsOK
  <2>3. \A k \in 1 .. Len(seen[u]) : k \in 1 .. Size
    BY <1>3, <2>2 DEF LoopOK
  <2> QED
    BY <1>3, <1>7, <2>2, <2>3 DEF LoopOK
<1>9. LoopsOK'
  BY <1>5, <1>7, <1>8 DEF IInv, LoopsOK
<1>10. TakingOK'
  BY <1>1, OwnerWaits DEF InsertPush, IInv, TakingOK
<1> QED
  BY <1>3, <1>6, <1>9, <1>10 DEF IInv

\* The owner takes the store apart: nobody is in the middle of anything.
LEMMA EmptiedMoves ==
  ASSUME IInv, Unused, Emptied, UNCHANGED call,
         taking' = NotTaking \/ (~ taking.on /\ UNCHANGED taking)
  PROVE  IInv' /\ Contents' = <<>>
<1>1. StoreOK' /\ Written' /\ Size' = 0
  BY FrozenAssumption DEF Emptied, StoreOK, Written, Size
<1>2. CallsOK'
  BY DEF IInv, CallsOK, CallOK, Unused, Idle
<1>3. NoLoop \in Cursors /\ ~ NoLoop.on
  BY FrozenAssumption DEF NoLoop, Cursors, Offsets
<1>4. LoopsOK'
  BY <1>1, <1>3 DEF Emptied, LoopsOK, LoopOK, Unused, Idle
<1>5. TakingOK'
  <2>1. /\ NotTaking \in [on : BOOLEAN, buckets : Nat, res : Seq(Elems)]
        /\ ~ NotTaking.on
    BY DEF NotTaking
  <2>2. taking' \in [on : BOOLEAN, buckets : Nat, res : Seq(Elems)] /\ ~ taking'.on
    BY <2>1 DEF IInv, TakingOK
  <2> QED
    BY <2>2 DEF TakingOK
<1>6. (StoreOK /\ Written => Contents \in Seq(Elems) /\ Len(Contents) = Size)'
  BY ContentsOK, PTL
<1>7. Contents' = <<>>
  BY <1>1, <1>6, EmptySeq
<1> QED
  BY <1>1, <1>2, <1>4, <1>5, <1>7 DEF IInv

\* What a bucket holds are the elements from its first index on.
LEMMA BucketHolds ==
  ASSUME IInv, NEW n \in Nat, n < Len(data)
  PROVE  /\ TakenOf(n + 1) \in Seq(Elems)
         /\ Len(TakenOf(n + 1)) = CellsOfBucket(n + 1)
         /\ TakenUpTo(n) \in Nat
         /\ TakenUpTo(n + 1) = TakenUpTo(n) + CellsOfBucket(n + 1)
         /\ TakenUpTo(n + 1) <= Size
         /\ \A k \in 1 .. CellsOfBucket(n + 1) :
              TakenOf(n + 1)[k] = Contents[TakenUpTo(n) + k]
<1>1. /\ data \in Seq(Bucket) /\ data # <<>> /\ Len(data) \in Nat
      /\ nextCell \in 0 .. BucketSize /\ BucketSize \in Nat \ {0}
  BY FrozenAssumption DEF IInv, StoreOK
<1>2. Size = nextCell + (Len(data) - 1) * BucketSize /\ Size \in Nat
  BY <1>1, SizeOK DEF IInv
<1>3. CellsOfBucket(n + 1) \in 0 .. BucketSize
  BY <1>1 DEF CellsOfBucket
<1>4. TakenUpTo(n) = n * BucketSize /\ n * BucketSize \in Nat
  BY <1>1 DEF TakenUpTo
<1>5. TakenUpTo(n + 1) = n * BucketSize + CellsOfBucket(n + 1) /\ TakenUpTo(n + 1) <= Size
  <2>1. CASE n + 1 = Len(data)
    BY <1>1, <1>2, <1>4, <2>1 DEF TakenUpTo, CellsOfBucket
  <2>2. CASE n + 1 # Len(data)
    <3>1. (n + 1) * BucketSize = n * BucketSize + BucketSize
      BY <1>1
    <3>2. n + 1 < Len(data)
      BY <1>1, <2>2
    <3>3. (n + 1) * BucketSize <= (Len(data) - 1) * BucketSize
      <4>1. CASE n + 1 = Len(data) - 1
        BY <1>1, <4>1
      <4>2. CASE n + 1 < Len(data) - 1
        <5> DEFINE last == Len(data) - 1
                   next == n + 1
        <5>1. last \in Nat /\ next \in Nat /\ next < last
          BY <1>1, <4>2
        <5> HIDE DEF last, next
        <5>2. next * BucketSize + BucketSize <= last * BucketSize
          BY <5>1, FartherBucket
        <5>3. next * BucketSize \in Nat /\ last * BucketSize \in Nat
          BY <1>1, <5>1
        <5>4. next * BucketSize <= last * BucketSize
          BY <1>1, <5>2, <5>3
        <5> QED
          BY <5>4 DEF last, next
      <4> QED
        BY <1>1, <3>2, <4>1, <4>2
    <3>4. (Len(data) - 1) * BucketSize \in Nat
      BY <1>1
    <3>5. (n + 1) * BucketSize <= Size
      BY <1>1, <1>2, <1>4, <3>1, <3>3, <3>4
    <3> QED
      BY <1>4, <2>2, <3>1, <3>5 DEF TakenUpTo, CellsOfBucket
  <2> QED
    BY <2>1, <2>2
<1>6. ASSUME NEW k \in 1 .. CellsOfBucket(n + 1)
      PROVE  /\ TakenOf(n + 1)[k] = Contents[TakenUpTo(n) + k]
             /\ TakenOf(n + 1)[k] \in Elems
  <2>1. k - 1 \in Offsets
    BY <1>1, <1>3 DEF Offsets
  <2>2. TakenUpTo(n) + k \in 1 .. Size /\ (TakenUpTo(n) + k) - 1 = n * BucketSize + (k - 1)
    BY <1>2, <1>3, <1>4, <1>5
  <2>3. (n * BucketSize + (k - 1)) \div BucketSize = n /\ (n * BucketSize + (k - 1)) % BucketSize = k - 1
    BY <2>1, DivOf
  <2>4. Contents[TakenUpTo(n) + k] = data[n + 1][k - 1]
    BY <2>2, <2>3 DEF Contents
  <2>5. TakenOf(n + 1)[k] = data[n + 1][k - 1]
    BY DEF TakenOf
  <2>6. \A j \in 1 .. Size : Contents[j] \in Elems
    BY ContentsOK DEF IInv
  <2> QED
    BY <2>2, <2>4, <2>5, <2>6
<1>7. TakenOf(n + 1) = [k \in 1 .. CellsOfBucket(n + 1) |-> TakenOf(n + 1)[k]]
  BY DEF TakenOf
<1>8. TakenOf(n + 1) \in Seq(Elems) /\ Len(TakenOf(n + 1)) = CellsOfBucket(n + 1)
  BY <1>1, <1>3, <1>6, <1>7
<1> QED
  BY <1>4, <1>5, <1>6, <1>8

\* One more bucket is taken out, and the store is as before.
LEMMA TakeBucketMoves ==
  ASSUME IInv, TakeBucket
  PROVE  IInv'
<1> DEFINE n == taking.buckets
           more == TakenOf(n + 1)
           res == taking.res \o more
<1>1. /\ taking \in [on : BOOLEAN, buckets : Nat, res : Seq(Elems)] /\ taking.on
      /\ Unused /\ data # <<>> /\ n < Len(data)
      /\ Len(taking.res) = TakenUpTo(n)
      /\ \A k \in 1 .. Len(taking.res) : taking.res[k] = Contents[k]
  BY DEF TakeBucket, IInv, TakingOK
<1>2. n \in Nat /\ taking.res \in Seq(Elems)
  BY <1>1
<1>3. taking' = Taking(n + 1, res)
  BY DEF TakeBucket
<1>4. /\ more \in Seq(Elems) /\ Len(more) = CellsOfBucket(n + 1)
      /\ TakenUpTo(n) \in Nat /\ TakenUpTo(n + 1) = TakenUpTo(n) + CellsOfBucket(n + 1)
      /\ \A k \in 1 .. CellsOfBucket(n + 1) : more[k] = Contents[TakenUpTo(n) + k]
  BY <1>1, <1>2, BucketHolds
<1> HIDE DEF n, more
<1>5. /\ res \in Seq(Elems) /\ Len(res) = Len(taking.res) + Len(more)
      /\ \A k \in 1 .. Len(taking.res) + Len(more) :
           res[k] = IF k <= Len(taking.res) THEN taking.res[k] ELSE more[k - Len(taking.res)]
  BY <1>2, <1>4, ConcatProperties
<1> HIDE DEF res
<1>6. /\ taking' \in [on : BOOLEAN, buckets : Nat, res : Seq(Elems)]
      /\ taking'.on /\ taking'.buckets = n + 1 /\ taking'.res = res
  <2>1. n + 1 \in Nat /\ res \in Seq(Elems)
    BY <1>2, <1>5
  <2> QED
    BY <1>3, <2>1 DEF Taking
<1>7. Len(res) = TakenUpTo(n + 1)
  BY <1>1, <1>4, <1>5
<1>8. \A k \in 1 .. Len(res) : res[k] = Contents[k]
  <2>1. SUFFICES ASSUME NEW k \in 1 .. Len(res) PROVE res[k] = Contents[k]
    OBVIOUS
  <2>2. Len(taking.res) \in Nat /\ Len(more) \in Nat /\ k \in 1 .. Len(taking.res) + Len(more)
    BY <1>2, <1>4, <1>5, <2>1
  <2>3. CASE k <= Len(taking.res)
    BY <1>1, <1>5, <2>2, <2>3
  <2>4. CASE ~ (k <= Len(taking.res))
    <3> DEFINE j == k - Len(taking.res)
    <3>1. j \in 1 .. CellsOfBucket(n + 1) /\ TakenUpTo(n) + j = k
      BY <1>1, <1>4, <2>2, <2>4
    <3> QED
      BY <1>4, <1>5, <2>2, <2>4, <3>1
  <2> QED
    BY <2>3, <2>4
<1>9. data' = data /\ nextCell' = nextCell /\ call' = call /\ UNCHANGED loops
  BY DEF TakeBucket
<1>10. /\ StoreOK' = StoreOK /\ Written' = Written /\ CallsOK' = CallsOK /\ LoopsOK' = LoopsOK
       /\ Size' = Size /\ Contents' = Contents
  BY <1>9 DEF Size, LenUnderLock, Contents, StoreOK, Written, CellsOfBucket, CallsOK, CallOK,
       LoopsOK, LoopOK, loops
<1>11. TakingOK'
  <2>1. n + 1 <= Len(data)
    BY <1>1, <1>2 DEF IInv, StoreOK
  <2>2. Unused'
    BY <1>1, <1>9 DEF Unused
  <2>3. Len(taking'.res) = TakenUpTo(taking.buckets)'
    BY <1>6, <1>7, <1>9, <1>10 DEF TakenUpTo
  <2> QED
    BY <1>1, <1>6, <1>8, <1>9, <1>10, <2>1, <2>2, <2>3 DEF TakingOK
<1> QED
  BY <1>10, <1>11 DEF IInv

\* The owner begins with the first bucket.
LEMMA BeginConsumeMoves ==
  ASSUME IInv, BeginConsume
  PROVE  IInv' /\ Contents' = Contents
<1>1. CASE data = <<>>
  <2>1. Contents \in Seq(Elems) /\ Len(Contents) = 0
    BY <1>1, ContentsOK, SizeOK DEF IInv
  <2>2. Contents = <<>>
    BY <2>1, EmptySeq
  <2> QED
    BY <1>1, <2>2, EmptiedMoves DEF BeginConsume
<1>2. CASE data # <<>>
  <2>1. /\ Unused /\ taking' = Taking(0, <<>>)
        /\ data' = data /\ nextCell' = nextCell /\ call' = call /\ UNCHANGED loops
    BY <1>2 DEF BeginConsume
  <2>2. /\ StoreOK' = StoreOK /\ Written' = Written /\ CallsOK' = CallsOK /\ LoopsOK' = LoopsOK
        /\ Size' = Size /\ Contents' = Contents
    BY <2>1 DEF Size, LenUnderLock, Contents, StoreOK, Written, CellsOfBucket, CallsOK, CallOK,
         LoopsOK, LoopOK, loops
  <2>3. /\ taking' \in [on : BOOLEAN, buckets : Nat, res : Seq(Elems)]
        /\ taking'.buckets = 0 /\ taking'.res = <<>>
    BY <2>1 DEF Taking
  <2>4. 0 # Len(data) /\ 0 <= Len(data) /\ 0 * BucketSize = 0
    BY <1>2, FrozenAssumption DEF IInv, StoreOK
  <2>5. TakenUpTo(taking.buckets)' = 0
    BY <2>1, <2>3, <2>4 DEF TakenUpTo
  <2>6. TakingOK'
    BY <1>2, <2>1, <2>3, <2>4, <2>5 DEF TakingOK, Unused
  <2> QED
    BY <2>2, <2>6 DEF IInv
<1> QED
  BY <1>1, <1>2

\* After the last bucket it has them all.
LEMMA AllTaken ==
  ASSUME IInv, EndConsume
  PROVE  /\ IInv' /\ Contents' = <<>>
         /\ taking.res = Contents
<1>1. /\ taking.on /\ Unused /\ taking.res \in Seq(Elems) /\ Len(taking.res) = Size
      /\ \A k \in 1 .. Len(taking.res) : taking.res[k] = Contents[k]
  BY DEF EndConsume, IInv, TakingOK, TakenUpTo
<1>2. Contents \in Seq(Elems) /\ Len(Contents) = Size
  BY ContentsOK DEF IInv
<1>3. taking.res = Contents
  BY <1>1, <1>2, SeqEqual
<1> QED
  BY <1>1, <1>3, EmptiedMoves DEF EndConsume

\* The cursor's next position.
LEMMA AdvancedOK ==
  ASSUME NEW c \in Cursors
  PROVE  /\ Advanced(c) \in Cursors /\ Advanced(c).on = c.on
         /\ Advanced(c).item + Advanced(c).bucket * BucketSize = (c.item + c.bucket * BucketSize) + 1
<1>1. /\ c.item \in Nat /\ c.item < BucketSize /\ c.bucket \in Nat
      /\ c.bucket * BucketSize \in Nat
  BY FrozenAssumption DEF Cursors, Offsets
<1>2. CASE c.item + 1 >= BucketSize
  <2> DEFINE d == [c EXCEPT !.item = 0, !.bucket = c.bucket + 1]
  <2>1. Advanced(c) = d
    BY <1>2 DEF Advanced
  <2>2. 0 \in Offsets /\ c.bucket + 1 \in Nat
    BY <1>1, FrozenAssumption DEF Offsets
  <2>3. d \in Cursors /\ d.on = c.on /\ d.item = 0 /\ d.bucket = c.bucket + 1
    BY <2>2 DEF Cursors
  <2> HIDE DEF d
  <2>4. (c.bucket + 1) * BucketSize = c.bucket * BucketSize + BucketSize
    BY <1>1, FrozenAssumption
  <2>5. c.item + 1 = BucketSize
    BY <1>1, <1>2, FrozenAssumption
  <2>6. 0 + (c.bucket + 1) * BucketSize = (c.item + c.bucket * BucketSize) + 1
    <3> DEFINE m == c.bucket * BucketSize
               k == (c.bucket + 1) * BucketSize
    <3>1. m \in Nat /\ k = m + BucketSize
      BY <1>1, <2>4
    <3> HIDE DEF m, k
    <3>2. 0 + k = (c.item + m) + 1
      BY <1>1, <2>5, <3>1, FrozenAssumption
    <3> QED
      BY <3>2 DEF m, k
  <2> QED
    BY <2>1, <2>3, <2>6
<1>3. CASE ~ (c.item + 1 >= BucketSize)
  <2> DEFINE d == [c EXCEPT !.item = c.item + 1]
  <2>1. Advanced(c) = d
    BY <1>3 DEF Advanced
  <2>2. c.item + 1 \in Offsets
    BY <1>1, <1>3, FrozenAssumption DEF Offsets
  <2>3. d \in Cursors /\ d.on = c.on /\ d.item = c.item + 1 /\ d.bucket = c.bucket
    BY <2>2 DEF Cursors
  <2> HIDE DEF d
  <2> QED
    BY <1>1, <2>1, <2>3
<1> QED
  BY <1>2, <1>3

\* A loop that has yielded what is before its position yields the element
\* there, or ends.
LEMMA YieldMoves ==
  ASSUME IInv, ~ taking.on, UNCHANGED <<store, floor>>,
         NEW t \in Threads, cursor[t].on, NEW v,
         v = IF Position(t) < Size THEN Contents[Position(t) + 1] ELSE None,
         Yields(t, v),
         \/ UNCHANGED call /\ call[t] = Idle
         \/ call' = [call EXCEPT ![t] = Idle]
  PROVE  IInv'
<1>1. LoopOK(cursor[t], seen[t], floor[t]) /\ Position(t) = Len(seen[t])
  BY DEF IInv, LoopsOK, LoopOK, Position
<1>2. /\ Size \in Nat /\ \A k \in 1 .. Size : Contents[k] \in Elems
  BY SizeOK, ContentsOK DEF IInv
<1>3. /\ cursor \in [Threads -> Cursors] /\ seen \in [Threads -> Seq(Elems)]
      /\ floor \in [Threads -> Nat]
      /\ cursor[t] \in Cursors /\ seen[t] \in Seq(Elems) /\ floor[t] \in Nat
  BY DEF IInv, LoopsOK
<1>4. floor' = [floor EXCEPT ![t] = floor[t]]
  BY <1>3
<1>5. CASE Position(t) < Size
  <2>1. v = Contents[Len(seen[t]) + 1] /\ Len(seen[t]) + 1 \in 1 .. Size
    BY <1>1, <1>2, <1>3, <1>5
  <2>2. v \in Elems /\ v # None
    BY <1>2, <2>1, FrozenAssumption
  <2>3. /\ cursor' = [cursor EXCEPT ![t] = Advanced(cursor[t])]
        /\ seen' = [seen EXCEPT ![t] = Append(seen[t], v)]
    BY <2>2 DEF Yields
  <2>4. /\ Advanced(cursor[t]) \in Cursors /\ Advanced(cursor[t]).on
        /\ Advanced(cursor[t]).item + Advanced(cursor[t]).bucket * BucketSize = Len(seen[t]) + 1
    <3> DEFINE c == cursor[t]
    <3>1. c \in Cursors /\ c.on /\ c.item + c.bucket * BucketSize = Len(seen[t])
      BY <1>1 DEF LoopOK
    <3> HIDE DEF c
    <3> QED
      BY <1>3, <3>1, AdvancedOK DEF c
  <2>5. /\ Append(seen[t], v) \in Seq(Elems) /\ Len(Append(seen[t], v)) = Len(seen[t]) + 1
        /\ \A k \in 1 .. Len(seen[t]) : Append(seen[t], v)[k] = seen[t][k]
        /\ Append(seen[t], v)[Len(seen[t]) + 1] = v
    BY <1>3, <2>2, AppendProperties
  <2>6. \A k \in 1 .. Len(seen[t]) + 1 : Append(seen[t], v)[k] = Contents[k]
    BY <1>1, <1>3, <2>1, <2>5 DEF LoopOK
  <2>7. LoopOK(Advanced(cursor[t]), Append(seen[t], v), floor[t])
    BY <1>1, <1>2, <2>1, <2>4, <2>5, <2>6 DEF LoopOK
  <2> QED
    BY <1>4, <2>3, <2>7, LoopMoves
<1>6. CASE ~ (Position(t) < Size)
  <2>1. v = None
    BY <1>6
  <2>2. cursor' = [cursor EXCEPT ![t] = [cursor[t] EXCEPT !.on = FALSE]]
    BY <2>1 DEF Yields
  <2>3. seen' = [seen EXCEPT ![t] = seen[t]]
    BY <1>3, <2>1 DEF Yields
  <2>4. /\ [cursor[t] EXCEPT !.on = FALSE] \in Cursors
        /\ ~ [cursor[t] EXCEPT !.on = FALSE].on
    BY <1>3 DEF Cursors
  <2>5. Len(seen[t]) >= Size
    BY <1>1, <1>2, <1>3, <1>6
  <2>6. LoopOK([cursor[t] EXCEPT !.on = FALSE], seen[t], floor[t])
    BY <1>1, <1>2, <1>3, <2>4, <2>5 DEF LoopOK
  <2> QED
    BY <1>4, <2>2, <2>3, <2>6, LoopMoves
<1> QED
  BY <1>5, <1>6

\* Each step of a thread preserves the invariant.
LEMMA StepKeeps ==
  ASSUME IInv, NEW t \in Threads, Step(t)
  PROVE  IInv'
<1> USE DEF Idle, Enters, Returns, MayCall
<1>0. CASE taking.on
  <2>1. call[t] = Idle
    BY <1>0 DEF IInv, TakingOK, Unused
  <2> QED
    BY <1>0, <2>1 DEF Step, BeginGet, EndGet, BeginLen, EndLen, BeginInsert, InsertLen, InsertPush,
       StartLoop, BeginNext, EndNext
<1> SUFFICES ASSUME ~ taking.on PROVE IInv'
  BY <1>0
<1>1. CallOK(Idle) /\ Idle.at = "idle"
  BY DEF CallOK, Calls
<1>2. CallOK(call[t])
  BY DEF IInv, CallsOK
<1>3. LoopOK(cursor[t], seen[t], floor[t])
  BY DEF IInv, LoopsOK
<1>4. /\ IsEmpty => Size = 0
      /\ ~ IsEmpty => data # <<>>
      /\ data # <<>> => LenUnderLock = Size
      /\ Size \in Nat
  BY EmptyOrNot, SizeOK DEF IInv
<1>5. call = [call EXCEPT ![t] = call[t]]
  BY DEF IInv, CallsOK
<1>6. ASSUME NEW i \in Indices, BeginGet(t, i)
      PROVE  IInv'
  <2>1. CallOK([at |-> "get", idx |-> i]) \/ IsEmpty
    BY <1>4 DEF CallOK, Calls
  <2>2. CASE IsEmpty
    BY <1>1, <1>2, <1>5, <1>6, <2>2, CallMoves DEF BeginGet
  <2>3. CASE ~ IsEmpty
    BY <1>6, <2>1, <2>3, CallMoves DEF BeginGet
  <2> QED
    BY <2>2, <2>3
<1>7. ASSUME EndGet(t) PROVE IInv'
  BY <1>1, <1>7, CallMoves DEF EndGet
<1>8. ASSUME BeginLen(t) PROVE IInv'
  <2>1. CallOK([at |-> "len"]) \/ IsEmpty
    BY <1>4 DEF CallOK, Calls
  <2>2. CASE IsEmpty
    BY <1>1, <1>2, <1>5, <1>8, <2>2, CallMoves DEF BeginLen
  <2>3. CASE ~ IsEmpty
    BY <1>8, <2>1, <2>3, CallMoves DEF BeginLen
  <2> QED
    BY <2>2, <2>3
<1>9. ASSUME EndLen(t) PROVE IInv'
  BY <1>1, <1>9, CallMoves DEF EndLen
<1>10. ASSUME NEW e \in Elems, BeginInsert(t, e)
       PROVE  IInv'
  <2>1. CASE IsEmpty
    <3>1. CallOK(Inserting(e, 0)) /\ Inserting(e, 0).at = "push"
      BY <1>4, <2>1 DEF CallOK, Calls, Inserting
    <3> QED
      BY <1>10, <2>1, <3>1, CallMoves DEF BeginInsert
  <2>2. CASE ~ IsEmpty
    <3>1. CallOK([at |-> "insert", item |-> e])
      BY <1>4, <2>2 DEF CallOK, Calls
    <3> QED
      BY <1>10, <2>2, <3>1, CallMoves DEF BeginInsert
  <2> QED
    BY <2>1, <2>2
<1>11. ASSUME InsertLen(t) PROVE IInv'
  <2>1. call[t].item \in Elems /\ data # <<>>
    BY <1>2, <1>11 DEF InsertLen, CallOK, Calls
  <2>2. CallOK(Inserting(call[t].item, LenUnderLock)) /\ Inserting(call[t].item, LenUnderLock).at = "push"
    BY <1>4, <2>1 DEF CallOK, Calls, Inserting
  <2> QED
    BY <1>11, <2>2, CallMoves DEF InsertLen
<1>12. ASSUME InsertPush(t) PROVE IInv'
  BY <1>12, InsertMoves
<1>13. ASSUME StartLoop(t) PROVE IInv'
  <2> DEFINE c == [NoLoop EXCEPT !.on = TRUE]
  <2>1. c \in Cursors /\ c.on /\ c.item = 0 /\ c.bucket = 0
    <3>1. 0 \in Offsets
      BY FrozenAssumption DEF Offsets
    <3>2. NoLoop \in Cursors /\ NoLoop.item = 0 /\ NoLoop.bucket = 0
      BY <3>1 DEF NoLoop, Cursors
    <3> QED
      BY <3>2 DEF Cursors
  <2>2. 0 * BucketSize = 0
    BY FrozenAssumption
  <2>3. /\ UNCHANGED store /\ UNCHANGED call /\ call[t] = Idle
        /\ cursor' = [cursor EXCEPT ![t] = c] /\ seen' = [seen EXCEPT ![t] = <<>>]
        /\ floor' = [floor EXCEPT ![t] = Size]
    BY <1>13 DEF StartLoop
  <2> HIDE DEF c
  <2>4. LoopOK(c, <<>>, Size)
    BY <1>4, <2>1, <2>2 DEF LoopOK
  <2> QED
    BY <2>3, <2>4, LoopMoves
<1>14. ASSUME BeginNext(t) PROVE IInv'
  <2>1. CASE IsEmpty
    <3>1. Position(t) \in Nat
      BY <1>3, <1>14 DEF LoopOK, BeginNext, Position
    <3>2. ~ (Position(t) < Size)
      BY <1>4, <2>1, <3>1
    <3> QED
      BY <1>14, <2>1, <3>2, YieldMoves DEF BeginNext
  <2>2. CASE ~ IsEmpty
    <3>1. CallOK([at |-> "next"])
      BY <1>4, <2>2 DEF CallOK, Calls
    <3> QED
      BY <1>14, <2>2, <3>1, CallMoves DEF BeginNext, loops
  <2> QED
    BY <2>1, <2>2
<1>15. ASSUME EndNext(t) PROVE IInv'
  <2>1. data # <<>> /\ cursor[t].on
    BY <1>2, <1>15 DEF EndNext, CallOK, IInv, LoopsOK
  <2>2. Position(t) \in Nat
    BY <1>3, <2>1 DEF LoopOK, Position
  <2>3. GetUnderLock(Position(t)) = IF Position(t) < Size THEN Contents[Position(t) + 1] ELSE None
    BY <2>1, <2>2, Lookup DEF IInv
  <2> QED
    BY <1>15, <2>1, <2>3, YieldMoves DEF EndNext
<1> QED
  BY <1>6, <1>7, <1>8, <1>9, <1>10, <1>11, <1>12, <1>13, <1>14, <1>15 DEF Step

LEMMA Inductive == IInv /\ [Next]_vars => IInv'
<1> SUFFICES ASSUME IInv, [Next]_vars PROVE IInv'
  OBVIOUS
<1>1. CASE \E t \in Threads : Step(t)
  BY <1>1, StepKeeps
<1>2. CASE BeginConsume
  BY <1>2, BeginConsumeMoves
<1>3. CASE TakeBucket
  BY <1>3, TakeBucketMoves
<1>5. CASE EndConsume
  BY <1>5, AllTaken
<1>6. CASE Drop
  BY <1>6, EmptiedMoves DEF Drop
<1>4. CASE UNCHANGED vars
  <2>1. UNCHANGED store
    BY <1>4 DEF vars, store
  <2> QED
    BY <1>4, <2>1, SameStore DEF vars, store, IInv, CallsOK, CallOK, LoopsOK, LoopOK,
       TakingOK, TakenUpTo, Unused
<1> QED
  BY <1>1, <1>2, <1>3, <1>4, <1>5, <1>6 DEF Next, Owner

LEMMA Invariant == Spec => []IInv
BY Initially, Inductive, PTL DEF Spec

-----------------------------------------------------------------------------
(* Whatever happened before, dropping the store frees the cells that hold   *)
(* an element and no other (Frozen::drop, frozen.rs:143-157).               *)
THEOREM NothingLeaks == Spec => []DropFreesWhatWasWritten
<1>1. IInv => DropFreesWhatWasWritten
  <2> SUFFICES ASSUME IInv PROVE DropFreesWhatWasWritten
    OBVIOUS
  <2>1. \A at \in (1 .. Len(data)) \X Offsets :
          data[at[1]][at[2]] # Uninit <=> at[2] < CellsOfBucket(at[1])
    BY DEF IInv, Written
  <2> QED
    BY <2>1, Zenon DEF DropFreesWhatWasWritten, Freed
<1> QED
  BY <1>1, Invariant, PTL

(* The index an insertion was given names its element, if no other thread   *)
(* pushed in between (Arena::insert, arena.rs:89-93).                       *)
THEOREM IndicesAreRight == Spec => []InsertNamesItsElement
<1>1. IInv => InsertNamesItsElement
  BY DEF IInv, CallsOK, CallOK, InsertNamesItsElement
<1> QED
  BY <1>1, Invariant, PTL

(* A loop yields the elements in order, each once, and ends only when it    *)
(* has seen all that were there when it began (FrozenIter::next, 162-170).  *)
THEOREM LoopsAreComplete == Spec => []LoopsSeeEverything
<1>1. IInv => LoopsSeeEverything
  BY DEF IInv, LoopsOK, LoopOK, LoopsSeeEverything
<1> QED
  BY <1>1, Invariant, PTL

-----------------------------------------------------------------------------
LEMMA InitMaps == Init => Abstract!Init
<1> SUFFICES ASSUME Init PROVE Abstract!Init
  OBVIOUS
<1>1. StoreOK /\ Written /\ Size = 0
  BY Initially DEF Init, IInv, Size
<1>2. Contents \in Seq(Elems) /\ Len(Contents) = 0
  BY <1>1, ContentsOK
<1>3. Contents = <<>>
  BY <1>2, EmptySeq
<1> QED
  BY <1>3 DEF Init, Abstract!Init, Abstract!At, At

\* An insertion is the abstract push.
LEMMA PushMaps ==
  ASSUME IInv, NEW t \in Threads, InsertPush(t)
  PROVE  Abstract!Next
<1> DEFINE e == call[t].item
<1>1. e \in Elems /\ PushItem(e) /\ UNCHANGED result
  BY DEF InsertPush, IInv, CallsOK, Calls
<1> HIDE DEF e
<1>2. /\ Contents \in Seq(Elems) /\ Len(Contents) = Size /\ Size \in Nat
  BY ContentsOK, SizeOK DEF IInv
<1>3. /\ Size' = Size + 1 /\ StoreOK' /\ Written'
      /\ \A k \in 1 .. Size : Contents'[k] = Contents[k]
      /\ Contents'[Size + 1] = e
  BY <1>1, Pushed DEF IInv
<1>4. Contents' \in Seq(Elems) /\ Len(Contents') = Size'
  <2>1. IInv'
    BY InsertMoves
  <2>2. (IInv => Contents \in Seq(Elems) /\ Len(Contents) = Size)'
    BY ContentsOK, PTL DEF IInv
  <2> QED
    BY <2>1, <2>2
<1>5. /\ Append(Contents, e) \in Seq(Elems) /\ Len(Append(Contents, e)) = Size + 1
      /\ \A k \in 1 .. Size : Append(Contents, e)[k] = Contents[k]
      /\ Append(Contents, e)[Size + 1] = e
  BY <1>1, <1>2, AppendProperties
<1>6. \A k \in 1 .. Size + 1 : Contents'[k] = Append(Contents, e)[k]
  BY <1>2, <1>3, <1>5
<1>7. Contents' = Append(Contents, e)
  BY <1>3, <1>4, <1>5, <1>6, SeqEqual
<1> QED
  BY <1>1, <1>7 DEF Abstract!Next, Abstract!Push

\* What a lookup returns is what the abstract one does.
LEMMA GetMaps ==
  ASSUME IInv, NEW i \in Nat, NEW v,
         v = IF i < Size THEN Contents[i + 1] ELSE None,
         result' = At(i, v), UNCHANGED store
  PROVE  Abstract!Next
<1>1. Contents' = Contents /\ Len(Contents) = Size
  BY SameStore, ContentsOK DEF IInv
<1>2. v = Abstract!Lookup(i)
  BY <1>1 DEF Abstract!Lookup
<1>3. "at" \in DOMAIN result' /\ result'.at = i /\ result' = Abstract!At(i, v)
  BY DEF At, Abstract!At
<1> QED
  BY <1>1, <1>2, <1>3 DEF Abstract!Next, Abstract!Get, Abstract!Returns

LEMMA StepMaps ==
  ASSUME IInv, NEW t \in Threads, Step(t)
  PROVE  Abstract!Next \/ UNCHANGED Abstract!vars
<1>1. /\ IsEmpty => Size = 0
      /\ data # <<>> => LenUnderLock = Size
      /\ Size \in Nat /\ Len(Contents) = Size
  BY EmptyOrNot, SizeOK, ContentsOK DEF IInv
<1>2. CallOK(call[t]) /\ LoopOK(cursor[t], seen[t], floor[t])
  BY DEF IInv, CallsOK, LoopsOK
<1>3. ASSUME UNCHANGED store, UNCHANGED result
      PROVE  UNCHANGED Abstract!vars
  BY <1>3, SameStore DEF Abstract!vars
<1>4. ASSUME NEW i \in Indices, BeginGet(t, i)
      PROVE  Abstract!Next \/ UNCHANGED Abstract!vars
  <2>1. CASE IsEmpty
    <3>1. i \in Nat /\ ~ (i < Size)
      BY <1>1, <2>1, FrozenAssumption
    <3> QED
      BY <1>4, <2>1, <3>1, GetMaps DEF BeginGet, Returns
  <2>2. CASE ~ IsEmpty
    BY <1>3, <1>4, <2>2 DEF BeginGet
  <2> QED
    BY <2>1, <2>2
<1>5. ASSUME EndGet(t) PROVE Abstract!Next
  <2>1. call[t].idx \in Nat /\ data # <<>>
    BY <1>2, <1>5, FrozenAssumption DEF EndGet, CallOK, Calls
  <2>2. GetUnderLock(call[t].idx) = IF call[t].idx < Size THEN Contents[call[t].idx + 1] ELSE None
    BY <2>1, Lookup DEF IInv
  <2> QED
    BY <1>5, <2>1, <2>2, GetMaps DEF EndGet, Returns
<1>6. ASSUME BeginLen(t) PROVE Abstract!Next \/ UNCHANGED Abstract!vars
  <2>1. CASE IsEmpty
    BY <1>1, <1>6, <2>1, SameStore DEF BeginLen, Returns, Number,
       Abstract!Next, Abstract!Count, Abstract!Returns, Abstract!Number
  <2>2. CASE ~ IsEmpty
    BY <1>3, <1>6, <2>2 DEF BeginLen
  <2> QED
    BY <2>1, <2>2
<1>7. ASSUME EndLen(t) PROVE Abstract!Next
  <2>1. data # <<>>
    BY <1>2, <1>7 DEF EndLen, CallOK
  <2> QED
    BY <1>1, <1>7, <2>1, SameStore DEF EndLen, Returns, Number,
       Abstract!Next, Abstract!Count, Abstract!Returns, Abstract!Number
<1>8. ASSUME \/ \E e \in Elems : BeginInsert(t, e)
             \/ InsertLen(t) \/ StartLoop(t)
      PROVE  UNCHANGED Abstract!vars
  BY <1>3, <1>8 DEF BeginInsert, InsertLen, StartLoop
<1>9. ASSUME InsertPush(t) PROVE Abstract!Next
  BY <1>9, PushMaps
<1>10. cursor[t].on => Position(t) \in Nat
  BY <1>2 DEF LoopOK, Position
<1>11. ASSUME BeginNext(t) PROVE Abstract!Next \/ UNCHANGED Abstract!vars
  <2>1. CASE IsEmpty
    <3>1. Position(t) \in Nat /\ ~ (Position(t) < Size)
      BY <1>1, <1>10, <1>11, <2>1 DEF BeginNext
    <3> QED
      BY <1>11, <2>1, <3>1, GetMaps DEF BeginNext, Yields, Returns
  <2>2. CASE ~ IsEmpty
    BY <1>3, <1>11, <2>2 DEF BeginNext
  <2> QED
    BY <2>1, <2>2
<1>12. ASSUME EndNext(t) PROVE Abstract!Next
  <2>1. data # <<>> /\ cursor[t].on
    BY <1>2, <1>12 DEF EndNext, CallOK, IInv, LoopsOK
  <2>2. GetUnderLock(Position(t)) = IF Position(t) < Size THEN Contents[Position(t) + 1] ELSE None
    BY <1>10, <2>1, Lookup DEF IInv
  <2> QED
    BY <1>10, <1>12, <2>1, <2>2, GetMaps DEF EndNext, Yields, Returns
<1> QED
  BY <1>4, <1>5, <1>6, <1>7, <1>8, <1>9, <1>11, <1>12 DEF Step

\* The owner's steps.
LEMMA OwnerMaps ==
  ASSUME IInv, Owner
  PROVE  Abstract!Next \/ UNCHANGED Abstract!vars
<1>1. CASE BeginConsume /\ data = <<>>
  <2>1. Contents \in Seq(Elems) /\ Len(Contents) = 0
    BY <1>1, ContentsOK, SizeOK DEF IInv
  <2>2. Contents = <<>> /\ Contents' = <<>>
    BY <1>1, <2>1, EmptySeq, BeginConsumeMoves
  <2> QED
    BY <1>1, <2>2 DEF BeginConsume, Returns, All, Abstract!Next, Abstract!Consume, Abstract!Returns, Abstract!All
<1>2. CASE BeginConsume /\ data # <<>>
  BY <1>2, BeginConsumeMoves DEF BeginConsume, Abstract!vars
<1>3. CASE TakeBucket
  BY <1>3 DEF TakeBucket, Abstract!vars, Contents, Size, LenUnderLock
<1>4. CASE EndConsume
  BY <1>4, AllTaken DEF EndConsume, Returns, All, Abstract!Next, Abstract!Consume, Abstract!Returns, Abstract!All
<1>5. CASE Drop
  BY <1>5, EmptiedMoves DEF Drop, Abstract!Next, Abstract!Discard
<1> QED
  BY <1>1, <1>2, <1>3, <1>4, <1>5 DEF Owner

(* The store implements the append-only sequence: every operation takes     *)
(* effect at one moment, whatever the threads, the bucket size and the      *)
(* number of elements.                                                      *)
THEOREM Linearizable == Spec => ImplementsAppendOnly
<1>1. IInv /\ [Next]_vars => [Abstract!Next]_Abstract!vars
  <2> SUFFICES ASSUME IInv, [Next]_vars PROVE Abstract!Next \/ UNCHANGED Abstract!vars
    OBVIOUS
  <2>1. CASE \E t \in Threads : Step(t)
    BY <2>1, StepMaps
  <2>2. CASE Owner
    BY <2>2, OwnerMaps
  <2>3. CASE UNCHANGED vars
    BY <2>3, SameStore DEF vars, store, Abstract!vars
  <2> QED
    BY <2>1, <2>2, <2>3 DEF Next
<1> QED
  BY <1>1, InitMaps, Invariant, PTL DEF Spec, ImplementsAppendOnly, Abstract!Spec
=============================================================================
