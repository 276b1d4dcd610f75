-------------------------- MODULE DatastoreProofs --------------------------
(***************************************************************************)
(* What the operators of Datastore compute, for every bucket and batch.    *)
(***************************************************************************)
EXTENDS Datastore, TLAPS

-----------------------------------------------------------------------------
(* What the first items of a batch leave behind, one item at a time.       *)

LEMMA AfterNone ==
  ASSUME NEW b, NEW batch, NEW k
  PROVE  After(b, batch, 0, k) = b[k]
BY DEF After

(* At most one item is the last about a key.                               *)
LEMMA LastTouchUnique ==
  ASSUME NEW batch, NEW n \in Nat, NEW k, NEW i, NEW j,
         LastTouch(batch, n, k, i), LastTouch(batch, n, k, j)
  PROVE  i = j
BY DEF LastTouch

LEMMA AfterIs ==
  ASSUME NEW b, NEW batch, NEW n \in Nat, NEW k, NEW j,
         LastTouch(batch, n, k, j)
  PROVE  After(b, batch, n, k) = Outcome(batch[j])
<1>1. j \in 1..n
  BY DEF LastTouch
<1>2. LastTouch(batch, n, k, CHOOSE i \in 1..n : LastTouch(batch, n, k, i))
  BY <1>1
<1>3. (CHOOSE i \in 1..n : LastTouch(batch, n, k, i)) = j
  BY <1>2, LastTouchUnique
<1>. QED
  BY <1>1, <1>3 DEF After

LEMMA AfterTouched ==
  ASSUME NEW b, NEW batch, NEW n \in Nat, NEW k, batch[n + 1].key = k
  PROVE  After(b, batch, n + 1, k) = Outcome(batch[n + 1])
<1>1. LastTouch(batch, n + 1, k, n + 1)
  BY DEF LastTouch
<1>. QED
  BY <1>1, AfterIs

LEMMA AfterUntouched ==
  ASSUME NEW b, NEW batch, NEW n \in Nat, NEW k, batch[n + 1].key # k
  PROVE  After(b, batch, n + 1, k) = After(b, batch, n, k)
<1>1. \A j : LastTouch(batch, n + 1, k, j) <=> LastTouch(batch, n, k, j)
  <2>. TAKE j
  <2>1. ASSUME LastTouch(batch, n + 1, k, j)
        PROVE  LastTouch(batch, n, k, j)
    BY <2>1 DEF LastTouch
  <2>2. ASSUME LastTouch(batch, n, k, j)
        PROVE  LastTouch(batch, n + 1, k, j)
    <3>1. j \in 1..(n + 1) /\ batch[j].key = k
      BY <2>2 DEF LastTouch
    <3>2. ASSUME NEW m \in 1..(n + 1), m > j
          PROVE  batch[m].key # k
      BY <2>2, <3>2 DEF LastTouch
    <3>. QED
      BY <3>1, <3>2 DEF LastTouch
  <2>. QED
    BY <2>1, <2>2
<1>2. CASE \E j : LastTouch(batch, n, k, j)
  BY <1>1, <1>2, AfterIs
<1>3. CASE ~ \E j : LastTouch(batch, n, k, j)
  BY <1>1, <1>3 DEF After
<1>. QED
  BY <1>2, <1>3

-----------------------------------------------------------------------------
(* What a batch may do to a key, without asking which item comes last.     *)

LEMMA AfterCases ==
  ASSUME NEW b, NEW batch, NEW n \in Nat, NEW k
  PROVE  \/ After(b, batch, n, k) = b[k]
         \/ \E j \in 1..n : /\ batch[j].key = k
                            /\ After(b, batch, n, k) = Outcome(batch[j])
<1>1. CASE \E j : LastTouch(batch, n, k, j)
  <2>1. PICK j : LastTouch(batch, n, k, j)
    BY <1>1
  <2>2. j \in 1..n /\ batch[j].key = k
    BY <2>1 DEF LastTouch
  <2>. QED
    BY <2>1, <2>2, AfterIs
<1>2. CASE ~ \E j : LastTouch(batch, n, k, j)
  BY <1>2 DEF After
<1>. QED
  BY <1>1, <1>2

(* A key that no item is about keeps its value.                            *)
LEMMA PutKeysFrame ==
  ASSUME NEW b, NEW batch, Len(batch) \in Nat, NEW k \in DOMAIN b,
         \A j \in 1..Len(batch) : batch[j].key # k
  PROVE  PutKeys(b, batch)[k] = b[k]
<1>. DEFINE n == Len(batch)
<1>1. \/ After(b, batch, n, k) = b[k]
      \/ \E j \in 1..n : /\ batch[j].key = k
                         /\ After(b, batch, n, k) = Outcome(batch[j])
  <2>. HIDE DEF n
  <2>1. n \in Nat
    BY DEF n
  <2>. QED
    BY <2>1, AfterCases
<1>2. After(b, batch, n, k) = b[k]
  BY <1>1
<1>. QED
  BY <1>2 DEF PutKeys

(* A key holds what it held or what some item about it has.                *)
LEMMA PutKeysCases ==
  ASSUME NEW b, NEW batch, Len(batch) \in Nat, NEW k \in DOMAIN b
  PROVE  \/ PutKeys(b, batch)[k] \in {b[k], Absent}
         \/ \E j \in 1..Len(batch) : /\ batch[j].key = k
                                     /\ PutKeys(b, batch)[k] = batch[j].data
<1>1. CASE Clashes(b, batch)
  BY <1>1 DEF PutKeys
<1>2. CASE ~Clashes(b, batch)
  <2>1. PutKeys(b, batch)[k] = After(b, batch, Len(batch), k)
    BY <1>2 DEF PutKeys
  <2>2. \A j : Outcome(batch[j]) \in {Absent, batch[j].data}
    BY DEF Outcome
  <2>. DEFINE n == Len(batch)
  <2>3. \/ After(b, batch, n, k) = b[k]
        \/ \E j \in 1..n : /\ batch[j].key = k
                           /\ After(b, batch, n, k) = Outcome(batch[j])
    <3>. HIDE DEF n
    <3>1. n \in Nat
      BY DEF n
    <3>. QED
      BY <3>1, AfterCases
  <2>. QED
    BY <2>1, <2>2, <2>3
<1>. QED
  BY <1>1, <1>2

LEMMA PutKeysDomain ==
  ASSUME NEW b, NEW batch, NEW K, b = [k \in K |-> b[k]]
  PROVE  PutKeys(b, batch) = [k \in K |-> PutKeys(b, batch)[k]]
<1>1. DOMAIN b = K
  OBVIOUS
<1>2. CASE Clashes(b, batch)
  BY <1>2 DEF PutKeys
<1>3. CASE ~Clashes(b, batch)
  BY <1>1, <1>3, Zenon DEF PutKeys
<1>. QED
  BY <1>2, <1>3
=============================================================================
