----------------------------- MODULE Datastore -----------------------------
(***************************************************************************)
(* The bucket operations of internal/datastore/datastore.go as functions   *)
(* from the bucket before a transaction to the bucket after it.  A bucket  *)
(* is a function from every key to its value or Absent.  bbolt runs one    *)
(* write transaction at a time, commits it as a whole or not at all, and   *)
(* serves every read from one committed bucket; DatastoreTx takes PutKeys  *)
(* apart into the loop the code runs and shows the two agree.              *)
(*                                                                         *)
(* A bucket that does not exist is the empty bucket: every reader maps     *)
(* ErrBucketNotFound to "nothing there" and every writer creates it first. *)
(***************************************************************************)
EXTENDS Integers, Sequences

CONSTANTS Absent    \* what Get answers for a key that is not in the bucket

(* The kinds of PutData: Delete; no Overwrite; Overwrite.                  *)
ItemOp == {"delete", "create", "overwrite"}

(* What a caller may put in a batch.                                       *)
Item(Keys, Vals) == [op : ItemOp, key : Keys, data : Vals]

EmptyBucket(Keys) == [k \in Keys |-> Absent]

Has(bucket, key) == bucket[key] # Absent

(* What one item leaves under its key.                                     *)
Outcome(item) == IF item.op = "delete" THEN Absent ELSE item.data

(* j is the last of the first n items of the batch that is about key.      *)
LastTouch(batch, n, key, j) ==
  /\ j \in 1..n
  /\ batch[j].key = key
  /\ \A m \in 1..n : m > j => batch[m].key # key

(* What is under key once the first n items of the batch are applied.      *)
After(bucket, batch, n, key) ==
  IF \E j \in 1..n : LastTouch(batch, n, key, j)
  THEN Outcome(batch[CHOOSE j \in 1..n : LastTouch(batch, n, key, j)])
  ELSE bucket[key]

(* Item i may not overwrite and finds its key taken: ErrKeyExists.         *)
Clash(bucket, batch, i) ==
  /\ batch[i].op = "create"
  /\ After(bucket, batch, i - 1, batch[i].key) # Absent

Clashes(bucket, batch) == \E i \in DOMAIN batch : Clash(bucket, batch, i)

(* The whole batch, or nothing of it.                                      *)
PutKeys(bucket, batch) ==
  IF Clashes(bucket, batch)
  THEN bucket
  ELSE [key \in DOMAIN bucket |-> After(bucket, batch, Len(batch), key)]

DeleteKeys(bucket, keys) ==
  [key \in DOMAIN bucket |-> IF key \in keys THEN Absent ELSE bucket[key]]

DeleteBucket(bucket) == [key \in DOMAIN bucket |-> Absent]
=============================================================================
