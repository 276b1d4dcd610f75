--------------------------- MODULE AtomicBatches ---------------------------
(***************************************************************************)
(* What internal/datastore promises its callers: a shared bucket to which  *)
(* every batch is applied in one step, whole or not at all, and an answer  *)
(* that says which.  DatastoreTx implements it.                            *)
(***************************************************************************)
EXTENDS Datastore

CONSTANTS Key, Val, Client, Batch

VARIABLES bucket,   \* the committed contents
          call      \* per client: its call and the answer it has, if any

vars == <<bucket, call>>

Idle == [phase |-> "idle"]
Pending(b) == [phase |-> "pending", batch |-> b]
Answered(b, answer) == [phase |-> "answered", batch |-> b, answer |-> answer]

Init == /\ bucket = EmptyBucket(Key)
        /\ call = [c \in Client |-> Idle]

Submit(c, b) ==
  /\ call[c] = Idle
  /\ call' = [call EXCEPT ![c] = Pending(b)]
  /\ UNCHANGED bucket

(* The batch takes effect, or is refused because a create item found its   *)
(* key taken, and its client learns which.                                 *)
Apply(c) ==
  /\ call[c].phase = "pending"
  /\ bucket' = PutKeys(bucket, call[c].batch)
  /\ call' = [call EXCEPT ![c] = Answered(call[c].batch,
                IF Clashes(bucket, call[c].batch) THEN "exists" ELSE "ok")]

(* An item cannot be stored at all; the batch is refused.                  *)
Fail(c) ==
  /\ call[c].phase = "pending"
  /\ call' = [call EXCEPT ![c] = Answered(call[c].batch, "failed")]
  /\ UNCHANGED bucket

Return(c) ==
  /\ call[c].phase = "answered"
  /\ call' = [call EXCEPT ![c] = Idle]
  /\ UNCHANGED bucket

(* The process dies: the callers are gone, what was committed stays.       *)
Crash ==
  /\ call' = [c \in Client |-> Idle]
  /\ UNCHANGED bucket

Next == \/ \E c \in Client : \/ \E b \in Batch : Submit(c, b)
                             \/ Apply(c)
                             \/ Fail(c)
                             \/ Return(c)
        \/ Crash

Spec == Init /\ [][Next]_vars
=============================================================================
