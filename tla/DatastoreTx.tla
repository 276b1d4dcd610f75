---------------------------- MODULE DatastoreTx ----------------------------
(***************************************************************************)
(* PutKeys of internal/datastore/datastore.go as it runs: the caller waits *)
(* for bbolt's single writer, then walks the batch item by item over the   *)
(* transaction's private copy of the bucket, and the return of the closure *)
(* commits the copy or throws it away.                                     *)
(*                                                                         *)
(* Definitions whose name starts with Broken are faulty variants of the    *)
(* definition after them; no specification uses them.  Each shows that a   *)
(* property would fail if the code had that fault.                         *)
(***************************************************************************)
EXTENDS Datastore

CONSTANTS Key, Val, Client, Batch, NoClient

ASSUME DatastoreAssumption ==
  /\ Absent \notin Val
  /\ NoClient \notin Client
  /\ Batch \subseteq Seq(Item(Key, Val))

VARIABLES bucket,   \* the committed contents, what every View reads
          call,     \* per client: its call of PutKeys and its answer
          writer,   \* the client whose write transaction is open
          tx,       \* that transaction's copy of the bucket
          next      \* the index of the item the loop looks at next

vars == <<bucket, call, writer, tx, next>>

Idle == [phase |-> "idle"]
Pending(b) == [phase |-> "pending", batch |-> b]
Answered(b, answer) == [phase |-> "answered", batch |-> b, answer |-> answer]

Answer == {"ok", "exists", "failed"}
Call == {Idle} \cup {Pending(b) : b \in Batch}
               \cup {Answered(b, a) : b \in Batch, a \in Answer}

Init == /\ bucket = EmptyBucket(Key)
        /\ call = [c \in Client |-> Idle]
        /\ writer = NoClient
        /\ tx = bucket
        /\ next = 1

Submit(c, b) ==
  /\ call[c] = Idle
  /\ call' = [call EXCEPT ![c] = Pending(b)]
  /\ UNCHANGED <<bucket, writer, tx, next>>

BrokenBegin(c) ==   \* the loop index starts one too low
  /\ call[c].phase = "pending"
  /\ writer = NoClient
  /\ writer' = c
  /\ tx' = bucket
  /\ next' = 0
  /\ UNCHANGED <<bucket, call>>

(* db.Update takes the writer lock and starts from the committed bucket.   *)
Begin(c) ==
  /\ call[c].phase = "pending"
  /\ writer = NoClient
  /\ writer' = c
  /\ tx' = bucket
  /\ next' = 1
  /\ UNCHANGED <<bucket, call>>

InLoop(c) == writer = c /\ next <= Len(call[c].batch)

Current(c) == call[c].batch[next]

BrokenDeleteItem(c) ==   \* the loop does not move on after a delete
  /\ InLoop(c)
  /\ Current(c).op = "delete"
  /\ tx' = [tx EXCEPT ![Current(c).key] = Absent]
  /\ UNCHANGED <<bucket, call, writer, next>>

(* b.Delete of a key, there or not.                                        *)
DeleteItem(c) ==
  /\ InLoop(c)
  /\ Current(c).op = "delete"
  /\ tx' = [tx EXCEPT ![Current(c).key] = Absent]
  /\ next' = next + 1
  /\ UNCHANGED <<bucket, call, writer>>

BrokenMayPut(c) ==   \* looks for the key in the committed bucket
  \/ Current(c).op = "overwrite"
  \/ Current(c).op = "create" /\ ~Has(bucket, Current(c).key)

MayPut(c) ==
  \/ Current(c).op = "overwrite"
  \/ Current(c).op = "create" /\ ~Has(tx, Current(c).key)

PutItem(c) ==
  /\ InLoop(c)
  /\ MayPut(c)
  /\ tx' = [tx EXCEPT ![Current(c).key] = Current(c).data]
  /\ next' = next + 1
  /\ UNCHANGED <<bucket, call, writer>>

BrokenRollback(c, answer) ==   \* the error is answered but the copy committed
  /\ call' = [call EXCEPT ![c] = Answered(call[c].batch, answer)]
  /\ writer' = NoClient
  /\ bucket' = tx
  /\ UNCHANGED <<tx, next>>

(* The closure returns an error: the copy is dropped, the lock released.   *)
Rollback(c, answer) ==
  /\ call' = [call EXCEPT ![c] = Answered(call[c].batch, answer)]
  /\ writer' = NoClient
  /\ UNCHANGED <<bucket, tx, next>>

(* ErrKeyExists, on the transaction's own view of the key.                 *)
RefuseItem(c) ==
  /\ InLoop(c)
  /\ Current(c).op = "create"
  /\ Has(tx, Current(c).key)
  /\ Rollback(c, "exists")

(* Marshal, Delete or Put fails on the item.                               *)
FailItem(c) ==
  /\ InLoop(c)
  /\ Current(c).op = "delete" \/ MayPut(c)
  /\ Rollback(c, "failed")

(* The loop is over, the closure returns nil and bbolt commits.            *)
Commit(c) ==
  /\ writer = c
  /\ next > Len(call[c].batch)
  /\ bucket' = tx
  /\ call' = [call EXCEPT ![c] = Answered(call[c].batch, "ok")]
  /\ writer' = NoClient
  /\ UNCHANGED <<tx, next>>

Return(c) ==
  /\ call[c].phase = "answered"
  /\ call' = [call EXCEPT ![c] = Idle]
  /\ UNCHANGED <<bucket, writer, tx, next>>

(* The process dies and is started again: an open transaction is gone.     *)
Crash ==
  /\ call' = [c \in Client |-> Idle]
  /\ writer' = NoClient
  /\ UNCHANGED <<bucket, tx, next>>

Step(c) == \/ Begin(c)
           \/ DeleteItem(c)
           \/ PutItem(c)
           \/ RefuseItem(c)
           \/ Commit(c)

Next == \/ \E c \in Client : \/ \E b \in Batch : Submit(c, b)
                             \/ Step(c)
                             \/ FailItem(c)
                             \/ Return(c)
        \/ Crash

Spec == Init /\ [][Next]_vars

(* Update never gives up on a call, and the writer lock is handed on to    *)
(* every caller in turn (a sync.Mutex, which does not starve).  No call    *)
(* counts on an item that fails.                                           *)
FairSpec ==
  /\ Spec
  /\ \A c \in Client : SF_vars(Begin(c)) /\ WF_vars(Step(c))

-----------------------------------------------------------------------------
TypeOK ==
  /\ bucket \in [Key -> Val \cup {Absent}]
  /\ call \in [Client -> Call]
  /\ writer \in Client \cup {NoClient}
  /\ tx \in [Key -> Val \cup {Absent}]
  /\ next \in Nat \ {0}

(* While a transaction is open its copy is the committed bucket with the   *)
(* first items of the batch applied, and none of them clashed: the loop of *)
(* PutKeys computes what the definition of the batch says, item by item,   *)
(* although the later items of a batch may touch the keys of earlier ones. *)
LoopInv ==
  \A c \in Client :
    writer = c =>
      /\ call[c].phase = "pending"
      /\ next <= Len(call[c].batch) + 1
      /\ \A i \in 1..(next - 1) : ~Clash(bucket, call[c].batch, i)
      /\ \A k \in Key : tx[k] = After(bucket, call[c].batch, next - 1, k)

(* The transaction implements one atomic step: nobody ever sees part of a  *)
(* batch, a refused one leaves nothing, and the answer is the truth.       *)
Atomic == INSTANCE AtomicBatches
AtomicSpec == Atomic!Spec

(* Every call of PutKeys is answered, or its caller dies with the process. *)
CallsAnswered ==
  \A c \in Client : call[c].phase = "pending" ~> call[c].phase # "pending"
=============================================================================
