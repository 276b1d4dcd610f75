---------------------------- MODULE AbstractProofs ----------------------------
(***************************************************************************)
(* The two abstract specifications: that the loop of PutKeys inside a      *)
(* bbolt transaction implements AtomicBatches, for every set of keys,      *)
(* values, clients and batches; and what every implementation of Scan has, *)
(* for every set of entries, in every order, wherever pages begin and end. *)
(***************************************************************************)
EXTENDS DatastoreTx, DatastoreProofs, TLAPS

CONSTANTS Entry, Order, Rank, Topic, Place, Scanner

VARIABLES stored, scan

(* Any paged listing.                                                      *)
Scan == INSTANCE Scan

-----------------------------------------------------------------------------
IInv == TypeOK /\ LoopInv

LEMMA InitInv == Init => IInv
<1>. SUFFICES ASSUME Init PROVE IInv
  OBVIOUS
<1>1. TypeOK
  BY DEF Init, TypeOK, EmptyBucket, Call
<1>2. LoopInv
  BY DatastoreAssumption DEF Init, LoopInv, DatastoreAssumption
<1>. QED
  BY <1>1, <1>2 DEF IInv

(* What the current item is, while a transaction is in its loop.           *)
LEMMA LoopFacts ==
  ASSUME IInv, NEW c \in Client, InLoop(c)
  PROVE  /\ call[c].phase = "pending" /\ call[c].batch \in Batch
         /\ call[c] = Pending(call[c].batch)
         /\ next \in 1..Len(call[c].batch)
         /\ Current(c) \in Item(Key, Val)
<1>1. writer = c /\ call[c] \in Call /\ call[c].phase = "pending"
  BY DEF IInv, TypeOK, LoopInv, InLoop
<1>2. PICK b \in Batch : call[c] = Pending(b)
  BY <1>1 DEF Call, Idle, Answered
<1>3. b \in Seq(Item(Key, Val)) /\ call[c].batch = b
  BY <1>2, DatastoreAssumption DEF DatastoreAssumption, Pending
<1>4. next \in 1..Len(b)
  BY <1>3 DEF InLoop, IInv, TypeOK
<1>. QED
  BY <1>1, <1>2, <1>3, <1>4 DEF Current

(* One item of the loop: the copy moves on as the batch prescribes.        *)
LEMMA ItemKeeps ==
  ASSUME IInv, NEW c \in Client, InLoop(c),
         ~Clash(bucket, call[c].batch, next),
         tx' = [tx EXCEPT ![Current(c).key] = Outcome(Current(c))],
         next' = next + 1, UNCHANGED <<bucket, call, writer>>
  PROVE  IInv'
<1>. DEFINE batch == call[c].batch
<1>1. /\ writer = c /\ call[c].phase = "pending" /\ next \in 1..Len(batch)
      /\ Current(c) \in Item(Key, Val) /\ batch \in Seq(Item(Key, Val))
      /\ Current(c) = batch[next]
  BY LoopFacts, DatastoreAssumption DEF DatastoreAssumption, InLoop, Current
<1>2. /\ \A i \in 1..(next - 1) : ~Clash(bucket, batch, i)
      /\ \A k \in Key : tx[k] = After(bucket, batch, next - 1, k)
      /\ tx \in [Key -> Val \cup {Absent}]
  BY <1>1 DEF IInv, LoopInv, TypeOK
<1>3. Outcome(Current(c)) \in Val \cup {Absent} /\ Current(c).key \in Key
  BY <1>1 DEF Outcome, Item
<1>4. TypeOK'
  BY <1>1, <1>2, <1>3 DEF IInv, TypeOK
<1>5. ASSUME NEW k \in Key
      PROVE  tx'[k] = After(bucket, batch, next, k)
  <2>1. next - 1 \in Nat /\ (next - 1) + 1 = next
    BY <1>1
  <2>2. CASE batch[next].key = k
    <3>1. After(bucket, batch, next, k) = Outcome(batch[next])
      BY <2>1, <2>2, AfterTouched
    <3>. QED
      BY <1>1, <1>2, <2>2, <3>1
  <2>3. CASE batch[next].key # k
    <3>1. After(bucket, batch, next, k) = After(bucket, batch, next - 1, k)
      BY <2>1, <2>3, AfterUntouched
    <3>. QED
      BY <1>1, <1>2, <2>3, <3>1
  <2>. QED
    BY <2>2, <2>3
<1>6. LoopInv'
  <2>. SUFFICES /\ next + 1 <= Len(batch) + 1
                /\ \A i \in 1..next : ~Clash(bucket, batch, i)
                /\ \A k \in Key : tx'[k] = After(bucket, batch, next, k)
    BY <1>1 DEF LoopInv, Clash
  <2>1. \A i \in 1..next : ~Clash(bucket, batch, i)
    BY <1>1, <1>2
  <2>. QED
    BY <1>1, <1>5, <2>1
<1>. QED
  BY <1>4, <1>6 DEF IInv

(* The items of a clash-free prefix are exactly those the loop put.        *)
LEMMA MayPutNoClash ==
  ASSUME IInv, NEW c \in Client, InLoop(c)
  PROVE  /\ After(bucket, call[c].batch, next - 1, Current(c).key)
              = tx[Current(c).key]
         /\ Clash(bucket, call[c].batch, next) <=>
              Current(c).op = "create" /\ Has(tx, Current(c).key)
<1>1. Current(c) \in Item(Key, Val)
  BY LoopFacts
<1>2. Current(c).key \in Key
  BY <1>1 DEF Item
<1>3. After(bucket, call[c].batch, next - 1, Current(c).key) = tx[Current(c).key]
  BY <1>2 DEF IInv, LoopInv, InLoop
<1>. QED
  BY <1>3 DEF Clash, Has, Current

(* A call that is answered or dropped leaves no open transaction.          *)
LEMMA CloseKeeps ==
  ASSUME TypeOK, writer' = NoClient, bucket' \in [Key -> Val \cup {Absent}],
         call' \in [Client -> Call], UNCHANGED <<tx, next>>
  PROVE  IInv'
BY DatastoreAssumption DEF DatastoreAssumption, IInv, TypeOK, LoopInv

LEMMA AnsweredIsCall ==
  ASSUME TypeOK, NEW c \in Client, call[c].phase = "pending", NEW a \in Answer
  PROVE  [call EXCEPT ![c] = Answered(call[c].batch, a)] \in [Client -> Call]
<1>1. PICK b \in Batch : call[c] = Pending(b)
  BY DEF TypeOK, Call, Idle, Answered
<1>2. Answered(call[c].batch, a) \in Call
  BY <1>1 DEF Pending, Call
<1>. QED
  BY <1>2 DEF TypeOK

LEMMA NextInv == IInv /\ [Next]_vars => IInv'
<1>. SUFFICES ASSUME IInv, [Next]_vars PROVE IInv'
  OBVIOUS
<1>0. TypeOK /\ LoopInv
  BY DEF IInv
<1>1. ASSUME NEW c \in Client, NEW b \in Batch, Submit(c, b)
      PROVE  IInv'
  <2>1. Pending(b) \in Call /\ writer # c
    BY <1>0, <1>1 DEF Submit, LoopInv, Idle, Call
  <2>2. TypeOK'
    BY <1>0, <1>1, <2>1 DEF TypeOK, Submit
  <2>3. ASSUME NEW d \in Client, writer' = d
        PROVE  call'[d] = call[d] /\ writer = d
    BY <1>0, <1>1, <2>1, <2>3 DEF TypeOK, Submit
  <2>4. LoopInv'
    BY <1>0, <1>1, <2>3 DEF LoopInv, Submit, Clash
  <2>. QED
    BY <2>2, <2>4 DEF IInv
<1>2. ASSUME NEW c \in Client, Begin(c)
      PROVE  IInv'
  <2>1. PICK b \in Batch : call[c] = Pending(b)
    BY <1>0, <1>2 DEF TypeOK, Begin, Call, Idle, Answered
  <2>2. call[c].batch \in Seq(Item(Key, Val))
    BY <2>1, DatastoreAssumption DEF DatastoreAssumption, Pending
  <2>3. TypeOK'
    BY <1>0, <1>2 DEF TypeOK, Begin
  <2>4. \A k \in Key : tx'[k] = After(bucket, call[c].batch, 0, k)
    BY <1>2, AfterNone DEF Begin
  <2>5. LoopInv'
    BY <1>2, <2>2, <2>4 DEF LoopInv, Begin
  <2>. QED
    BY <2>3, <2>5 DEF IInv
<1>3. ASSUME NEW c \in Client, DeleteItem(c)
      PROVE  IInv'
  <2>1. ~Clash(bucket, call[c].batch, next)
    BY <1>3 DEF DeleteItem, Clash, Current
  <2>2. Outcome(Current(c)) = Absent
    BY <1>3 DEF DeleteItem, Outcome
  <2>. QED
    BY <1>3, <2>1, <2>2, ItemKeeps DEF DeleteItem
<1>4. ASSUME NEW c \in Client, PutItem(c)
      PROVE  IInv'
  <2>1. ~Clash(bucket, call[c].batch, next)
    BY <1>4, MayPutNoClash DEF PutItem, MayPut
  <2>2. Outcome(Current(c)) = Current(c).data
    BY <1>4 DEF PutItem, MayPut, Outcome
  <2>. QED
    BY <1>4, <2>1, <2>2, ItemKeeps DEF PutItem
<1>5. ASSUME NEW c \in Client, RefuseItem(c) \/ FailItem(c)
      PROVE  IInv'
  <2>1. call[c].phase = "pending"
    BY <1>5, LoopFacts DEF RefuseItem, FailItem
  <2>2. PICK a \in Answer : Rollback(c, a)
    BY <1>5 DEF RefuseItem, FailItem, Answer
  <2>. QED
    BY <1>0, <2>1, <2>2, AnsweredIsCall, CloseKeeps DEF Rollback, TypeOK
<1>6. ASSUME NEW c \in Client, Commit(c)
      PROVE  IInv'
  <2>1. call[c].phase = "pending" /\ "ok" \in Answer
    BY <1>0, <1>6 DEF Commit, LoopInv, Answer
  <2>2. call' \in [Client -> Call]
    BY <1>0, <1>6, <2>1, AnsweredIsCall DEF Commit
  <2>. QED
    BY <1>0, <1>6, <2>2, CloseKeeps DEF Commit, TypeOK
<1>7. ASSUME NEW c \in Client, Return(c)
      PROVE  IInv'
  <2>1. Idle \in Call /\ writer # c
    BY <1>0, <1>7 DEF Return, LoopInv, Call
  <2>2. TypeOK'
    BY <1>0, <1>7, <2>1 DEF TypeOK, Return
  <2>3. ASSUME NEW d \in Client, writer' = d
        PROVE  call'[d] = call[d] /\ writer = d
    BY <1>0, <1>7, <2>1, <2>3 DEF TypeOK, Return
  <2>4. LoopInv'
    BY <1>0, <1>7, <2>3 DEF LoopInv, Return, Clash
  <2>. QED
    BY <2>2, <2>4 DEF IInv
<1>8. CASE Crash
  <2>1. call' \in [Client -> Call]
    BY <1>8 DEF Crash, Call
  <2>. QED
    BY <1>0, <1>8, <2>1, CloseKeeps DEF Crash, TypeOK
<1>9. CASE UNCHANGED vars
  BY <1>0, <1>9 DEF vars, IInv, TypeOK, LoopInv, Clash
<1>. QED
  BY <1>1, <1>2, <1>3, <1>4, <1>5, <1>6, <1>7, <1>8, <1>9 DEF Next, Step

LEMMA Invariance == Spec => []IInv
BY InitInv, NextInv, PTL DEF Spec

(* The transaction's state is well typed.                                  *)
THEOREM TypeCorrect == Spec => []TypeOK
BY Invariance, PTL DEF IInv

(* The loop computes the batch, item by item.                              *)
THEOREM LoopComputesBatch == Spec => []LoopInv
BY Invariance, PTL DEF IInv

-----------------------------------------------------------------------------
(* The steps of a transaction are stutters of the abstract store, but for  *)
(* its last, which applies or refuses the batch.                           *)
LEMMA SameBatch ==
  ASSUME NEW b, NEW batch
  PROVE  /\ Atomic!Clashes(b, batch) <=> Clashes(b, batch)
         /\ Atomic!PutKeys(b, batch) = PutKeys(b, batch)
<1>1. \A n, k : Atomic!After(b, batch, n, k) = After(b, batch, n, k)
  BY DEF After, Atomic!After, LastTouch, Atomic!LastTouch, Outcome, Atomic!Outcome
<1>2. Atomic!Clashes(b, batch) <=> Clashes(b, batch)
  BY <1>1 DEF Clashes, Atomic!Clashes, Clash, Atomic!Clash
<1>. QED
  BY <1>1, <1>2 DEF PutKeys, Atomic!PutKeys

LEMMA RefuseIsApply ==
  ASSUME IInv, NEW c \in Client, RefuseItem(c)
  PROVE  Atomic!Apply(c)
<1>1. /\ call[c].phase = "pending" /\ next \in 1..Len(call[c].batch)
      /\ call[c].batch \in Seq(Item(Key, Val))
  BY LoopFacts, DatastoreAssumption DEF RefuseItem, DatastoreAssumption
<1>2. Clash(bucket, call[c].batch, next)
  BY MayPutNoClash DEF RefuseItem
<1>3. Clashes(bucket, call[c].batch)
  BY <1>1, <1>2 DEF Clashes
<1>4. PutKeys(bucket, call[c].batch) = bucket
  BY <1>3 DEF PutKeys
<1>. QED
  BY <1>1, <1>3, <1>4, SameBatch
     DEF RefuseItem, Rollback, Answered, Atomic!Apply, Atomic!Answered

LEMMA CommitIsApply ==
  ASSUME IInv, NEW c \in Client, Commit(c)
  PROVE  Atomic!Apply(c)
<1>. DEFINE batch == call[c].batch
<1>1. /\ call[c].phase = "pending" /\ next <= Len(batch) + 1
      /\ \A i \in 1..(next - 1) : ~Clash(bucket, batch, i)
      /\ \A k \in Key : tx[k] = After(bucket, batch, next - 1, k)
  BY DEF IInv, LoopInv, Commit
<1>2. PICK b \in Batch : call[c] = Pending(b)
  BY <1>1 DEF IInv, TypeOK, Call, Idle, Answered
<1>3. batch \in Seq(Item(Key, Val))
  BY <1>2, DatastoreAssumption DEF DatastoreAssumption, Pending
<1>4. next - 1 = Len(batch)
  BY <1>1, <1>3 DEF Commit, IInv, TypeOK
<1>5. ~Clashes(bucket, batch)
  BY <1>1, <1>3, <1>4 DEF Clashes
<1>6. PutKeys(bucket, batch) = tx
  <2>1. DOMAIN bucket = Key /\ tx = [k \in Key |-> tx[k]]
    BY DEF IInv, TypeOK
  <2>2. PutKeys(bucket, batch) = [k \in Key |-> After(bucket, batch, Len(batch), k)]
    BY <1>5, <2>1 DEF PutKeys
  <2>3. \A k \in Key : After(bucket, batch, Len(batch), k) = tx[k]
    BY <1>1, <1>4
  <2>. HIDE DEF batch
  <2>. QED
    BY <2>1, <2>2, <2>3
<1>. QED
  BY <1>1, <1>5, <1>6, SameBatch
     DEF Commit, Answered, Atomic!Apply, Atomic!Answered

(* PutKeys as it runs implements the atomic store: nobody sees part of a   *)
(* batch, a refused batch leaves no trace, and the caller learns which it  *)
(* was, with any number of callers and a crash at any point.               *)
THEOREM ImplementsAtomicStore == Spec => AtomicSpec
<1>1. Init => Atomic!Init
  BY DEF Init, Atomic!Init, EmptyBucket, Atomic!EmptyBucket, Idle, Atomic!Idle
<1>2. IInv /\ [Next]_vars => [Atomic!Next]_(Atomic!vars)
  <2>. SUFFICES ASSUME IInv, [Next]_vars
                PROVE  Atomic!Next \/ UNCHANGED <<bucket, call>>
    BY DEF Atomic!vars
  <2>1. ASSUME NEW c \in Client, NEW b \in Batch, Submit(c, b)
        PROVE  Atomic!Next
    BY <2>1 DEF Submit, Pending, Idle, Atomic!Next, Atomic!Submit,
                Atomic!Pending, Atomic!Idle
  <2>2. ASSUME NEW c \in Client, FailItem(c)
        PROVE  Atomic!Next
    <3>1. call[c].phase = "pending"
      BY <2>2, LoopFacts DEF FailItem
    <3>. QED
      BY <2>2, <3>1 DEF FailItem, Rollback, Answered, Atomic!Next, Atomic!Fail,
                        Atomic!Answered
  <2>3. ASSUME NEW c \in Client, RefuseItem(c) \/ Commit(c)
        PROVE  Atomic!Next
    BY <2>3, RefuseIsApply, CommitIsApply DEF Atomic!Next
  <2>4. ASSUME NEW c \in Client, Return(c)
        PROVE  Atomic!Next
    BY <2>4 DEF Return, Idle, Atomic!Next, Atomic!Return, Atomic!Idle
  <2>5. ASSUME NEW c \in Client, Begin(c) \/ DeleteItem(c) \/ PutItem(c)
        PROVE  UNCHANGED <<bucket, call>>
    BY <2>5 DEF Begin, DeleteItem, PutItem
  <2>6. CASE Crash
    BY <2>6 DEF Crash, Idle, Atomic!Next, Atomic!Crash, Atomic!Idle
  <2>7. CASE UNCHANGED vars
    BY <2>7 DEF vars
  <2>. QED
    BY <2>1, <2>2, <2>3, <2>4, <2>5, <2>6, <2>7 DEF Next, Step
<1>. QED
  BY <1>1, <1>2, Invariance, PTL DEF Spec, AtomicSpec, Atomic!Spec

-----------------------------------------------------------------------------
(* What was there all along was seen or comes at or after the place a      *)
(* listing goes on from.                                                   *)
Ahead(s) ==
  scan[s].pc = "open" =>
    \A k \in scan[s].steady :
      /\ k \in stored \cap scan[s].about
      /\ k \in scan[s].seen \/ Rank[scan[s].order][k] >= scan[s].at

ScanInv == Scan!TypeOK /\ Scan!SteadyAreSeen /\ \A s \in Scanner : Ahead(s)

LEMMA ScanFacts ==
  ASSUME Scan!ScanConstants, Scan!TypeOK, NEW s \in Scanner
  PROVE  /\ scan[s].pc \in {"idle", "open", "done"}
         /\ scan[s].pc = "open" =>
              /\ scan[s].order \in Order /\ scan[s].about \in Topic
              /\ scan[s].about \subseteq Entry
              /\ scan[s].at \in Place /\ scan[s].at \in Nat
              /\ scan[s].seen \subseteq Entry /\ scan[s].steady \subseteq Entry
              /\ \A k \in Entry : Rank[scan[s].order][k] \in Nat
         /\ scan[s].pc = "done" =>
              scan[s].seen \subseteq Entry /\ scan[s].steady \subseteq Entry
<1>1. scan[s] \in
        {Scan!Idle}
          \cup [pc : {"open"}, order : Order, about : Topic, at : Place,
                seen : SUBSET Entry, steady : SUBSET Entry]
          \cup [pc : {"done"}, seen : SUBSET Entry, steady : SUBSET Entry]
  BY DEF Scan!TypeOK
<1>2. CASE scan[s] = Scan!Idle
  BY <1>2 DEF Scan!Idle
<1>3. CASE scan[s] \in [pc : {"open"}, order : Order, about : Topic, at : Place,
                         seen : SUBSET Entry, steady : SUBSET Entry]
  <2>1. /\ scan[s].pc = "open"
        /\ scan[s].order \in Order /\ scan[s].about \in Topic
        /\ scan[s].at \in Place
        /\ scan[s].seen \subseteq Entry /\ scan[s].steady \subseteq Entry
    BY <1>3
  <2>2. PICK order \in Order, about \in Topic, at \in Place :
          /\ order = scan[s].order /\ about = scan[s].about /\ at = scan[s].at
    BY <2>1
  <2>3. about \subseteq Entry /\ at \in Nat /\ \A k \in Entry : Rank[order][k] \in Nat
    BY DEF Scan!ScanConstants
  <2>. QED
    BY <2>1, <2>2, <2>3
<1>4. CASE scan[s] \in [pc : {"done"}, seen : SUBSET Entry, steady : SUBSET Entry]
  BY <1>4
<1>. QED
  BY <1>1, <1>2, <1>3, <1>4

(* A step of one listing, to n, that keeps the invariant.                  *)
LEMMA ScanStepInv ==
  ASSUME ScanInv, NEW s \in Scanner, NEW n, stored' = stored,
         scan' = [scan EXCEPT ![s] = n],
         n \in {Scan!Idle}
           \cup [pc : {"open"}, order : Order, about : Topic, at : Place,
                 seen : SUBSET Entry, steady : SUBSET Entry]
           \cup [pc : {"done"}, seen : SUBSET Entry, steady : SUBSET Entry],
         n.pc = "done" => n.steady \subseteq n.seen,
         n.pc = "open" =>
           \A k \in n.steady :
             /\ k \in stored \cap n.about
             /\ k \in n.seen \/ Rank[n.order][k] >= n.at
  PROVE  ScanInv'
<1>1. /\ scan'[s] = n
      /\ \A t \in Scanner \ {s} : scan'[t] = scan[t]
  BY DEF ScanInv, Scan!TypeOK
<1>2. Scan!TypeOK'
  BY DEF ScanInv, Scan!TypeOK
<1>3. Scan!SteadyAreSeen'
  BY <1>1 DEF ScanInv, Scan!SteadyAreSeen
<1>4. ASSUME NEW t \in Scanner PROVE Ahead(t)'
  BY <1>1 DEF ScanInv, Ahead
<1>. QED
  BY <1>2, <1>3, <1>4 DEF ScanInv

LEMMA ScanNextInv == ASSUME Scan!ScanConstants PROVE ScanInv /\ [Scan!Next]_(Scan!vars) => ScanInv'
<1>. SUFFICES ASSUME ScanInv, [Scan!Next]_(Scan!vars) PROVE ScanInv'
  OBVIOUS
<1>1. ASSUME NEW s \in Scanner, Scan!Begin(s) PROVE ScanInv'
  <2>1. PICK order \in Order, about \in Topic, at \in Place :
          scan' = [scan EXCEPT ![s] =
            Scan!Open(order, about, at, {}, Scan!After(order, stored \cap about, at))]
    BY <1>1 DEF Scan!Begin
  <2>2. PICK steady : steady = Scan!After(order, stored \cap about, at)
    OBVIOUS
  <2>3. PICK n : n = Scan!Open(order, about, at, {}, steady)
    OBVIOUS
  <2>4. /\ n.pc = "open" /\ n.order = order /\ n.about = about /\ n.at = at
        /\ n.seen = {} /\ n.steady = steady
    BY <2>3 DEF Scan!Open
  <2>5. steady \in SUBSET Entry
    BY <2>2 DEF Scan!After, ScanInv, Scan!TypeOK
  <2>6. n \in [pc : {"open"}, order : Order, about : Topic, at : Place,
               seen : SUBSET Entry, steady : SUBSET Entry]
    BY <2>3, <2>5 DEF Scan!Open
  <2>7. \A k \in steady : k \in stored \cap about /\ Rank[order][k] >= at
    BY <2>2 DEF Scan!After
  <2>8. stored' = stored /\ scan' = [scan EXCEPT ![s] = n]
    BY <1>1, <2>1, <2>2, <2>3 DEF Scan!Begin
  <2>. QED
    BY <2>4, <2>6, <2>7, <2>8, ScanStepInv
<1>2. ASSUME NEW s \in Scanner, NEW q \in Place, Scan!NextPage(s, q) PROVE ScanInv'
  <2>. DEFINE now == scan[s].seen
                       \cup {k \in Scan!Rest(s) : Rank[scan[s].order][k] < q}
  <2>1. /\ scan[s].pc = "open" /\ stored' = stored
        /\ scan[s] \in [pc : {"open"}, order : Order, about : Topic, at : Place,
                        seen : SUBSET Entry, steady : SUBSET Entry]
    BY <1>2 DEF Scan!NextPage, ScanInv, Scan!TypeOK, Scan!Idle
  <2>2. now \in SUBSET Entry
    BY <2>1 DEF Scan!Rest, Scan!After, ScanInv, Scan!TypeOK
  <2>3. PICK seen : seen = now
    OBVIOUS
  <2>4. PICK n : n = Scan!Open(scan[s].order, scan[s].about, q, seen, scan[s].steady)
    OBVIOUS
  <2>5. PICK open : open = scan[s]
    OBVIOUS
  <2>6. [open EXCEPT !.at = q, !.seen = seen] = n
    <3>1. PICK mid : mid = [open EXCEPT !.at = q]
      OBVIOUS
    <3>2. mid = Scan!Open(open.order, open.about, q, open.seen, open.steady)
      BY <2>1, <2>5, <3>1 DEF Scan!Open
    <3>3. PICK order, about, was, steady :
            /\ mid = Scan!Open(order, about, q, was, steady)
            /\ n = Scan!Open(order, about, q, seen, steady)
      BY <2>4, <2>5, <3>2
    <3>4. [mid EXCEPT !.seen = seen] = n
      BY <3>3 DEF Scan!Open
    <3>. QED
      BY <3>1, <3>4
  <2>7. scan' = [scan EXCEPT ![s] = n]
    BY <1>2, <2>3, <2>5, <2>6 DEF Scan!NextPage, ScanInv, Scan!TypeOK
  <2>8. /\ n.pc = "open" /\ n.order = scan[s].order /\ n.about = scan[s].about
        /\ n.at = q /\ n.seen = seen /\ n.steady = scan[s].steady
    BY <2>4 DEF Scan!Open
  <2>9. n \in [pc : {"open"}, order : Order, about : Topic, at : Place,
               seen : SUBSET Entry, steady : SUBSET Entry]
    BY <2>1, <2>2, <2>3, <2>4 DEF Scan!Open
  <2>10. ASSUME NEW k \in scan[s].steady
         PROVE  /\ k \in stored \cap scan[s].about
                /\ k \in seen \/ Rank[scan[s].order][k] >= q
    <3>1. /\ k \in stored \cap scan[s].about /\ k \in Entry
          /\ k \in scan[s].seen \/ Rank[scan[s].order][k] >= scan[s].at
      BY <2>1 DEF ScanInv, Ahead
    <3>2. Rank[scan[s].order][k] \in Nat /\ q \in Nat
      BY <2>1, <3>1 DEF Scan!ScanConstants
    <3>. QED
      BY <2>3, <3>1, <3>2 DEF Scan!Rest, Scan!After
  <2>. QED
    BY <2>1, <2>7, <2>8, <2>9, <2>10, ScanStepInv
<1>3. ASSUME NEW s \in Scanner, Scan!LastPage(s) PROVE ScanInv'
  <2>1. scan[s].pc = "open" /\ stored' = stored
    BY <1>3 DEF Scan!LastPage
  <2>2. PICK seen : seen = scan[s].seen \cup Scan!Rest(s)
    OBVIOUS
  <2>3. PICK n : n = Scan!Done(seen, scan[s].steady)
    OBVIOUS
  <2>4. n.pc = "done" /\ n.seen = seen /\ n.steady = scan[s].steady
    BY <2>3 DEF Scan!Done
  <2>5. seen \in SUBSET Entry /\ scan[s].steady \in SUBSET Entry
    BY <2>1, <2>2, ScanFacts DEF Scan!Rest, Scan!After, ScanInv, Scan!TypeOK
  <2>6. n \in [pc : {"done"}, seen : SUBSET Entry, steady : SUBSET Entry]
    BY <2>3, <2>5 DEF Scan!Done
  <2>7. scan[s].steady \subseteq seen
    BY <2>1, <2>2 DEF Scan!Rest, Scan!After, ScanInv, Ahead
  <2>8. scan' = [scan EXCEPT ![s] = n]
    BY <1>3, <2>2, <2>3 DEF Scan!LastPage
  <2>. QED
    BY <2>1, <2>4, <2>6, <2>7, <2>8, ScanStepInv
<1>4. ASSUME NEW S \in SUBSET Scanner, Scan!Close(S) PROVE ScanInv'
  <2>1. \A s \in Scanner : scan'[s] = Scan!Idle \/ scan'[s] = scan[s]
    BY <1>4 DEF Scan!Close
  <2>2. Scan!Idle.pc = "idle"
    BY DEF Scan!Idle
  <2>3. Scan!TypeOK'
    BY <1>4 DEF Scan!Close, ScanInv, Scan!TypeOK
  <2>4. Scan!SteadyAreSeen'
    BY <2>1, <2>2 DEF ScanInv, Scan!SteadyAreSeen
  <2>5. ASSUME NEW s \in Scanner PROVE Ahead(s)'
    BY <1>4, <2>1, <2>2 DEF Scan!Close, ScanInv, Ahead
  <2>. QED
    BY <2>3, <2>4, <2>5 DEF ScanInv
<1>5. ASSUME Scan!Change PROVE ScanInv'
  <2>1. stored' \in SUBSET Entry
    BY <1>5 DEF Scan!Change
  <2>2. ASSUME NEW s \in Scanner, scan[s].pc # "open" PROVE scan'[s] = scan[s]
    BY <1>5, <2>2 DEF Scan!Change
  <2>3. ASSUME NEW s \in Scanner, scan[s].pc = "open"
        PROVE  scan'[s] = Scan!Open(scan[s].order, scan[s].about, scan[s].at,
                               scan[s].seen, scan[s].steady \cap stored')
    <3>1. scan[s] \in [pc : {"open"}, order : Order, about : Topic, at : Place,
                       seen : SUBSET Entry, steady : SUBSET Entry]
      BY <2>3 DEF ScanInv, Scan!TypeOK, Scan!Idle
    <3>2. PICK steady : steady = scan[s].steady \cap stored'
      OBVIOUS
    <3>3. PICK open : open = scan[s]
      OBVIOUS
    <3>4. [open EXCEPT !.steady = steady] =
            Scan!Open(open.order, open.about, open.at, open.seen, steady)
      BY <3>1, <3>3 DEF Scan!Open
    <3>5. scan'[s] = [open EXCEPT !.steady = steady]
      BY <1>5, <2>3, <3>2, <3>3 DEF Scan!Change
    <3>. QED
      BY <3>2, <3>3, <3>4, <3>5
  <2>4. ASSUME NEW s \in Scanner
        PROVE  scan'[s] \in {Scan!Idle}
                 \cup [pc : {"open"}, order : Order, about : Topic, at : Place,
                       seen : SUBSET Entry, steady : SUBSET Entry]
                 \cup [pc : {"done"}, seen : SUBSET Entry, steady : SUBSET Entry]
    <3>1. CASE scan[s].pc # "open"
      BY <2>2, <3>1 DEF ScanInv, Scan!TypeOK
    <3>2. CASE scan[s].pc = "open"
      <4>1. PICK steady : steady = scan[s].steady \cap stored'
        OBVIOUS
      <4>2. /\ scan[s].order \in Order /\ scan[s].about \in Topic
            /\ scan[s].at \in Place /\ scan[s].seen \subseteq Entry
            /\ steady \subseteq Entry
        BY <3>2, <4>1, ScanFacts DEF ScanInv
      <4>3. scan'[s] = Scan!Open(scan[s].order, scan[s].about, scan[s].at,
                            scan[s].seen, steady)
        BY <2>3, <3>2, <4>1
      <4>4. scan'[s] \in [pc : {"open"}, order : Order, about : Topic, at : Place,
                          seen : SUBSET Entry, steady : SUBSET Entry]
        BY <4>2, <4>3 DEF Scan!Open
      <4>. QED
        BY <4>4
    <3>. QED
      BY <3>1, <3>2
  <2>5. Scan!TypeOK'
    BY <1>5, <2>1, <2>4 DEF Scan!Change, Scan!TypeOK
  <2>6. ASSUME NEW s \in Scanner, scan[s].pc = "open"
        PROVE  /\ scan'[s].pc = "open" /\ scan'[s].order = scan[s].order
               /\ scan'[s].about = scan[s].about /\ scan'[s].at = scan[s].at
               /\ scan'[s].seen = scan[s].seen
               /\ scan'[s].steady = scan[s].steady \cap stored'
    <3>1. PICK now : now = scan'[s]
      OBVIOUS
    <3>2. PICK steady : steady = scan[s].steady \cap stored'
      OBVIOUS
    <3>3. now = Scan!Open(scan[s].order, scan[s].about, scan[s].at, scan[s].seen, steady)
      BY <2>3, <2>6, <3>1, <3>2
    <3>4. /\ now.pc = "open" /\ now.order = scan[s].order
          /\ now.about = scan[s].about /\ now.at = scan[s].at
          /\ now.seen = scan[s].seen /\ now.steady = steady
      BY <3>3 DEF Scan!Open
    <3>. QED
      BY <3>1, <3>2, <3>4
  <2>7. Scan!SteadyAreSeen'
    BY <2>2, <2>6 DEF ScanInv, Scan!SteadyAreSeen
  <2>8. ASSUME NEW s \in Scanner PROVE Ahead(s)'
    BY <2>2, <2>6 DEF ScanInv, Ahead
  <2>. QED
    BY <2>5, <2>7, <2>8 DEF ScanInv
<1>6. CASE UNCHANGED Scan!vars
  BY <1>6 DEF Scan!vars, ScanInv, Scan!TypeOK, Scan!SteadyAreSeen, Ahead
<1>. QED
  BY <1>1, <1>2, <1>3, <1>4, <1>5, <1>6 DEF Scan!Next

(* A paged listing that comes to its end has seen everything it is about   *)
(* that was there all along, however what is stored changes between its    *)
(* pages.  This is why SsmListing and Route53Listing are shown to be scans.*)
THEOREM SteadyIsSeen == ASSUME Scan!ScanConstants PROVE Scan!Spec => []Scan!SteadyAreSeen
<1>1. Scan!Init => ScanInv
  BY DEF Scan!Init, ScanInv, Scan!TypeOK, Scan!SteadyAreSeen, Ahead, Scan!Idle
<1>2. ScanInv => Scan!SteadyAreSeen
  BY DEF ScanInv
<1>. QED
  BY <1>1, <1>2, ScanNextInv, PTL DEF Scan!Spec
=============================================================================
