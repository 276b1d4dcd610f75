--------------------------- MODULE Route53Proofs ---------------------------
(***************************************************************************)
(* For every set of ids, names, record sets, requests in flight, change    *)
(* batches and imports: what a hosted zone request can do to the others.   *)
(***************************************************************************)
EXTENDS Route53, DatastoreProofs, SequenceTheorems, TLAPS

-----------------------------------------------------------------------------
(* The three kinds of keys do not meet.                                    *)

LEMMA KeysApart ==
  /\ \A i, j : ZoneKey(i) = ZoneKey(j) => i = j
  /\ \A c, d : ChangeKey(c) = ChangeKey(d) => c = d
  /\ \A i, j, r, q : RecordKey(i, r) = RecordKey(j, q) => i = j /\ r = q
  /\ \A i, c : ZoneKey(i) # ChangeKey(c)
  /\ \A i, j, r : ZoneKey(i) # RecordKey(j, r)
  /\ \A c, j, r : ChangeKey(c) # RecordKey(j, r)
BY DEF ZoneKey, ChangeKey, RecordKey

LEMMA KeysAreKeys ==
  /\ \A i \in ZoneId : ZoneKey(i) \in Key /\ ZoneKey(i) \in ZoneKeys
  /\ \A c \in ChangeId : ChangeKey(c) \in Key /\ ChangeKey(c) \in ChangeKeys
  /\ \A i \in ZoneId, r \in Rr :
       RecordKey(i, r) \in Key /\ RecordKey(i, r) \in RecordKeys
  /\ \A k \in Key : \/ \E i \in ZoneId : k = ZoneKey(i)
                    \/ \E c \in ChangeId : k = ChangeKey(c)
                    \/ \E i \in ZoneId, r \in Rr : k = RecordKey(i, r)
BY DEF Key, ZoneKeys, ChangeKeys, RecordKeys

(* What a well-typed bucket holds under each kind of key.                  *)
BucketType(b) ==
  /\ b = [k \in Key |-> b[k]]
  /\ \A i \in ZoneId : b[ZoneKey(i)] \in HostedZoneData \cup {Absent}
  /\ \A i \in ZoneId, r \in Rr : b[RecordKey(i, r)] \in {Record, Absent}
  /\ \A c \in ChangeId : b[ChangeKey(c)] \in {ChangeInfo, Absent}

HandlerType ==
  /\ handler \in [Handler -> HandlerState]
  /\ overtaken \in SUBSET ZoneId

LEMMA TypeSplits == TypeOK <=> BucketType(bucket) /\ HandlerType
<1>1. ASSUME TypeOK PROVE BucketType(bucket)
  BY <1>1, KeysAreKeys DEF TypeOK, BucketType
<1>2. ASSUME BucketType(bucket)
      PROVE  /\ bucket \in [Key -> HostedZoneData \cup {Record, ChangeInfo, Absent}]
             /\ \A k \in ZoneKeys : bucket[k] \in HostedZoneData \cup {Absent}
             /\ \A k \in RecordKeys : bucket[k] \in {Record, Absent}
             /\ \A k \in ChangeKeys : bucket[k] \in {ChangeInfo, Absent}
  <2>1. \A k \in Key : bucket[k] \in HostedZoneData \cup {Record, ChangeInfo, Absent}
    BY <1>2, KeysAreKeys DEF BucketType
  <2>2. bucket \in [Key -> HostedZoneData \cup {Record, ChangeInfo, Absent}]
    BY <1>2, <2>1 DEF BucketType
  <2>. QED
    BY <1>2, <2>2 DEF BucketType, ZoneKeys, RecordKeys, ChangeKeys
<1>. QED
  BY <1>1, <1>2 DEF TypeOK, HandlerType

-----------------------------------------------------------------------------
(* The items of the batches.                                               *)

Data == HostedZoneData \cup {Record, ChangeInfo}

(* An item about a record set of zone i, or about change info c.           *)
RecordItem(item, i) ==
  \E r \in Rr : item.key = RecordKey(i, r) /\ item.data = Record
ChangeItem(item, c) == item.key = ChangeKey(c) /\ item.data = ChangeInfo

LEMMA RecordItems ==
  ASSUME NEW i \in ZoneId, NEW changes \in Seq(ChangeData), convertible(changes)
  PROVE  /\ convertToPutData(i, changes) \in Seq(Item(Key, Data))
         /\ Len(convertToPutData(i, changes)) = Len(changes)
         /\ \A j \in 1..Len(changes) :
              RecordItem(convertToPutData(i, changes)[j], i)
<1>. DEFINE s == convertToPutData(i, changes)
            item(j) == [op |-> ItemOpOf[changes[j].action],
                        key |-> RecordKey(i, changes[j].rr), data |-> Record]
<1>1. s = [j \in 1..Len(changes) |-> item(j)]
  BY DEF convertToPutData
<1>2. ASSUME NEW j \in 1..Len(changes)
      PROVE  /\ item(j) \in Item(Key, Data)
             /\ RecordItem(item(j), i)
  <2>1. changes[j] \in ChangeData /\ changes[j].rr # Outside
    BY DEF convertible
  <2>2. changes[j].rr \in Rr /\ changes[j].action \in {"CREATE", "UPSERT", "DELETE"}
    BY <2>1 DEF ChangeData
  <2>3. ItemOpOf[changes[j].action] \in ItemOp
    BY <2>2 DEF ItemOpOf, ItemOp
  <2>4. RecordKey(i, changes[j].rr) \in Key
    BY <2>2, KeysAreKeys
  <2>. QED
    BY <2>2, <2>3, <2>4 DEF Item, Data, RecordItem
<1>. QED
  BY <1>1, <1>2

LEMMA ChangeItems ==
  ASSUME NEW c \in ChangeId
  PROVE  /\ PutChange(c) \in Seq(Item(Key, Data))
         /\ Len(PutChange(c)) = 1
         /\ ChangeItem(PutChange(c)[1], c)
BY KeysAreKeys DEF PutChange, Item, ItemOp, Data, ChangeItem

LEMMA ZoneItems ==
  ASSUME NEW i \in ZoneId, NEW zone \in HostedZoneData, NEW op \in ItemOp
  PROVE  /\ PutZone(i, zone, op) \in Seq(Item(Key, Data))
         /\ Len(PutZone(i, zone, op)) = 1
         /\ PutZone(i, zone, op)[1] = [op |-> op, key |-> ZoneKey(i), data |-> zone]
BY KeysAreKeys DEF PutZone, Item, Data

LEMMA RecordSetsItems ==
  ASSUME NEW i \in ZoneId, NEW changes \in Seq(ChangeData), NEW c \in ChangeId,
         convertible(changes)
  PROVE  /\ Len(RecordSets(i, changes, c)) \in Nat
         /\ \A j \in 1..Len(RecordSets(i, changes, c)) :
              \/ RecordItem(RecordSets(i, changes, c)[j], i)
              \/ ChangeItem(RecordSets(i, changes, c)[j], c)
<1>. DEFINE s == convertToPutData(i, changes)
            t == PutChange(c)
<1>1. /\ s \in Seq(Item(Key, Data)) /\ t \in Seq(Item(Key, Data))
      /\ \A j \in 1..Len(s) : RecordItem(s[j], i)
      /\ Len(t) = 1 /\ ChangeItem(t[1], c)
  BY RecordItems, ChangeItems
<1>2. RecordSets(i, changes, c) = s \o t
  BY DEF RecordSets
<1>. HIDE DEF s, t
<1>3. /\ Len(s \o t) \in Nat
      /\ \A j \in 1..Len(s \o t) : \/ j \in 1..Len(s) /\ (s \o t)[j] = s[j]
                                   \/ (s \o t)[j] = t[1]
  <2>1. /\ s \o t \in Seq(Item(Key, Data))
        /\ Len(s \o t) = Len(s) + Len(t)
        /\ \A j \in 1..(Len(s) + Len(t)) :
             (s \o t)[j] = IF j <= Len(s) THEN s[j] ELSE t[j - Len(s)]
    BY <1>1, ConcatProperties
  <2>2. Len(s) \in Nat
    BY <1>1
  <2>. QED
    BY <1>1, <2>1, <2>2
<1>. QED
  BY <1>1, <1>2, <1>3

LEMMA NewZoneItems ==
  ASSUME NEW i \in ZoneId, NEW zone \in HostedZoneData,
         NEW changes \in Seq(ChangeData), NEW c \in ChangeId,
         convertible(changes)
  PROVE  LET batch == NewZone(i, zone, changes, c)
         IN /\ Len(batch) \in Nat /\ Len(batch) >= 1
            /\ batch[1] = [op |-> "create", key |-> ZoneKey(i), data |-> zone]
            /\ \A j \in 2..Len(batch) : \/ RecordItem(batch[j], i)
                                        \/ ChangeItem(batch[j], c)
<1>. DEFINE u == PutZone(i, zone, "create")
            t == PutChange(c)
            s == convertToPutData(i, changes)
<1>1. /\ s \in Seq(Item(Key, Data)) /\ t \in Seq(Item(Key, Data))
      /\ u \in Seq(Item(Key, Data))
      /\ \A j \in 1..Len(s) : RecordItem(s[j], i)
      /\ Len(t) = 1 /\ ChangeItem(t[1], c)
      /\ Len(u) = 1
      /\ u[1] = [op |-> "create", key |-> ZoneKey(i), data |-> zone]
  BY RecordItems, ChangeItems, ZoneItems DEF ItemOp
<1>2. NewZone(i, zone, changes, c) = u \o t \o s
  BY DEF NewZone
<1>. HIDE DEF s, t, u
<1>3. /\ u \o t \in Seq(Item(Key, Data)) /\ Len(u \o t) = 2
      /\ (u \o t)[1] = u[1] /\ (u \o t)[2] = t[1]
  <2>1. /\ u \o t \in Seq(Item(Key, Data))
        /\ Len(u \o t) = Len(u) + Len(t)
        /\ \A j \in 1..(Len(u) + Len(t)) :
             (u \o t)[j] = IF j <= Len(u) THEN u[j] ELSE t[j - Len(u)]
    BY <1>1, ConcatProperties
  <2>. QED
    BY <1>1, <2>1
<1>4. /\ Len(u \o t \o s) = 2 + Len(s) /\ Len(s) \in Nat
      /\ \A j \in 1..(2 + Len(s)) :
           (u \o t \o s)[j] = IF j <= 2 THEN (u \o t)[j] ELSE s[j - 2]
  BY <1>1, <1>3
<1>. QED
  BY <1>1, <1>2, <1>3, <1>4

-----------------------------------------------------------------------------
(* What the batches do to a well-typed bucket.                             *)

(* Every zone, and every record set of other zones than i, is as before.   *)
OthersSame(b, n, i) ==
  /\ \A z \in ZoneId \ {i} : n[ZoneKey(z)] = b[ZoneKey(z)]
  /\ \A z \in ZoneId \ {i}, r \in Rr : n[RecordKey(z, r)] = b[RecordKey(z, r)]

LEMMA RecordSetsEffect ==
  ASSUME NEW b, BucketType(b), NEW i \in ZoneId,
         NEW changes \in Seq(ChangeData), NEW c \in ChangeId,
         convertible(changes)
  PROVE  LET n == PutKeys(b, RecordSets(i, changes, c))
         IN BucketType(n) /\ OthersSame(b, n, i) /\ n[ZoneKey(i)] = b[ZoneKey(i)]
<1>. DEFINE batch == RecordSets(i, changes, c)
            n == PutKeys(b, batch)
<1>1. /\ Len(batch) \in Nat
      /\ \A j \in 1..Len(batch) : RecordItem(batch[j], i) \/ ChangeItem(batch[j], c)
  BY RecordSetsItems
<1>. HIDE DEF batch
<1>2. b = [k \in Key |-> b[k]] /\ DOMAIN b = Key
  BY DEF BucketType
<1>3. n = [k \in Key |-> n[k]]
  BY <1>2, PutKeysDomain
<1>4. ASSUME NEW z \in ZoneId
      PROVE  n[ZoneKey(z)] = b[ZoneKey(z)]
  <2>1. \A j \in 1..Len(batch) : batch[j].key # ZoneKey(z)
    BY <1>1, KeysApart DEF RecordItem, ChangeItem
  <2>. QED
    BY <1>1, <1>2, <2>1, KeysAreKeys, PutKeysFrame
<1>5. ASSUME NEW z \in ZoneId, NEW r \in Rr, z # i
      PROVE  n[RecordKey(z, r)] = b[RecordKey(z, r)]
  <2>1. \A j \in 1..Len(batch) : batch[j].key # RecordKey(z, r)
    BY <1>1, <1>5, KeysApart DEF RecordItem, ChangeItem
  <2>. QED
    BY <1>1, <1>2, <2>1, KeysAreKeys, PutKeysFrame
<1>6. ASSUME NEW z \in ZoneId, NEW r \in Rr
      PROVE  n[RecordKey(z, r)] \in {Record, Absent}
  <2>1. b[RecordKey(z, r)] \in {Record, Absent}
    BY DEF BucketType
  <2>2. \A j \in 1..Len(batch) :
          batch[j].key = RecordKey(z, r) => batch[j].data = Record
    BY <1>1, KeysApart DEF RecordItem, ChangeItem
  <2>. QED
    BY <1>1, <1>2, <2>1, <2>2, KeysAreKeys, PutKeysCases
<1>7. ASSUME NEW d \in ChangeId
      PROVE  n[ChangeKey(d)] \in {ChangeInfo, Absent}
  <2>1. b[ChangeKey(d)] \in {ChangeInfo, Absent}
    BY DEF BucketType
  <2>2. \A j \in 1..Len(batch) :
          batch[j].key = ChangeKey(d) => batch[j].data = ChangeInfo
    BY <1>1, KeysApart DEF RecordItem, ChangeItem
  <2>. QED
    BY <1>1, <1>2, <2>1, <2>2, KeysAreKeys, PutKeysCases
<1>8. BucketType(n)
  BY <1>3, <1>4, <1>6, <1>7 DEF BucketType
<1>9. OthersSame(b, n, i)
  BY <1>4, <1>5 DEF OthersSame
<1>. QED
  BY <1>4, <1>8, <1>9 DEF batch

LEMMA NewZoneEffect ==
  ASSUME NEW b, BucketType(b), NEW i \in ZoneId, NEW zone \in HostedZoneData,
         NEW changes \in Seq(ChangeData), NEW c \in ChangeId,
         convertible(changes), ~Clashes(b, NewZone(i, zone, changes, c))
  PROVE  LET n == PutKeys(b, NewZone(i, zone, changes, c))
         IN /\ BucketType(n) /\ OthersSame(b, n, i)
            /\ b[ZoneKey(i)] = Absent /\ n[ZoneKey(i)] = zone
<1>. DEFINE batch == NewZone(i, zone, changes, c)
            n == PutKeys(b, batch)
<1>1. /\ Len(batch) \in Nat /\ Len(batch) >= 1
      /\ batch[1] = [op |-> "create", key |-> ZoneKey(i), data |-> zone]
      /\ \A j \in 2..Len(batch) : RecordItem(batch[j], i) \/ ChangeItem(batch[j], c)
  BY NewZoneItems
<1>0. ~Clashes(b, batch)
  OBVIOUS
<1>a. DOMAIN batch = 1..Len(batch)
  BY RecordItems, ChangeItems, ZoneItems, ConcatProperties DEF NewZone, ItemOp
<1>. HIDE DEF batch
<1>2. b = [k \in Key |-> b[k]] /\ DOMAIN b = Key
  BY DEF BucketType
<1>3. n = [k \in Key |-> n[k]]
  BY <1>2, PutKeysDomain
<1>b. b[ZoneKey(i)] = Absent
  <2>1. ~Clash(b, batch, 1)
    BY <1>0, <1>1, <1>a DEF Clashes
  <2>2. After(b, batch, 0, ZoneKey(i)) = b[ZoneKey(i)]
    BY AfterNone
  <2>. QED
    BY <1>1, <2>1, <2>2 DEF Clash
<1>c. n[ZoneKey(i)] = zone
  <2>1. LastTouch(batch, Len(batch), ZoneKey(i), 1)
    BY <1>1, KeysApart DEF LastTouch, RecordItem, ChangeItem
  <2>2. After(b, batch, Len(batch), ZoneKey(i)) = Outcome(batch[1])
    <3>. DEFINE m == Len(batch)
    <3>1. m \in Nat /\ LastTouch(batch, m, ZoneKey(i), 1)
      BY <1>1, <2>1
    <3>. HIDE DEF m
    <3>2. After(b, batch, m, ZoneKey(i)) = Outcome(batch[1])
      BY <3>1, AfterIs
    <3>. QED
      BY <3>2 DEF m
  <2>3. Outcome(batch[1]) = zone
    BY <1>1 DEF Outcome
  <2>4. n[ZoneKey(i)] = After(b, batch, Len(batch), ZoneKey(i))
    BY <1>0, <1>2, KeysAreKeys DEF PutKeys
  <2>. QED
    BY <2>2, <2>3, <2>4
<1>4. ASSUME NEW z \in ZoneId, z # i
      PROVE  n[ZoneKey(z)] = b[ZoneKey(z)]
  <2>1. \A j \in 1..Len(batch) : batch[j].key # ZoneKey(z)
    BY <1>1, <1>4, KeysApart DEF RecordItem, ChangeItem
  <2>. QED
    BY <1>1, <1>2, <2>1, KeysAreKeys, PutKeysFrame
<1>5. ASSUME NEW z \in ZoneId, NEW r \in Rr, z # i
      PROVE  n[RecordKey(z, r)] = b[RecordKey(z, r)]
  <2>1. \A j \in 1..Len(batch) : batch[j].key # RecordKey(z, r)
    BY <1>1, <1>5, KeysApart DEF RecordItem, ChangeItem
  <2>. QED
    BY <1>1, <1>2, <2>1, KeysAreKeys, PutKeysFrame
<1>6. ASSUME NEW z \in ZoneId, NEW r \in Rr
      PROVE  n[RecordKey(z, r)] \in {Record, Absent}
  <2>1. b[RecordKey(z, r)] \in {Record, Absent}
    BY DEF BucketType
  <2>2. \A j \in 1..Len(batch) :
          batch[j].key = RecordKey(z, r) => batch[j].data = Record
    BY <1>1, KeysApart DEF RecordItem, ChangeItem
  <2>. QED
    BY <1>1, <1>2, <2>1, <2>2, KeysAreKeys, PutKeysCases
<1>7. ASSUME NEW d \in ChangeId
      PROVE  n[ChangeKey(d)] \in {ChangeInfo, Absent}
  <2>1. b[ChangeKey(d)] \in {ChangeInfo, Absent}
    BY DEF BucketType
  <2>2. \A j \in 1..Len(batch) :
          batch[j].key = ChangeKey(d) => batch[j].data = ChangeInfo
    BY <1>1, KeysApart DEF RecordItem, ChangeItem
  <2>. QED
    BY <1>1, <1>2, <2>1, <2>2, KeysAreKeys, PutKeysCases
<1>8. BucketType(n)
  <2>1. \A z \in ZoneId : n[ZoneKey(z)] \in HostedZoneData \cup {Absent}
    BY <1>c, <1>4 DEF BucketType
  <2>. QED
    BY <1>3, <2>1, <1>6, <1>7 DEF BucketType
<1>9. OthersSame(b, n, i)
  BY <1>4, <1>5 DEF OthersSame
<1>. QED
  BY <1>b, <1>c, <1>8, <1>9 DEF batch

LEMMA PutZoneEffect ==
  ASSUME NEW b, BucketType(b), NEW i \in ZoneId, NEW zone \in HostedZoneData
  PROVE  LET n == PutKeys(b, PutZone(i, zone, "overwrite"))
         IN n = [b EXCEPT ![ZoneKey(i)] = zone] /\ BucketType(n)
<1>. DEFINE batch == PutZone(i, zone, "overwrite")
            n == PutKeys(b, batch)
<1>1. /\ Len(batch) = 1 /\ DOMAIN batch = {1}
      /\ batch[1] = [op |-> "overwrite", key |-> ZoneKey(i), data |-> zone]
  BY DEF PutZone
<1>. HIDE DEF batch
<1>2. b = [k \in Key |-> b[k]] /\ DOMAIN b = Key
  BY DEF BucketType
<1>3. ~Clashes(b, batch)
  BY <1>1 DEF Clashes, Clash
<1>4. n = [k \in Key |-> n[k]]
  BY <1>2, PutKeysDomain
<1>5. n[ZoneKey(i)] = zone
  <2>1. LastTouch(batch, 1, ZoneKey(i), 1)
    BY <1>1 DEF LastTouch
  <2>2. After(b, batch, 1, ZoneKey(i)) = Outcome(batch[1])
    BY <2>1, AfterIs
  <2>. QED
    BY <1>1, <1>2, <1>3, <2>2, KeysAreKeys DEF PutKeys, Outcome
<1>6. ASSUME NEW k \in Key, k # ZoneKey(i)
      PROVE  n[k] = b[k]
  <2>1. Len(batch) \in Nat /\ \A j \in 1..Len(batch) : batch[j].key # k
    BY <1>1, <1>6
  <2>. QED
    BY <1>2, <2>1, PutKeysFrame
<1>7. n = [b EXCEPT ![ZoneKey(i)] = zone]
  BY <1>2, <1>4, <1>5, <1>6
<1>8. BucketType(n)
  <2>1. \A z \in ZoneId : n[ZoneKey(z)] \in HostedZoneData \cup {Absent}
    BY <1>5, <1>6, KeysAreKeys DEF BucketType
  <2>2. \A z \in ZoneId, r \in Rr : n[RecordKey(z, r)] = b[RecordKey(z, r)]
    BY <1>6, KeysAreKeys, KeysApart
  <2>3. \A c \in ChangeId : n[ChangeKey(c)] = b[ChangeKey(c)]
    BY <1>6, KeysAreKeys, KeysApart
  <2>. QED
    BY <1>4, <2>1, <2>2, <2>3 DEF BucketType
<1>. QED
  BY <1>7, <1>8 DEF batch

-----------------------------------------------------------------------------
(* What a request in flight is made of.                                    *)

LEMMA StatesTyped ==
  /\ Idle \in HandlerState
  /\ \A i \in ZoneId : Answered("NotEmpty", i) \in HandlerState
  /\ \A n \in ZoneName : Answered("AlreadyExists", n) \in HandlerState
  /\ \A i \in ZoneId, changes \in Seq(ChangeData) :
       Changing(i, changes) \in HandlerState
  /\ \A i \in ZoneId, edit \in ZoneEdit, copy \in HostedZoneData :
       Editing(i, edit, copy) \in HandlerState
  /\ \A stage \in {"counting", "listing", "removing"}, i \in ZoneId :
       Deleting(stage, i) \in HandlerState
  /\ \A todo \in Seq(HostedZoneExport), overwrite \in BOOLEAN :
       /\ Importing(todo, overwrite) \in ImportState
       /\ Importing(todo, overwrite) \in HandlerState
  /\ \A i \in ZoneId, changes \in Seq(ChangeData), todo \in Seq(HostedZoneExport) :
       Filling(i, changes, todo) \in HandlerState
  /\ \A ids \in SUBSET ZoneId, zone \in HostedZoneData,
        changes \in Seq(ChangeData), then \in {Idle} \cup ImportState :
       Creating(ids, zone, changes, then) \in HandlerState
<1>1. Idle \in HandlerState
  BY DEF HandlerState
<1>2. \A i \in ZoneId : Answered("NotEmpty", i) \in HandlerState
  BY DEF HandlerState, Answered
<1>3. \A n \in ZoneName : Answered("AlreadyExists", n) \in HandlerState
  BY DEF HandlerState, Answered
<1>4. \A i \in ZoneId, changes \in Seq(ChangeData) :
        Changing(i, changes) \in HandlerState
  BY DEF HandlerState, Changing
<1>5. \A i \in ZoneId, edit \in ZoneEdit, copy \in HostedZoneData :
        Editing(i, edit, copy) \in HandlerState
  BY DEF HandlerState, Editing
<1>6. \A stage \in {"counting", "listing", "removing"}, i \in ZoneId :
        Deleting(stage, i) \in HandlerState
  BY DEF HandlerState, Deleting
<1>7. \A todo \in Seq(HostedZoneExport), overwrite \in BOOLEAN :
        /\ Importing(todo, overwrite) \in ImportState
        /\ Importing(todo, overwrite) \in HandlerState
  BY DEF HandlerState, ImportState, Importing
<1>8. \A i \in ZoneId, changes \in Seq(ChangeData), todo \in Seq(HostedZoneExport) :
        Filling(i, changes, todo) \in HandlerState
  BY DEF HandlerState, Filling
<1>9. \A ids \in SUBSET ZoneId, zone \in HostedZoneData,
         changes \in Seq(ChangeData), then \in {Idle} \cup ImportState :
        Creating(ids, zone, changes, then) \in HandlerState
  BY DEF HandlerState, Creating
<1>. QED
  BY <1>1, <1>2, <1>3, <1>4, <1>5, <1>6, <1>7, <1>8, <1>9

LEMMA ImportStates ==
  /\ ImportState \subseteq HandlerState
  /\ \A s \in ImportState : /\ s.pc = "importing"
                            /\ s.todo \in Seq(HostedZoneExport)
                            /\ s.overwrite \in BOOLEAN
BY DEF ImportState, HandlerState

LEMMA HandlerFacts ==
  ASSUME HandlerType, NEW h \in Handler
  PROVE  /\ handler[h] \in HandlerState
         /\ handler[h].pc \in {"changing", "editing", "filling", "counting",
                               "listing", "removing"} => handler[h].id \in ZoneId
         /\ handler[h].pc \in {"changing", "filling", "creating"} =>
              handler[h].changes \in Seq(ChangeData)
         /\ handler[h].pc = "editing" => /\ handler[h].edit \in ZoneEdit
                                         /\ handler[h].copy \in HostedZoneData
         /\ handler[h].pc = "creating" =>
              /\ handler[h].ids \subseteq ZoneId
              /\ handler[h].zone \in HostedZoneData
              /\ handler[h].then \in {Idle} \cup ImportState
         /\ handler[h].pc \in {"importing", "filling"} =>
              handler[h].todo \in Seq(HostedZoneExport)
         /\ handler[h].pc = "importing" => handler[h].overwrite \in BOOLEAN
<1>1. handler[h] \in HandlerState
  BY DEF HandlerType
<1>2. PICK s \in HandlerState : s = handler[h]
  BY <1>1
<1>3. CASE s = Idle
  BY <1>2, <1>3 DEF Idle
<1>4. CASE s \in [pc : {"answered"}, error : {"AlreadyExists", "NotEmpty"},
                  id : ZoneId \cup ZoneName]
  BY <1>2, <1>4
<1>5. CASE s \in [pc : {"changing"}, id : ZoneId, changes : Seq(ChangeData)]
  BY <1>2, <1>5
<1>6. CASE s \in [pc : {"editing"}, id : ZoneId, edit : ZoneEdit,
                  copy : HostedZoneData]
  BY <1>2, <1>6
<1>7. CASE s \in [pc : {"counting", "listing", "removing"}, id : ZoneId]
  BY <1>2, <1>7
<1>8. CASE s \in [pc : {"creating"}, ids : SUBSET ZoneId, zone : HostedZoneData,
                  changes : Seq(ChangeData), then : {Idle} \cup ImportState]
  BY <1>2, <1>8
<1>9. CASE s \in [pc : {"filling"}, id : ZoneId, changes : Seq(ChangeData),
                  todo : Seq(HostedZoneExport)]
  BY <1>2, <1>9
<1>10. CASE s \in ImportState
  BY <1>2, <1>10, ImportStates
<1>. QED
  BY <1>2, <1>3, <1>4, <1>5, <1>6, <1>7, <1>8, <1>9, <1>10 DEF HandlerState

LEMMA ChangesTyped ==
  /\ ApexRecords \in Seq(ChangeData)
  /\ \A records \in Seq(Rr \cup {Outside}) : Upserts(records) \in Seq(ChangeData)
<1>1. ApexRecords \in Seq(ChangeData)
  <2>1. /\ [action |-> "CREATE", rr |-> Soa] \in ChangeData
        /\ [action |-> "CREATE", rr |-> Ns] \in ChangeData
    BY Route53Constants DEF Route53Assumption, ChangeData
  <2>. QED
    BY <2>1 DEF ApexRecords
<1>2. ASSUME NEW records \in Seq(Rr \cup {Outside})
      PROVE  Upserts(records) \in Seq(ChangeData)
  <2>1. \A j \in 1..Len(records) :
          [action |-> "UPSERT", rr |-> records[j]] \in ChangeData
    BY DEF ChangeData
  <2>2. Upserts(records) =
          [j \in 1..Len(records) |-> [action |-> "UPSERT", rr |-> records[j]]]
    BY DEF Upserts
  <2>. QED
    BY <2>1, <2>2
<1>. QED
  BY <1>1, <1>2

(* The next zone of an import, and the rest.                               *)
LEMMA ExportFacts ==
  ASSUME NEW todo \in Seq(HostedZoneExport), todo # <<>>
  PROVE  /\ Head(todo).id \in ZoneId
         /\ Head(todo).zone \in HostedZoneData
         /\ Upserts(Head(todo).records) \in Seq(ChangeData)
         /\ Tail(todo) \in Seq(HostedZoneExport)
<1>1. Head(todo) \in HostedZoneExport /\ Tail(todo) \in Seq(HostedZoneExport)
  OBVIOUS
<1>. QED
  BY <1>1, ChangesTyped DEF HostedZoneExport

-----------------------------------------------------------------------------
(* The inductive invariant, zone by zone.  RecordsHaveZone and UniqueNames *)
(* are about zones; what makes them last is what the requests in flight    *)
(* know of the zones they are about to write.                              *)

ZoneInv(i) ==
  /\ RecordsOf(i) # {} => i \in Zones
  /\ \A j \in Zones \ overtaken :
       (/\ i \in Zones
        /\ bucket[ZoneKey(i)].name = bucket[ZoneKey(j)].name
        /\ bucket[ZoneKey(i)].name \in Recognised) => i = j

Knows(h, i) ==
  /\ (handler[h].pc \in {"changing", "editing", "filling"}
        /\ handler[h].id = i) => i \in Zones
  /\ (handler[h].pc = "editing" /\ handler[h].id = i)
        => bucket[ZoneKey(i)] = handler[h].copy
  /\ (/\ handler[h].pc = "creating"
      /\ handler[h].zone.name \in Recognised
      /\ i \in Zones) => bucket[ZoneKey(i)].name # handler[h].zone.name
  /\ (handler[h].pc = "removing" /\ handler[h].id = i)
        => \A r \in RecordsOf(i) : SoaOrNs(r)

IInv ==
  /\ TypeOK
  /\ \A i \in ZoneId \ overtaken :
       ZoneInv(i) /\ \A h \in Handler : Knows(h, i)

LEMMA InvHolds == IInv => RecordsHaveZone /\ UniqueNames
BY DEF IInv, ZoneInv, RecordsHaveZone, UniqueNames, Zones

LEMMA InitInv == Init => IInv
<1>. SUFFICES ASSUME Init PROVE IInv
  OBVIOUS
<1>1. BucketType(bucket)
  <2>1. bucket = [k \in Key |-> Absent]
    BY DEF Init, EmptyBucket
  <2>. QED
    BY <2>1, KeysAreKeys DEF BucketType
<1>2. HandlerType
  BY StatesTyped DEF Init, HandlerType
<1>3. Zones = {} /\ \A i \in ZoneId : RecordsOf(i) = {}
  BY KeysAreKeys DEF Init, EmptyBucket, Zones, RecordsOf, Has
<1>4. \A h \in Handler : handler[h].pc = "idle"
  BY DEF Init, Idle
<1>. QED
  BY <1>1, <1>2, <1>3, <1>4, TypeSplits DEF IInv, ZoneInv, Knows

(* A request takes a step that writes at most to zone i.                   *)
LEMMA StepInv ==
  ASSUME IInv, NEW h \in Handler, NEW s \in HandlerState, Goto(h, s),
         NEW i \in ZoneId,
         BucketType(bucket'), OthersSame(bucket, bucket', i),
         overtaken \subseteq overtaken', overtaken' \subseteq ZoneId,
         i \notin overtaken' =>
           ZoneInv(i)' /\ \A g \in Handler \ {h} : Knows(g, i)',
         \A j \in ZoneId \ overtaken' : Knows(h, j)'
  PROVE  IInv'
<1>1. HandlerType'
  BY TypeSplits DEF IInv, HandlerType, Goto
<1>2. TypeOK'
  <2>1. BucketType(bucket)' /\ HandlerType'
    BY <1>1 DEF BucketType
  <2>. QED
    BY <2>1, TypeSplits, PTL
<1>3. \A g \in Handler \ {h} : handler'[g] = handler[g]
  BY TypeSplits DEF IInv, HandlerType, Goto
<1>4. ASSUME NEW j \in ZoneId, j # i
      PROVE  /\ RecordsOf(j)' = RecordsOf(j)
             /\ j \in Zones' <=> j \in Zones
             /\ bucket'[ZoneKey(j)] = bucket[ZoneKey(j)]
  BY <1>4 DEF OthersSame, RecordsOf, Zones, Has
<1>5. ASSUME NEW j \in ZoneId \ overtaken', j # i
      PROVE  ZoneInv(j)'
  <2>0. ZoneInv(j)
    BY <1>5 DEF IInv
  <2>1. (RecordsOf(j)' # {} => j \in Zones')
    BY <1>4, <1>5, <2>0 DEF ZoneInv
  <2>2. ASSUME NEW k \in Zones' \ overtaken', j \in Zones',
               bucket'[ZoneKey(j)].name = bucket'[ZoneKey(k)].name,
               bucket'[ZoneKey(j)].name \in Recognised
        PROVE  j = k
    <3>0. k \in ZoneId
      BY DEF Zones
    <3>1. CASE k = i
      <4>1. ZoneInv(i)'
        BY <3>1
      <4>. QED
        BY <2>2, <3>1, <4>1, <1>5 DEF ZoneInv
    <3>2. CASE k # i
      BY <1>4, <1>5, <2>0, <2>2, <3>0, <3>2 DEF ZoneInv
    <3>. QED
      BY <3>1, <3>2
  <2>. QED
    BY <2>1, <2>2 DEF ZoneInv
<1>6. ASSUME NEW j \in ZoneId \ overtaken', j # i, NEW g \in Handler \ {h}
      PROVE  Knows(g, j)'
  <2>1. Knows(g, j)
    BY DEF IInv
  <2>. QED
    BY <1>3, <1>4, <1>6, <2>1 DEF Knows
<1>7. ASSUME NEW j \in ZoneId \ overtaken'
      PROVE  ZoneInv(j)' /\ \A g \in Handler : Knows(g, j)'
  BY <1>5, <1>6
<1>. QED
  BY <1>2, <1>7 DEF IInv

(* A request takes a step that writes nothing.                             *)
LEMMA QuietInv ==
  ASSUME IInv, NEW h \in Handler, NEW s \in HandlerState, Goto(h, s),
         UNCHANGED <<bucket, overtaken>>,
         \A j \in ZoneId \ overtaken : Knows(h, j)'
  PROVE  IInv'
<1>1. HandlerType'
  BY TypeSplits DEF IInv, HandlerType, Goto
<1>2. TypeOK'
  <2>1. BucketType(bucket)' /\ HandlerType'
    BY <1>1, TypeSplits DEF BucketType, IInv
  <2>. QED
    BY <2>1, TypeSplits, PTL
<1>3. \A g \in Handler \ {h} : handler'[g] = handler[g]
  BY TypeSplits DEF IInv, HandlerType, Goto
<1>4. ASSUME NEW j \in ZoneId \ overtaken
      PROVE  ZoneInv(j)'
  <2>1. ZoneInv(j)
    BY DEF IInv
  <2>. QED
    BY <2>1 DEF ZoneInv, Zones, RecordsOf
<1>5. ASSUME NEW j \in ZoneId \ overtaken, NEW g \in Handler \ {h}
      PROVE  Knows(g, j)'
  <2>1. Knows(g, j)
    BY DEF IInv
  <2>. QED
    BY <1>3, <2>1 DEF Knows, Zones, RecordsOf
<1>. QED
  BY <1>2, <1>4, <1>5 DEF IInv

-----------------------------------------------------------------------------
(* The steps that write nothing.                                           *)

(* The next state of a request that no longer knows anything of a zone.    *)
LEMMA KnowsNothing ==
  ASSUME IInv, NEW h \in Handler, NEW s \in HandlerState, Goto(h, s),
         s.pc \in {"idle", "answered", "counting", "listing", "importing"}
  PROVE  \A j : Knows(h, j)'
<1>1. handler'[h] = s
  BY TypeSplits DEF IInv, HandlerType, Goto
<1>. QED
  BY <1>1 DEF Knows

LEMMA QuietNothing ==
  ASSUME IInv, NEW h \in Handler, NEW s \in HandlerState, Goto(h, s),
         UNCHANGED <<bucket, overtaken>>,
         s.pc \in {"idle", "answered", "counting", "listing", "importing"}
  PROVE  IInv'
BY KnowsNothing, QuietInv

LEMMA ReadForChangeInv ==
  ASSUME IInv, NEW h \in Handler, NEW i \in ZoneId, NEW changes \in ChangeBatch,
         ReadForChange(h, i, changes)
  PROVE  IInv'
<1>1. Changing(i, changes) \in HandlerState
  BY StatesTyped, Route53Constants DEF Route53Assumption
<1>2. Goto(h, Changing(i, changes)) /\ UNCHANGED <<bucket, overtaken>>
  BY DEF ReadForChange
<1>3. handler'[h] = Changing(i, changes)
  BY <1>2, TypeSplits DEF IInv, HandlerType, Goto
<1>4. \A j \in ZoneId \ overtaken : Knows(h, j)'
  BY <1>2, <1>3 DEF ReadForChange, Knows, Changing, Zones
<1>. QED
  BY <1>1, <1>2, <1>4, QuietInv

LEMMA ReadForEditInv ==
  ASSUME IInv, NEW h \in Handler, NEW i \in ZoneId, NEW edit \in ZoneEdit,
         ReadForEdit(h, i, edit)
  PROVE  IInv'
<1>. DEFINE copy == bucket[ZoneKey(i)]
<1>1. copy \in HostedZoneData
  BY TypeSplits DEF IInv, BucketType, ReadForEdit, Zones, Has
<1>2. Editing(i, edit, copy) \in HandlerState
  BY <1>1, StatesTyped
<1>3. Goto(h, Editing(i, edit, copy)) /\ UNCHANGED <<bucket, overtaken>>
  BY DEF ReadForEdit
<1>4. handler'[h] = Editing(i, edit, copy)
  BY <1>3, TypeSplits DEF IInv, HandlerType, Goto
<1>5. \A j \in ZoneId \ overtaken : Knows(h, j)'
  BY <1>3, <1>4 DEF ReadForEdit, Knows, Editing, Zones
<1>. QED
  BY <1>2, <1>3, <1>5, QuietInv

LEMMA ReadForDeleteInv ==
  ASSUME IInv, NEW h \in Handler, NEW i \in ZoneId, ReadForDelete(h, i)
  PROVE  IInv'
<1>. DEFINE s == Deleting("counting", i)
<1>1. s \in HandlerState /\ s.pc = "counting"
  BY StatesTyped DEF Deleting
<1>2. Goto(h, s) /\ UNCHANGED <<bucket, overtaken>>
  BY DEF ReadForDelete
<1>. QED
  BY <1>1, <1>2, QuietNothing

(* A name that is found free is not the name of any zone, if its           *)
(* expression would find it.                                               *)
LEMMA CheckNameInv ==
  ASSUME IInv, NEW h \in Handler,
         NEW ids \in SUBSET ZoneId, NEW zone \in HostedZoneData,
         NEW changes \in Seq(ChangeData), NEW refused \in HandlerState,
         NEW then \in {Idle} \cup ImportState,
         refused.pc \in {"answered", "importing"},
         CheckName(h, ids, zone, changes, refused, then)
  PROVE  IInv'
<1>. DEFINE s == Creating(ids, zone, changes, then)
<1>1. s \in HandlerState
  BY StatesTyped
<1>2. UNCHANGED <<bucket, overtaken>>
  BY DEF CheckName
<1>0. CASE zone.name \in Malformed
  <2>1. Goto(h, then) /\ then \in HandlerState
    BY <1>0 DEF CheckName, HandlerState
  <2>2. then.pc \in {"idle", "importing"}
    BY DEF Idle, ImportState
  <2>. QED
    BY <1>2, <2>1, <2>2, QuietNothing
<1>3. CASE zone.name \notin Malformed /\ findHostedZones(zone.name) # {}
  <2>1. Goto(h, refused)
    BY <1>3 DEF CheckName
  <2>. QED
    BY <1>2, <2>1, QuietNothing
<1>4. CASE zone.name \notin Malformed /\ findHostedZones(zone.name) = {}
  <2>1. Goto(h, s)
    BY <1>4 DEF CheckName
  <2>2. handler'[h] = s
    BY <2>1, TypeSplits DEF IInv, HandlerType, Goto
  <2>3. zone.name \in ZoneName
    BY DEF HostedZoneData
  <2>4. zone.name \in Recognised
          => \A i \in Zones : bucket[ZoneKey(i)].name # zone.name
    BY <1>4, <2>3 DEF findHostedZones, Recognised
  <2>5. \A j \in ZoneId \ overtaken : Knows(h, j)'
    BY <1>2, <2>2, <2>4 DEF Knows, Creating, Zones
  <2>. QED
    BY <1>1, <1>2, <2>1, <2>5, QuietInv
<1>. QED
  BY <1>0, <1>3, <1>4

LEMMA CreateHostedZoneInv ==
  ASSUME IInv, NEW h \in Handler, NEW n \in ZoneName, NEW comment \in Comment,
         CreateHostedZone(h, n, comment)
  PROVE  IInv'
<1>. DEFINE zone == [name |-> n, comment |-> comment, tags |-> NoTags]
            refused == Answered("AlreadyExists", n)
<1>1. zone \in HostedZoneData
  BY Route53Constants DEF Route53Assumption, HostedZoneData
<1>2. refused \in HandlerState /\ refused.pc = "answered"
  BY StatesTyped DEF Answered
<1>3. CheckName(h, ZoneId, zone, ApexRecords, refused, Idle)
  BY DEF CreateHostedZone
<1>. HIDE DEF zone, refused
<1>. QED
  BY <1>1, <1>2, <1>3, ChangesTyped, CheckNameInv

LEMMA ImportNewZoneInv ==
  ASSUME IInv, NEW h \in Handler, ImportNewZone(h)
  PROVE  IInv'
<1>. DEFINE export == Head(handler[h].todo)
            rest == Importing(Tail(handler[h].todo), FALSE)
<1>1. handler[h].todo \in Seq(HostedZoneExport) /\ handler[h].todo # <<>>
  BY HandlerFacts, TypeSplits DEF IInv, ImportNewZone
<1>2. /\ {export.id} \in SUBSET ZoneId
      /\ export.zone \in HostedZoneData
      /\ Upserts(export.records) \in Seq(ChangeData)
      /\ Tail(handler[h].todo) \in Seq(HostedZoneExport)
  BY <1>1, ExportFacts
<1>3. rest \in HandlerState /\ rest \in ImportState /\ rest.pc = "importing"
  BY <1>2, StatesTyped, ImportStates
<1>4. CheckName(h, {export.id}, export.zone, Upserts(export.records), rest, rest)
  BY DEF ImportNewZone
<1>. HIDE DEF export, rest
<1>. QED
  BY <1>2, <1>3, <1>4, CheckNameInv

LEMMA CountRecordsInv ==
  ASSUME IInv, NEW h \in Handler, CountRecords(h)
  PROVE  IInv'
<1>. DEFINE i == handler[h].id
<1>1. i \in ZoneId
  BY HandlerFacts, TypeSplits DEF IInv, CountRecords
<1>2. PICK s \in {Answered("NotEmpty", i), Deleting("listing", i)} : Goto(h, s)
  BY DEF CountRecords
<1>3. s \in HandlerState /\ s.pc \in {"answered", "listing"}
  BY <1>1, StatesTyped DEF Answered, Deleting
<1>. QED
  BY <1>2, <1>3, QuietNothing DEF CountRecords

LEMMA ListRecordsInv ==
  ASSUME IInv, NEW h \in Handler, ListRecords(h)
  PROVE  IInv'
<1>. DEFINE i == handler[h].id
            s == Deleting("removing", i)
<1>1. i \in ZoneId
  BY HandlerFacts, TypeSplits DEF IInv, ListRecords
<1>2. UNCHANGED <<bucket, overtaken>>
  BY DEF ListRecords
<1>3. CASE \A r \in RecordsOf(i) : SoaOrNs(r)
  <2>1. Goto(h, s)
    BY <1>3 DEF ListRecords
  <2>2. handler'[h] = s
    BY <2>1, TypeSplits DEF IInv, HandlerType, Goto
  <2>3. \A j \in ZoneId \ overtaken : Knows(h, j)'
    BY <1>2, <1>3, <2>2 DEF Knows, Deleting, RecordsOf
  <2>4. s \in HandlerState
    BY <1>1, StatesTyped
  <2>. QED
    BY <1>2, <2>1, <2>3, <2>4, QuietInv
<1>4. CASE ~ \A r \in RecordsOf(i) : SoaOrNs(r)
  <2>1. Goto(h, Answered("NotEmpty", i))
    BY <1>4 DEF ListRecords
  <2>2. /\ Answered("NotEmpty", i) \in HandlerState
        /\ Answered("NotEmpty", i).pc = "answered"
    BY <1>1, StatesTyped DEF Answered
  <2>. QED
    BY <1>2, <2>1, <2>2, QuietNothing
<1>. QED
  BY <1>3, <1>4

LEMMA BeginImportInv ==
  ASSUME IInv, NEW h \in Handler, NEW list \in ImportList,
         NEW overwrite \in BOOLEAN, BeginImport(h, list, overwrite)
  PROVE  IInv'
<1>1. list \in Seq(HostedZoneExport)
  BY Route53Constants DEF Route53Assumption
<1>2. /\ Importing(list, overwrite) \in HandlerState
      /\ Importing(list, overwrite).pc = "importing"
  BY <1>1, StatesTyped, ImportStates
<1>. QED
  BY <1>2, QuietNothing DEF BeginImport

LEMMA BackToIdle ==
  ASSUME IInv, NEW h \in Handler, Goto(h, Idle), UNCHANGED <<bucket, overtaken>>
  PROVE  IInv'
<1>1. Idle \in HandlerState /\ Idle.pc = "idle"
  BY StatesTyped DEF Idle
<1>. QED
  BY <1>1, QuietNothing

-----------------------------------------------------------------------------
(* The steps that write.                                                   *)

LEMMA OvertakeFacts ==
  ASSUME IInv, NEW h \in Handler, NEW i \in ZoneId, NEW others,
         Overtake(h, i, others)
  PROVE  /\ overtaken \subseteq overtaken' /\ overtaken' \subseteq ZoneId
         /\ i \notin overtaken' => others \subseteq {h} /\ i \notin overtaken
BY TypeSplits DEF IInv, HandlerType, Overtake

LEMMA PutRecordSetsInv ==
  ASSUME IInv, NEW h \in Handler, NEW s \in HandlerState, Goto(h, s),
         s.pc \in {"idle", "importing"},
         handler[h].pc \in {"changing", "filling"},
         NEW i, i = handler[h].id, NEW changes, changes = handler[h].changes,
         putRecordSets(h, i, changes)
  PROVE  IInv'
<1>1. i \in ZoneId /\ changes \in Seq(ChangeData)
  BY HandlerFacts, TypeSplits DEF IInv
<1>2. CASE UNCHANGED <<bucket, overtaken>>
  BY <1>2, QuietNothing
<1>3. ASSUME NEW c \in ChangeId, convertible(changes),
             bucket' = PutKeys(bucket, RecordSets(i, changes, c)),
             Overtake(h, i, At(i, {"removing"}))
      PROVE  IInv'
  <2>1. /\ BucketType(bucket') /\ OthersSame(bucket, bucket', i)
        /\ bucket'[ZoneKey(i)] = bucket[ZoneKey(i)]
    BY <1>1, <1>3, RecordSetsEffect, TypeSplits DEF IInv
  <2>2. /\ overtaken \subseteq overtaken' /\ overtaken' \subseteq ZoneId
        /\ i \notin overtaken' =>
             At(i, {"removing"}) \subseteq {h} /\ i \notin overtaken
    BY <1>1, <1>3, OvertakeFacts
  <2>3. \A g \in Handler \ {h} : handler'[g] = handler[g]
    BY TypeSplits DEF IInv, HandlerType, Goto
  <2>4. ASSUME i \notin overtaken'
        PROVE  ZoneInv(i)' /\ \A g \in Handler \ {h} : Knows(g, i)'
    <3>1. /\ ZoneInv(i) /\ i \in Zones
          /\ \A g \in Handler : Knows(g, i)
      BY <1>1, <2>2, <2>4 DEF IInv, Knows
    <3>2. /\ i \in Zones'
          /\ \A j \in Zones' : j \in Zones /\ bucket'[ZoneKey(j)] = bucket[ZoneKey(j)]
      BY <2>1, <3>1 DEF OthersSame, Zones, Has
    <3>3. ZoneInv(i)'
      BY <2>2, <3>1, <3>2 DEF ZoneInv
    <3>4. ASSUME NEW g \in Handler \ {h} PROVE Knows(g, i)'
      <4>1. ~ (handler[g].pc = "removing" /\ handler[g].id = i)
        BY <2>2, <2>4 DEF At
      <4>. QED
        BY <2>1, <2>3, <3>1, <3>2, <4>1 DEF Knows
    <3>. QED
      BY <3>3, <3>4
  <2>5. \A j : Knows(h, j)'
    BY KnowsNothing
  <2>. QED
    BY <1>1, <2>1, <2>2, <2>4, <2>5, StepInv
<1>. QED
  BY <1>2, <1>3 DEF putRecordSets

LEMMA PutHostedZoneInv ==
  ASSUME IInv, NEW h \in Handler, PutHostedZone(h)
  PROVE  IInv'
<1>. DEFINE zone == handler[h].zone
            changes == handler[h].changes
            s == handler[h].then
<1>1. /\ zone \in HostedZoneData /\ changes \in Seq(ChangeData)
      /\ handler[h].ids \subseteq ZoneId
      /\ s \in HandlerState /\ s.pc \in {"idle", "importing"}
      /\ handler[h].pc = "creating"
  BY HandlerFacts, TypeSplits, StatesTyped, ImportStates DEF IInv, PutHostedZone, Idle
<1>2. Goto(h, s)
  BY DEF PutHostedZone
<1>3. CASE UNCHANGED <<bucket, overtaken>>
  BY <1>1, <1>2, <1>3, QuietNothing
<1>4. ASSUME NEW i \in ZoneId, NEW c \in ChangeId, convertible(changes),
             ~Clashes(bucket, NewZone(i, zone, changes, c)),
             bucket' = PutKeys(bucket, NewZone(i, zone, changes, c)),
             Overtake(h, i, Naming(zone.name) \cup At(i, {"removing"}))
      PROVE  IInv'
  <2>1. /\ BucketType(bucket') /\ OthersSame(bucket, bucket', i)
        /\ bucket[ZoneKey(i)] = Absent /\ bucket'[ZoneKey(i)] = zone
    <3>. HIDE DEF zone, changes
    <3>. QED
      BY <1>1, <1>4, NewZoneEffect, TypeSplits DEF IInv
  <2>2. /\ overtaken \subseteq overtaken' /\ overtaken' \subseteq ZoneId
        /\ i \notin overtaken' =>
             /\ Naming(zone.name) \cup At(i, {"removing"}) \subseteq {h}
             /\ i \notin overtaken
    BY <1>4, OvertakeFacts
  <2>3. \A g \in Handler \ {h} : handler'[g] = handler[g]
    BY <1>2, TypeSplits DEF IInv, HandlerType, Goto
  <2>4. i \notin Zones /\ i \in Zones'
    BY <1>1, <2>1, Route53Constants DEF Zones, Has, Route53Assumption
  <2>5. \A j \in Zones' \ {i} :
          j \in Zones /\ bucket'[ZoneKey(j)] = bucket[ZoneKey(j)]
    BY <2>1 DEF OthersSame, Zones, Has
  <2>6. ASSUME i \notin overtaken'
        PROVE  ZoneInv(i)' /\ \A g \in Handler \ {h} : Knows(g, i)'
    <3>1. zone.name \in Recognised
            => \A j \in Zones' \ overtaken' :
                 bucket'[ZoneKey(j)].name = zone.name => j = i
      <4>1. zone.name \in Recognised
              => \A j \in Zones \ overtaken : bucket[ZoneKey(j)].name # zone.name
        BY <1>1 DEF IInv, Knows, Zones
      <4>. QED
        BY <2>2, <2>5, <4>1
    <3>2. ZoneInv(i)'
      BY <2>1, <2>4, <3>1 DEF ZoneInv
    <3>3. ASSUME NEW g \in Handler \ {h} PROVE Knows(g, i)'
      <4>1. /\ ~ (handler[g].pc = "removing" /\ handler[g].id = i)
            /\ ~ (handler[g].pc = "creating" /\ handler[g].zone.name = zone.name)
        BY <2>2, <2>6 DEF At, Naming
      <4>2. ~ (handler[g].pc \in {"changing", "editing", "filling"}
                 /\ handler[g].id = i)
        BY <2>2, <2>4, <2>6 DEF IInv, Knows
      <4>. QED
        BY <2>1, <2>3, <4>1, <4>2 DEF Knows
    <3>. QED
      BY <3>2, <3>3
  <2>7. \A j : Knows(h, j)'
    BY <1>1, <1>2, KnowsNothing
  <2>. QED
    BY <1>1, <1>2, <2>1, <2>2, <2>6, <2>7, StepInv
<1>. QED
  BY <1>1, <1>3, <1>4 DEF PutHostedZone

LEMMA ChangeResourceRecordSetsInv ==
  ASSUME IInv, NEW h \in Handler, ChangeResourceRecordSets(h)
  PROVE  IInv'
<1>1. Idle \in HandlerState /\ Idle.pc = "idle"
  BY StatesTyped DEF Idle
<1>. QED
  BY <1>1, PutRecordSetsInv DEF ChangeResourceRecordSets

LEMMA ImportRecordsInv ==
  ASSUME IInv, NEW h \in Handler, ImportRecords(h)
  PROVE  IInv'
<1>1. handler[h].todo \in Seq(HostedZoneExport)
  BY HandlerFacts, TypeSplits DEF IInv, ImportRecords
<1>2. /\ Importing(handler[h].todo, TRUE) \in HandlerState
      /\ Importing(handler[h].todo, TRUE).pc = "importing"
  BY <1>1, StatesTyped, ImportStates
<1>. QED
  BY <1>2, PutRecordSetsInv DEF ImportRecords

LEMMA EditedFacts ==
  ASSUME NEW zone \in HostedZoneData, NEW edit \in ZoneEdit
  PROVE  /\ Edited(zone, edit) \in HostedZoneData
         /\ Edited(zone, edit).name = zone.name
         /\ Edited(zone, edit) = [zone EXCEPT ![edit.field] = edit.value]
<1>1. CASE edit \in [field : {"comment"}, value : Comment]
  BY <1>1 DEF HostedZoneData, Edited
<1>2. CASE edit \in [field : {"tags"}, value : Tags]
  BY <1>2 DEF HostedZoneData, Edited
<1>. QED
  BY <1>1, <1>2 DEF ZoneEdit

(* The edited copy replaces the zone: unless it was overtaken, the copy is *)
(* what is stored, and the name stays what it is.                          *)
LEMMA UpdateHostedZoneInv ==
  ASSUME IInv, NEW h \in Handler, UpdateHostedZone(h)
  PROVE  IInv'
<1>1. PICK i \in ZoneId : i = handler[h].id
  BY HandlerFacts, TypeSplits DEF IInv, UpdateHostedZone
<1>2. PICK zone \in HostedZoneData :
        /\ zone = Edited(handler[h].copy, handler[h].edit)
        /\ zone.name = handler[h].copy.name
  BY HandlerFacts, TypeSplits, EditedFacts DEF IInv, UpdateHostedZone
<1>3. /\ bucket' = PutKeys(bucket, PutZone(i, zone, "overwrite"))
      /\ Overtake(h, i, At(i, {"editing"}))
      /\ Goto(h, Idle)
      /\ handler[h].pc = "editing"
  BY <1>1, <1>2 DEF UpdateHostedZone
<1>4. BucketType(bucket') /\ bucket' = [bucket EXCEPT ![ZoneKey(i)] = zone]
  BY <1>3, PutZoneEffect, TypeSplits DEF IInv
<1>5. /\ OthersSame(bucket, bucket', i)
      /\ bucket'[ZoneKey(i)] = zone
      /\ RecordsOf(i)' = RecordsOf(i)
  BY <1>4, KeysApart, KeysAreKeys, TypeSplits
     DEF OthersSame, BucketType, IInv, RecordsOf, Has
<1>6. /\ overtaken \subseteq overtaken' /\ overtaken' \subseteq ZoneId
      /\ i \notin overtaken' =>
           At(i, {"editing"}) \subseteq {h} /\ i \notin overtaken
  BY <1>3, OvertakeFacts
<1>7. \A g \in Handler \ {h} : handler'[g] = handler[g]
  BY <1>3, TypeSplits DEF IInv, HandlerType, Goto
<1>8. ASSUME i \notin overtaken'
      PROVE  ZoneInv(i)' /\ \A g \in Handler \ {h} : Knows(g, i)'
  <2>1. /\ ZoneInv(i) /\ \A g \in Handler : Knows(g, i)
        /\ i \in Zones
        /\ bucket[ZoneKey(i)].name = zone.name
    BY <1>1, <1>2, <1>3, <1>6, <1>8 DEF IInv, Knows
  <2>2. i \in Zones' /\ bucket'[ZoneKey(i)].name = bucket[ZoneKey(i)].name
    BY <1>5, <2>1, Route53Constants DEF Zones, Has, Route53Assumption
  <2>3. \A j \in Zones' : j \in Zones /\ bucket'[ZoneKey(j)].name = bucket[ZoneKey(j)].name
    BY <1>5, <2>1, <2>2 DEF OthersSame, Zones, Has
  <2>4. ZoneInv(i)'
    BY <1>6, <2>1, <2>2, <2>3 DEF ZoneInv
  <2>5. ASSUME NEW g \in Handler \ {h} PROVE Knows(g, i)'
    <3>1. ~ (handler[g].pc = "editing" /\ handler[g].id = i)
      BY <1>6, <1>8 DEF At
    <3>. QED
      BY <1>5, <1>7, <2>1, <2>2, <3>1 DEF Knows
  <2>. QED
    BY <2>4, <2>5
<1>9. Idle \in HandlerState /\ Idle.pc = "idle"
  BY StatesTyped DEF Idle
<1>10. \A j : Knows(h, j)'
  BY <1>3, <1>9, KnowsNothing
<1>. QED
  BY <1>3, <1>4, <1>5, <1>6, <1>8, <1>9, <1>10, StepInv

(* Whatever is stored, the zone is put; i is overtaken if that gives it    *)
(* another's name, or a name that someone has found free.                  *)
LEMMA ImportZoneInv ==
  ASSUME IInv, NEW h \in Handler, ImportZone(h)
  PROVE  IInv'
<1>1. PICK export :
        /\ export = Head(handler[h].todo)
        /\ export.id \in ZoneId /\ export.zone \in HostedZoneData
        /\ Upserts(export.records) \in Seq(ChangeData)
        /\ Tail(handler[h].todo) \in Seq(HostedZoneExport)
  BY HandlerFacts, TypeSplits, ExportFacts DEF IInv, ImportZone
<1>2. PICK i \in ZoneId : i = export.id
  BY <1>1
<1>3. PICK zone \in HostedZoneData : zone = export.zone
  BY <1>1
<1>4. PICK s : s = Filling(i, Upserts(export.records), Tail(handler[h].todo))
  OBVIOUS
<1>5. /\ bucket' = PutKeys(bucket, PutZone(i, zone, "overwrite"))
      /\ overtaken' =
           IF /\ Naming(zone.name) \cup At(i, {"editing"}) = {}
              /\ {j \in Zones \ {i} : bucket[ZoneKey(j)].name = zone.name} = {}
           THEN overtaken ELSE overtaken \cup {i}
      /\ Goto(h, s)
  BY <1>1, <1>2, <1>3, <1>4 DEF ImportZone
<1>6. s \in HandlerState /\ s.pc = "filling" /\ s.id = i
  BY <1>1, <1>4, StatesTyped DEF Filling
<1>7. BucketType(bucket') /\ bucket' = [bucket EXCEPT ![ZoneKey(i)] = zone]
  BY <1>5, PutZoneEffect, TypeSplits DEF IInv
<1>8. /\ OthersSame(bucket, bucket', i)
      /\ bucket'[ZoneKey(i)] = zone
      /\ RecordsOf(i)' = RecordsOf(i)
  BY <1>7, KeysApart, KeysAreKeys, TypeSplits
     DEF OthersSame, BucketType, IInv, RecordsOf, Has
<1>9. /\ overtaken \subseteq overtaken' /\ overtaken' \subseteq ZoneId
      /\ i \notin overtaken' =>
           /\ Naming(zone.name) \cup At(i, {"editing"}) = {}
           /\ {j \in Zones \ {i} : bucket[ZoneKey(j)].name = zone.name} = {}
           /\ i \notin overtaken
  BY <1>5, TypeSplits DEF IInv, HandlerType
<1>10. /\ \A g \in Handler \ {h} : handler'[g] = handler[g]
       /\ handler'[h] = s
  BY <1>5, TypeSplits DEF IInv, HandlerType, Goto
<1>11. i \in Zones'
  BY <1>8, Route53Constants DEF Zones, Has, Route53Assumption
<1>12. ASSUME i \notin overtaken'
       PROVE  ZoneInv(i)' /\ \A g \in Handler \ {h} : Knows(g, i)'
  <2>1. \A g \in Handler : Knows(g, i)
    BY <1>9, <1>12 DEF IInv
  <2>2. \A j \in Zones' \ {i} : j \in Zones /\ bucket'[ZoneKey(j)] = bucket[ZoneKey(j)]
    BY <1>8 DEF OthersSame, Zones, Has
  <2>3. \A j \in Zones' \ {i} : bucket'[ZoneKey(j)].name # zone.name
    BY <1>9, <1>12, <2>2
  <2>4. ZoneInv(i)'
    BY <1>8, <1>11, <2>3 DEF ZoneInv
  <2>5. ASSUME NEW g \in Handler \ {h} PROVE Knows(g, i)'
    <3>1. /\ ~ (handler[g].pc = "editing" /\ handler[g].id = i)
          /\ ~ (handler[g].pc = "creating" /\ handler[g].zone.name = zone.name)
      BY <1>9, <1>12 DEF At, Naming
    <3>. QED
      BY <1>8, <1>10, <1>11, <2>1, <3>1 DEF Knows
  <2>. QED
    BY <2>4, <2>5
<1>13. \A j \in ZoneId \ overtaken' : Knows(h, j)'
  BY <1>6, <1>10, <1>11 DEF Knows
<1>. QED
  BY <1>5, <1>6, <1>7, <1>8, <1>9, <1>12, <1>13, StepInv

(* The zone and all below it go, so nothing is left of what could be wrong *)
(* with it; who was about to write to it is overtaken.                     *)
LEMMA DeleteHostedZoneInv ==
  ASSUME IInv, NEW h \in Handler, DeleteHostedZone(h)
  PROVE  IInv'
<1>1. PICK i \in ZoneId : i = handler[h].id
  BY HandlerFacts, TypeSplits DEF IInv, DeleteHostedZone
<1>2. PICK c \in ChangeId :
        bucket' = [deleteHostedZone(i) EXCEPT ![ChangeKey(c)] = ChangeInfo]
  BY <1>1 DEF DeleteHostedZone
<1>3. /\ Overtake(h, i, At(i, {"changing", "editing", "filling"}))
      /\ Goto(h, Idle)
  BY <1>1 DEF DeleteHostedZone
<1>4. BucketType(bucket)
  BY TypeSplits DEF IInv
<1>. DEFINE gone == {ZoneKey(i)} \cup {RecordKey(i, r) : r \in Rr}
<1>5. bucket' = [k \in Key |-> IF k = ChangeKey(c) THEN ChangeInfo
                               ELSE IF k \in gone THEN Absent ELSE bucket[k]]
  BY <1>2, <1>4 DEF deleteHostedZone, DeleteKeys, BucketType
<1>6. /\ \A j \in ZoneId : ZoneKey(j) \in gone <=> j = i
      /\ \A j \in ZoneId, r \in Rr : RecordKey(j, r) \in gone <=> j = i
      /\ \A d \in ChangeId : ChangeKey(d) \notin gone
  BY KeysApart
<1>7. /\ \A j \in ZoneId :
           bucket'[ZoneKey(j)] = IF j = i THEN Absent ELSE bucket[ZoneKey(j)]
      /\ \A j \in ZoneId, r \in Rr :
           bucket'[RecordKey(j, r)] =
             IF j = i THEN Absent ELSE bucket[RecordKey(j, r)]
      /\ \A d \in ChangeId :
           bucket'[ChangeKey(d)] =
             IF d = c THEN ChangeInfo ELSE bucket[ChangeKey(d)]
  <2>. HIDE DEF gone
  <2>. QED
    BY <1>5, <1>6, KeysApart, KeysAreKeys
<1>8. BucketType(bucket')
  <2>1. bucket' = [k \in Key |-> bucket'[k]]
    BY <1>5
  <2>. QED
    BY <1>4, <1>7, <2>1 DEF BucketType
<1>9. /\ OthersSame(bucket, bucket', i)
      /\ i \notin Zones' /\ RecordsOf(i)' = {}
  BY <1>7 DEF OthersSame, Zones, RecordsOf, Has
<1>10. /\ overtaken \subseteq overtaken' /\ overtaken' \subseteq ZoneId
       /\ i \notin overtaken' =>
            At(i, {"changing", "editing", "filling"}) \subseteq {h}
  BY <1>3, OvertakeFacts
<1>11. \A g \in Handler \ {h} : handler'[g] = handler[g]
  BY <1>3, TypeSplits DEF IInv, HandlerType, Goto
<1>12. ASSUME i \notin overtaken'
       PROVE  ZoneInv(i)' /\ \A g \in Handler \ {h} : Knows(g, i)'
  <2>1. ZoneInv(i)'
    BY <1>9 DEF ZoneInv
  <2>2. ASSUME NEW g \in Handler \ {h} PROVE Knows(g, i)'
    <3>1. ~ (handler[g].pc \in {"changing", "editing", "filling"}
               /\ handler[g].id = i)
      BY <1>10, <1>12 DEF At
    <3>. QED
      BY <1>9, <1>11, <3>1 DEF Knows
  <2>. QED
    BY <2>1, <2>2
<1>13. Idle \in HandlerState /\ Idle.pc = "idle"
  BY StatesTyped DEF Idle
<1>14. \A j : Knows(h, j)'
  BY <1>3, <1>13, KnowsNothing
<1>. QED
  BY <1>3, <1>8, <1>9, <1>10, <1>12, <1>13, <1>14, StepInv

LEMMA DeleteAllDataInv ==
  ASSUME IInv, DeleteAllData
  PROVE  IInv'
<1>1. bucket' = [k \in Key |-> Absent]
  BY TypeSplits DEF DeleteAllData, DeleteBucket, IInv, BucketType
<1>2. BucketType(bucket')
  BY <1>1, KeysAreKeys DEF BucketType
<1>3. HandlerType'
  BY TypeSplits DEF IInv, HandlerType, DeleteAllData
<1>4. TypeOK'
  <2>1. BucketType(bucket)' /\ HandlerType'
    BY <1>2, <1>3 DEF BucketType
  <2>. QED
    BY <2>1, TypeSplits, PTL
<1>5. Zones' = {} /\ \A i \in ZoneId : RecordsOf(i)' = {}
  BY <1>1, KeysAreKeys DEF Zones, RecordsOf, Has
<1>6. ASSUME NEW i \in ZoneId \ overtaken', NEW h \in Handler
      PROVE  Knows(h, i)'
  <2>1. ~ (handler[h].pc \in {"changing", "editing", "filling"}
             /\ handler[h].id = i)
    BY DEF DeleteAllData, At
  <2>. QED
    BY <1>5, <2>1 DEF Knows, DeleteAllData
<1>. QED
  BY <1>4, <1>5, <1>6 DEF IInv, ZoneInv

LEMMA RestartInv ==
  ASSUME IInv, Restart
  PROVE  IInv'
<1>1. HandlerType'
  BY TypeSplits, StatesTyped DEF IInv, HandlerType, Restart
<1>2. TypeOK'
  <2>1. BucketType(bucket)' /\ HandlerType'
    BY <1>1, TypeSplits DEF BucketType, IInv, Restart
  <2>. QED
    BY <2>1, TypeSplits, PTL
<1>3. \A h \in Handler : \A i : Knows(h, i)'
  BY DEF Restart, Idle, Knows
<1>4. \A i \in ZoneId \ overtaken' : ZoneInv(i)'
  BY DEF IInv, ZoneInv, Restart, Zones, RecordsOf
<1>. QED
  BY <1>2, <1>3, <1>4 DEF IInv

-----------------------------------------------------------------------------
LEMMA NextInv == IInv /\ [Next]_vars => IInv'
<1>. SUFFICES ASSUME IInv, [Next]_vars PROVE IInv'
  OBVIOUS
<1>1. ASSUME NEW h \in Handler, Start(h) PROVE IInv'
  BY <1>1, CreateHostedZoneInv, ReadForChangeInv, ReadForEditInv,
     ReadForDeleteInv, BeginImportInv DEF Start
<1>2. ASSUME NEW h \in Handler, Step(h) PROVE IInv'
  <2>1. CASE EndImport(h)
    BY <2>1, BackToIdle DEF EndImport
  <2>2. CASE Reply(h)
    BY <2>2, BackToIdle DEF Reply
  <2>. QED
    BY <1>2, <2>1, <2>2, PutHostedZoneInv, ChangeResourceRecordSetsInv,
       UpdateHostedZoneInv, CountRecordsInv, ListRecordsInv,
       DeleteHostedZoneInv, ImportNewZoneInv, ImportZoneInv, ImportRecordsInv
       DEF Step
<1>3. CASE UNCHANGED vars
  <2>1. UNCHANGED <<bucket, handler, overtaken>>
    BY <1>3 DEF vars
  <2>2. TypeOK'
    BY <2>1 DEF IInv, TypeOK
  <2>3. ASSUME NEW i \in ZoneId \ overtaken', NEW h \in Handler
        PROVE  ZoneInv(i)' /\ Knows(h, i)'
    BY <2>1 DEF IInv, ZoneInv, Knows, Zones, RecordsOf
  <2>4. ASSUME NEW i \in ZoneId \ overtaken' PROVE ZoneInv(i)'
    BY <2>1 DEF IInv, ZoneInv, Zones, RecordsOf
  <2>. QED
    BY <2>2, <2>3, <2>4 DEF IInv
<1>. QED
  BY <1>1, <1>2, <1>3, DeleteAllDataInv, RestartInv DEF Next

LEMMA Invariance == Spec => []IInv
BY InitInv, NextInv, PTL DEF Spec

(* The bucket, the requests in flight and the overtaken zones are always   *)
(* what they are declared to be; a zone's key holds a zone or nothing.     *)
THEOREM TypeCorrect == Spec => []TypeOK
<1>1. IInv => TypeOK
  BY DEF IInv
<1>. QED
  BY <1>1, Invariance, PTL

(* No record set is left without its zone but by a request that the        *)
(* removal of the zone overtook, also not by a crash inside an import.     *)
THEOREM RecordsAlwaysHaveZone == Spec => []RecordsHaveZone
BY InvHolds, Invariance, PTL

(* Two zones of one name come only from requests that overlapped or from   *)
(* an import that overwrites.                                              *)
THEOREM NamesStayUnique == Spec => []UniqueNames
BY InvHolds, Invariance, PTL

(* Unless it was overtaken, updateHostedZone changes in the stored zone    *)
(* the one field it was asked to change, and nothing else in the bucket.   *)
THEOREM EditsChangeOneField == Spec => EditsOneField
<1>. DEFINE Changed(h) ==
       LET k == ZoneKey(handler[h].id)
           field == handler[h].edit.field
       IN /\ bucket'[k] = [bucket[k] EXCEPT ![field] = handler[h].edit.value]
          /\ \A other \in Key \ {k} : bucket'[other] = bucket[other]
<1>1. ASSUME IInv, NEW h \in Handler,
             UpdateHostedZone(h), handler[h].id \notin overtaken
      PROVE  Changed(h)
  <2>1. PICK i \in ZoneId : i = handler[h].id
    BY <1>1, HandlerFacts, TypeSplits DEF IInv, UpdateHostedZone
  <2>2. PICK edit \in ZoneEdit, copy \in HostedZoneData :
          edit = handler[h].edit /\ copy = handler[h].copy
    BY <1>1, HandlerFacts, TypeSplits DEF IInv, UpdateHostedZone
  <2>3. bucket[ZoneKey(i)] = copy
    BY <1>1, <2>1, <2>2 DEF IInv, Knows, UpdateHostedZone
  <2>4. PICK zone \in HostedZoneData :
          /\ zone = Edited(copy, edit)
          /\ zone = [copy EXCEPT ![edit.field] = edit.value]
    BY EditedFacts
  <2>5. bucket' = PutKeys(bucket, PutZone(i, zone, "overwrite"))
    BY <1>1, <2>1, <2>2, <2>4 DEF UpdateHostedZone
  <2>6. bucket' = [bucket EXCEPT ![ZoneKey(i)] = zone]
    BY <1>1, <2>5, PutZoneEffect, TypeSplits DEF IInv
  <2>7. /\ bucket'[ZoneKey(i)] = zone
        /\ \A other \in Key \ {ZoneKey(i)} : bucket'[other] = bucket[other]
    BY <1>1, <2>6, KeysAreKeys, TypeSplits DEF IInv, BucketType
  <2>. QED
    BY <2>1, <2>2, <2>3, <2>4, <2>7
<1>2. ASSUME IInv, [Next]_vars
      PROVE  [\A h \in Handler :
                (UpdateHostedZone(h) /\ handler[h].id \notin overtaken)
                  => Changed(h)]_vars
  BY <1>1, <1>2
<1>. QED
  BY <1>2, Invariance, PTL DEF Spec, EditsOneField

(* Unless a request added one after it looked, a deletion takes only SOA   *)
(* and NS record sets with the zone.                                       *)
THEOREM OnlyApexIsDeleted == Spec => DeletesOnlyApex
<1>1. ASSUME IInv, NEW h \in Handler,
             DeleteHostedZone(h), handler[h].id \notin overtaken
      PROVE  \A r \in RecordsOf(handler[h].id) : SoaOrNs(r)
  BY <1>1, HandlerFacts, TypeSplits DEF IInv, Knows, DeleteHostedZone
<1>2. ASSUME IInv, [Next]_vars
      PROVE  [\A h \in Handler :
                (DeleteHostedZone(h) /\ handler[h].id \notin overtaken)
                  => \A r \in RecordsOf(handler[h].id) : SoaOrNs(r)]_vars
  BY <1>1, <1>2
<1>. QED
  BY <1>2, Invariance, PTL DEF Spec, DeletesOnlyApex

(* A random id that is drawn again never makes a new zone replace another. *)
THEOREM ZonesAreNotReplaced == Spec => NoZoneReplaced
<1>1. ASSUME IInv, NEW h \in Handler, PutHostedZone(h), NEW i \in Zones
      PROVE  bucket'[ZoneKey(i)] = bucket[ZoneKey(i)]
  <2>1. /\ handler[h].zone \in HostedZoneData
        /\ handler[h].changes \in Seq(ChangeData)
        /\ handler[h].ids \subseteq ZoneId
    BY <1>1, HandlerFacts, TypeSplits DEF IInv, PutHostedZone
  <2>2. CASE UNCHANGED bucket
    BY <2>2
  <2>3. ASSUME NEW z \in ZoneId, NEW c \in ChangeId,
               convertible(handler[h].changes),
               ~Clashes(bucket, NewZone(z, handler[h].zone, handler[h].changes, c)),
               bucket' = PutKeys(bucket,
                           NewZone(z, handler[h].zone, handler[h].changes, c))
        PROVE  bucket'[ZoneKey(i)] = bucket[ZoneKey(i)]
    <3>1. OthersSame(bucket, bucket', z) /\ bucket[ZoneKey(z)] = Absent
      BY <1>1, <2>1, <2>3, NewZoneEffect, TypeSplits DEF IInv
    <3>2. i \in ZoneId /\ i # z
      BY <3>1 DEF Zones, Has
    <3>. QED
      BY <3>1, <3>2 DEF OthersSame
  <2>. QED
    BY <1>1, <2>1, <2>2, <2>3 DEF PutHostedZone
<1>2. ASSUME IInv, [Next]_vars
      PROVE  [\A h \in Handler : PutHostedZone(h) =>
                \A i \in Zones : bucket'[ZoneKey(i)] = bucket[ZoneKey(i)]]_vars
  BY <1>1, <1>2
<1>. QED
  BY <1>2, Invariance, PTL DEF Spec, NoZoneReplaced
=============================================================================
