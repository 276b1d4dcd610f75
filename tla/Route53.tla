------------------------------ MODULE Route53 ------------------------------
(***************************************************************************)
(* The hosted zones of internal/route53: one bucket that holds the zones,  *)
(* their record sets and the change infos, and the request handlers that   *)
(* net/http runs side by side over it.                                     *)
(*                                                                         *)
(* One transaction is one step.  Every request that writes reads first, in *)
(* a transaction of its own, and writes what follows from what it read.    *)
(* Requests that change nothing are left out, except for the two refusals  *)
(* whose messages say something about the zones.                           *)
(*                                                                         *)
(* overtaken is a history variable: the zones for which a request wrote    *)
(* between the read and the write of another in a way that the other would *)
(* have had to see.  Nothing the code does reads it.                       *)
(*                                                                         *)
(* Definitions whose name starts with Broken are faulty variants of the    *)
(* definition after them, used by no specification: each shows that a      *)
(* property would fail if the code had that fault.                         *)
(***************************************************************************)
EXTENDS Datastore, FiniteSets

CONSTANTS
  ZoneId, ChangeId,   \* random ids, which may come up twice
  ZoneName,
  Occurs,     \* <<n, m>>: the expression made from name n matches in name m
  Malformed,  \* the names no expression can be made from, like "*.x."
  Rr,         \* the record sets of a zone: a relative name and a type
  Soa, Ns,    \* the two at the apex that a new zone gets
  RrType,
  Outside,    \* a record set whose name is not below the zone's
  Comment, Tags,
  NoComment, NoTags,
  Handler,
  ChangeBatch,   \* the batches of ChangeResourceRecordSets
  ImportList     \* the zone lists of ImportHostedZones

ZoneKey(i) == <<"hostedzone", i>>
ChangeKey(c) == <<"change", c>>
RecordKey(i, r) == <<"recordset", i, r>>

ZoneKeys == {ZoneKey(i) : i \in ZoneId}
ChangeKeys == {ChangeKey(c) : c \in ChangeId}
RecordKeys == {RecordKey(i, r) : i \in ZoneId, r \in Rr}
Key == ZoneKeys \cup ChangeKeys \cup RecordKeys

HostedZoneData == [name : ZoneName, comment : Comment, tags : Tags]

(* What is in a record set or a change info matters to no property.        *)
Record == [kind |-> "record"]
ChangeInfo == [kind |-> "change"]

ChangeData ==
  [action : {"CREATE", "UPSERT", "DELETE"}, rr : Rr \cup {Outside}]

(* Each edit replaces one field of a zone.                                 *)
ZoneEdit ==
  [field : {"comment"}, value : Comment] \cup [field : {"tags"}, value : Tags]

HostedZoneExport ==
  [id : ZoneId, zone : HostedZoneData, records : Seq(Rr \cup {Outside})]

Route53Assumption ==
  /\ Absent \notin HostedZoneData \cup {Record, ChangeInfo}
  /\ {Soa, Ns} \subseteq Rr
  /\ Outside \notin Rr
  /\ RrType \in [Rr -> {"SOA", "NS", "other"}]
  /\ RrType[Soa] = "SOA" /\ RrType[Ns] = "NS"
  /\ Malformed \subseteq ZoneName
  /\ NoComment \in Comment /\ NoTags \in Tags
  /\ ChangeBatch \subseteq Seq(ChangeData)
  /\ ImportList \subseteq Seq(HostedZoneExport)

ASSUME Route53Constants == Route53Assumption

-----------------------------------------------------------------------------
VARIABLES
  bucket,     \* the route53 bucket
  handler,    \* the requests in flight and how far they are
  overtaken   \* history: the zones written to behind a request's back

vars == <<bucket, handler, overtaken>>

Idle == [pc |-> "idle"]
Answered(error, id) == [pc |-> "answered", error |-> error, id |-> id]
Changing(i, changes) == [pc |-> "changing", id |-> i, changes |-> changes]
Editing(i, edit, copy) ==
  [pc |-> "editing", id |-> i, edit |-> edit, copy |-> copy]
Deleting(stage, i) == [pc |-> stage, id |-> i]
Importing(todo, overwrite) ==
  [pc |-> "importing", todo |-> todo, overwrite |-> overwrite]
Filling(i, changes, todo) ==
  [pc |-> "filling", id |-> i, changes |-> changes, todo |-> todo]
(* then is what the request does next: answer, or import the next zone.    *)
Creating(ids, zone, changes, then) ==
  [pc |-> "creating", ids |-> ids, zone |-> zone, changes |-> changes,
   then |-> then]

ImportState == [pc : {"importing"}, todo : Seq(HostedZoneExport),
                overwrite : BOOLEAN]

HandlerState ==
  {Idle}
    \cup [pc : {"answered"}, error : {"AlreadyExists", "NotEmpty"},
          id : ZoneId \cup ZoneName]
    \cup [pc : {"changing"}, id : ZoneId, changes : Seq(ChangeData)]
    \cup [pc : {"editing"}, id : ZoneId, edit : ZoneEdit,
          copy : HostedZoneData]
    \cup [pc : {"counting", "listing", "removing"}, id : ZoneId]
    \cup [pc : {"creating"}, ids : SUBSET ZoneId, zone : HostedZoneData,
          changes : Seq(ChangeData), then : {Idle} \cup ImportState]
    \cup [pc : {"filling"}, id : ZoneId, changes : Seq(ChangeData),
          todo : Seq(HostedZoneExport)]
    \cup ImportState

Init ==
  /\ bucket = EmptyBucket(Key)
  /\ handler = [h \in Handler |-> Idle]
  /\ overtaken = {}

Goto(h, s) == handler' = [handler EXCEPT ![h] = s]

-----------------------------------------------------------------------------
(* What a transaction of datastore.go reads.                               *)

Zones == {i \in ZoneId : Has(bucket, ZoneKey(i))}

RecordsOf(i) == {r \in Rr : Has(bucket, RecordKey(i, r))}

getRecordCount(i) ==
  LET n == Cardinality(RecordsOf(i)) IN IF n > 2 THEN n ELSE 2

(* The zones the regular expression made from a name finds.  It is not     *)
(* anchored, so a name that is part of another finds that one too, and     *)
(* only dots are escaped, so a name like "a+b." does not find itself.      *)
findHostedZones(n) ==
  {i \in Zones : <<n, bucket[ZoneKey(i)].name>> \in Occurs}

SoaOrNs(r) == RrType[r] \in {"SOA", "NS"}

-----------------------------------------------------------------------------
(* What a transaction of datastore.go writes.                              *)

convertible(changes) ==
  \A j \in DOMAIN changes : changes[j].rr # Outside

ItemOpOf == [DELETE |-> "delete", UPSERT |-> "overwrite", CREATE |-> "create"]

convertToPutData(i, changes) ==
  [j \in DOMAIN changes |->
    [op |-> ItemOpOf[changes[j].action], key |-> RecordKey(i, changes[j].rr),
     data |-> Record]]

PutZone(i, zone, op) == <<[op |-> op, key |-> ZoneKey(i), data |-> zone]>>
PutChange(c) == <<[op |-> "create", key |-> ChangeKey(c), data |-> ChangeInfo]>>

BrokenNewZone(i, zone, changes, c) ==   \* an id drawn twice replaces a zone
  PutZone(i, zone, "overwrite") \o PutChange(c) \o convertToPutData(i, changes)

(* The batches of putHostedZone and putRecordSets.                         *)
NewZone(i, zone, changes, c) ==
  PutZone(i, zone, "create") \o PutChange(c) \o convertToPutData(i, changes)

BrokenRecordSets(i, changes, c) ==   \* the change info takes the zone's key
  convertToPutData(i, changes)
    \o <<[op |-> "overwrite", key |-> ZoneKey(i), data |-> ChangeInfo]>>

RecordSets(i, changes, c) == convertToPutData(i, changes) \o PutChange(c)

Upserts(records) ==
  [j \in DOMAIN records |-> [action |-> "UPSERT", rr |-> records[j]]]

(* A new zone gets a SOA and an NS record set.                             *)
ApexRecords == << [action |-> "CREATE", rr |-> Soa],
                  [action |-> "CREATE", rr |-> Ns] >>

(* The requests that are at one of these steps with zone i.                *)
At(i, steps) ==
  {g \in Handler : handler[g].pc \in steps /\ handler[g].id = i}

(* The requests that found the name free and are about to create it.       *)
Naming(n) ==
  {g \in Handler : handler[g].pc = "creating" /\ handler[g].zone.name = n}

(* h writes to zone i, which others would have had to know.                *)
Overtake(h, i, others) ==
  overtaken' = IF others \subseteq {h} THEN overtaken ELSE overtaken \cup {i}

-----------------------------------------------------------------------------
(* CreateHostedZone, and ImportHostedZones without overwrite.              *)

BrokenCheckName(h, ids, zone, changes, refused, then) ==   \* one is none
  /\ Goto(h, IF Cardinality(findHostedZones(zone.name)) > 1
             THEN refused
             ELSE Creating(ids, zone, changes, then))
  /\ UNCHANGED <<bucket, overtaken>>

(* putHostedZone first looks for the name, and fails if it cannot.         *)
CheckName(h, ids, zone, changes, refused, then) ==
  /\ \/ /\ zone.name \in Malformed
        /\ Goto(h, then)
     \/ /\ zone.name \notin Malformed
        /\ Goto(h, IF findHostedZones(zone.name) # {}
                   THEN refused
                   ELSE Creating(ids, zone, changes, then))
  /\ UNCHANGED <<bucket, overtaken>>

CreateHostedZone(h, n, comment) ==
  /\ handler[h] = Idle
  /\ LET zone == [name |-> n, comment |-> comment, tags |-> NoTags]
     IN CheckName(h, ZoneId, zone, ApexRecords,
                  Answered("AlreadyExists", n), Idle)

(* It then stores the zone, the change info and the record sets at once,   *)
(* unless one of the keys is taken.                                        *)
PutHostedZone(h) ==
  /\ handler[h].pc = "creating"
  /\ LET zone == handler[h].zone
         changes == handler[h].changes
     IN \E i \in handler[h].ids, c \in ChangeId :
          LET batch == NewZone(i, zone, changes, c)
          IN IF convertible(changes) /\ ~Clashes(bucket, batch)
             THEN /\ bucket' = PutKeys(bucket, batch)
                  /\ Overtake(h, i, Naming(zone.name) \cup At(i, {"removing"}))
             ELSE UNCHANGED <<bucket, overtaken>>
  /\ Goto(h, handler[h].then)

-----------------------------------------------------------------------------
(* ChangeResourceRecordSets.                                               *)

ReadForChange(h, i, changes) ==
  /\ handler[h] = Idle
  /\ i \in Zones
  /\ Goto(h, Changing(i, changes))
  /\ UNCHANGED <<bucket, overtaken>>

(* All of the batch and its change info, or nothing.                       *)
putRecordSets(h, i, changes) ==
  \E c \in ChangeId :
    LET batch == RecordSets(i, changes, c)
    IN IF convertible(changes) /\ ~Clashes(bucket, batch)
       THEN /\ bucket' = PutKeys(bucket, batch)
            /\ Overtake(h, i, At(i, {"removing"}))
       ELSE UNCHANGED <<bucket, overtaken>>

ChangeResourceRecordSets(h) ==
  /\ handler[h].pc = "changing"
  /\ putRecordSets(h, handler[h].id, handler[h].changes)
  /\ Goto(h, Idle)

-----------------------------------------------------------------------------
(* UpdateHostedZoneComment and ChangeTagsForResource.                      *)

ReadForEdit(h, i, edit) ==
  /\ handler[h] = Idle
  /\ i \in Zones
  /\ Goto(h, Editing(i, edit, bucket[ZoneKey(i)]))
  /\ UNCHANGED <<bucket, overtaken>>

BrokenEdited(zone, edit) ==   \* tags reset the comment
  IF edit.field = "comment"
  THEN [zone EXCEPT !.comment = edit.value]
  ELSE [zone EXCEPT !.tags = edit.value, !.comment = NoComment]

Edited(zone, edit) ==
  IF edit.field = "comment" THEN [zone EXCEPT !.comment = edit.value]
                            ELSE [zone EXCEPT !.tags = edit.value]

(* updateHostedZone puts the edited copy whatever is stored by now.        *)
UpdateHostedZone(h) ==
  /\ handler[h].pc = "editing"
  /\ LET i == handler[h].id
         batch == PutZone(i, Edited(handler[h].copy, handler[h].edit),
                          "overwrite")
     IN /\ bucket' = PutKeys(bucket, batch)
        /\ Overtake(h, i, At(i, {"editing"}))
  /\ Goto(h, Idle)

-----------------------------------------------------------------------------
(* DeleteHostedZone: the zone, the count, the record sets and the deletion *)
(* are four transactions.                                                  *)

ReadForDelete(h, i) ==
  /\ handler[h] = Idle
  /\ i \in Zones
  /\ Goto(h, Deleting("counting", i))
  /\ UNCHANGED <<bucket, overtaken>>

CountRecords(h) ==
  /\ handler[h].pc = "counting"
  /\ LET i == handler[h].id
     IN Goto(h, IF getRecordCount(i) > 2 THEN Answered("NotEmpty", i)
                                         ELSE Deleting("listing", i))
  /\ UNCHANGED <<bucket, overtaken>>

BrokenListRecords(h) ==   \* only the count is looked at
  /\ handler[h].pc = "listing"
  /\ Goto(h, Deleting("removing", handler[h].id))
  /\ UNCHANGED <<bucket, overtaken>>

ListRecords(h) ==
  /\ handler[h].pc = "listing"
  /\ LET i == handler[h].id
     IN Goto(h, IF \A r \in RecordsOf(i) : SoaOrNs(r)
                THEN Deleting("removing", i)
                ELSE Answered("NotEmpty", i))
  /\ UNCHANGED <<bucket, overtaken>>

BrokenDeleteHostedZone(i) ==   \* the record sets stay
  DeleteKeys(bucket, {ZoneKey(i)})

deleteHostedZone(i) ==
  DeleteKeys(bucket, {ZoneKey(i)} \cup {RecordKey(i, r) : r \in Rr})

(* Everything below the zone goes, checked or not; a change info of the    *)
(* same id is overwritten.                                                 *)
DeleteHostedZone(h) ==
  /\ handler[h].pc = "removing"
  /\ LET i == handler[h].id
     IN /\ \E c \in ChangeId :
             bucket' = [deleteHostedZone(i) EXCEPT ![ChangeKey(c)] = ChangeInfo]
        /\ Overtake(h, i, At(i, {"changing", "editing", "filling"}))
  /\ Goto(h, Idle)

DeleteAllData ==
  /\ bucket' = DeleteBucket(bucket)
  /\ overtaken' = overtaken \cup
       {i \in ZoneId : At(i, {"changing", "editing", "filling"}) # {}}
  /\ UNCHANGED handler

-----------------------------------------------------------------------------
(* ImportHostedZones, one zone after the other; one that fails is skipped. *)

BeginImport(h, list, overwrite) ==
  /\ handler[h] = Idle
  /\ Goto(h, Importing(list, overwrite))
  /\ UNCHANGED <<bucket, overtaken>>

(* Without overwrite a zone is created as if it were new.                  *)
ImportNewZone(h) ==
  /\ handler[h].pc = "importing"
  /\ ~handler[h].overwrite
  /\ handler[h].todo # <<>>
  /\ LET export == Head(handler[h].todo)
         rest == Importing(Tail(handler[h].todo), FALSE)
     IN CheckName(h, {export.id}, export.zone, Upserts(export.records),
                  rest, rest)

(* With overwrite the zone is put first, whatever is stored,               *)
ImportZone(h) ==
  /\ handler[h].pc = "importing"
  /\ handler[h].overwrite
  /\ handler[h].todo # <<>>
  /\ LET export == Head(handler[h].todo)
         i == export.id
         n == export.zone.name
         namesakes == {j \in Zones \ {i} : bucket[ZoneKey(j)].name = n}
     IN /\ bucket' = PutKeys(bucket, PutZone(i, export.zone, "overwrite"))
        /\ overtaken' =
             IF Naming(n) \cup At(i, {"editing"}) = {} /\ namesakes = {}
             THEN overtaken ELSE overtaken \cup {i}
        /\ Goto(h, Filling(i, Upserts(export.records), Tail(handler[h].todo)))

(* and its record sets in a transaction of their own.                      *)
ImportRecords(h) ==
  /\ handler[h].pc = "filling"
  /\ putRecordSets(h, handler[h].id, handler[h].changes)
  /\ Goto(h, Importing(handler[h].todo, TRUE))

EndImport(h) ==
  /\ handler[h].pc = "importing"
  /\ handler[h].todo = <<>>
  /\ Goto(h, Idle)
  /\ UNCHANGED <<bucket, overtaken>>

-----------------------------------------------------------------------------
Reply(h) ==
  /\ handler[h].pc = "answered"
  /\ Goto(h, Idle)
  /\ UNCHANGED <<bucket, overtaken>>

(* The process stops between two transactions and is started again.        *)
Restart ==
  /\ handler' = [h \in Handler |-> Idle]
  /\ UNCHANGED <<bucket, overtaken>>

Start(h) ==
  \/ \E n \in ZoneName, comment \in Comment : CreateHostedZone(h, n, comment)
  \/ \E i \in ZoneId : \/ \E changes \in ChangeBatch : ReadForChange(h, i, changes)
                       \/ \E edit \in ZoneEdit : ReadForEdit(h, i, edit)
                       \/ ReadForDelete(h, i)
  \/ \E list \in ImportList, overwrite \in BOOLEAN :
       BeginImport(h, list, overwrite)

Step(h) ==
  \/ PutHostedZone(h)
  \/ ChangeResourceRecordSets(h)
  \/ UpdateHostedZone(h)
  \/ CountRecords(h)
  \/ ListRecords(h)
  \/ DeleteHostedZone(h)
  \/ ImportNewZone(h)
  \/ ImportZone(h)
  \/ ImportRecords(h)
  \/ EndImport(h)
  \/ Reply(h)

Next == \/ \E h \in Handler : Start(h) \/ Step(h)
        \/ DeleteAllData
        \/ Restart

Spec == Init /\ [][Next]_vars

-----------------------------------------------------------------------------
TypeOK ==
  /\ bucket \in [Key -> HostedZoneData \cup {Record, ChangeInfo, Absent}]
  /\ \A k \in ZoneKeys : bucket[k] \in HostedZoneData \cup {Absent}
  /\ \A k \in RecordKeys : bucket[k] \in {Record, Absent}
  /\ \A k \in ChangeKeys : bucket[k] \in {ChangeInfo, Absent}
  /\ handler \in [Handler -> HandlerState]
  /\ overtaken \in SUBSET ZoneId

(* A record set belongs to a zone that is there: only a request that was   *)
(* overtaken by the removal of its zone leaves one behind.  A crash never  *)
(* does, also not in the middle of an import.                              *)
RecordsHaveZone ==
  \A i \in ZoneId \ overtaken : RecordsOf(i) # {} => i \in Zones

(* The names whose expression finds the name itself, and those that no     *)
(* zone can be created under.                                              *)
Recognised == {n \in ZoneName : <<n, n>> \in Occurs} \cup Malformed

(* Two zones of one name come only from requests that overlapped, or from  *)
(* an import that overwrites, never from ids, edits or imports in turn: as *)
(* long as the name has no character that means something else in an       *)
(* expression.                                                             *)
UniqueNames ==
  \A i, j \in Zones \ overtaken :
    (/\ bucket[ZoneKey(i)].name = bucket[ZoneKey(j)].name
     /\ bucket[ZoneKey(i)].name \in Recognised) => i = j

(* An edit changes its own field of the zone as it is stored when the edit *)
(* is, if no other edit, import or removal got in between.                 *)
EditsOneField ==
  [][\A h \in Handler :
       (UpdateHostedZone(h) /\ handler[h].id \notin overtaken) =>
         LET k == ZoneKey(handler[h].id)
             field == handler[h].edit.field
         IN /\ bucket'[k] = [bucket[k] EXCEPT ![field] = handler[h].edit.value]
            /\ \A other \in Key \ {k} : bucket'[other] = bucket[other]]_vars

(* A deletion takes no record set but SOA and NS with it, unless one was   *)
(* added after it looked.                                                  *)
DeletesOnlyApex ==
  [][\A h \in Handler :
       (DeleteHostedZone(h) /\ handler[h].id \notin overtaken)
         => \A r \in RecordsOf(handler[h].id) : SoaOrNs(r)]_vars

(* A new zone takes no other zone's place, even when its random id has     *)
(* been drawn before: putting it back needs an import that overwrites.     *)
NoZoneReplaced ==
  [][\A h \in Handler : PutHostedZone(h) =>
       \A i \in Zones : bucket'[ZoneKey(i)] = bucket[ZoneKey(i)]]_vars
=============================================================================
