---------------------------- MODULE DbFunctions ----------------------------
(***************************************************************************)
(* The export and the import of everything, internal/dbfcns/api.go,        *)
(* composed with the Parameter Store of Ssm and with the zones and the     *)
(* Terraform states as far as an archive shows them: a zone is there with  *)
(* its record sets or it is not, a state file has a body or is not there.  *)
(* Route53 and TfState take these apart into transactions and system calls.*)
(*                                                                         *)
(* An export reads the stores one after the other, the parameters page by  *)
(* page, and answers with an archive, which a client keeps and may send    *)
(* back, perhaps damaged.  An import wipes the stores one after the other  *)
(* and then goes through the archive.  Other requests run in between.  One *)
(* export or import runs at a time.                                        *)
(*                                                                         *)
(* touched is a history variable: what other requests changed since the    *)
(* export or the import began.                                             *)
(*                                                                         *)
(* Definitions whose name starts with Broken are faulty variants of the    *)
(* definition after them, used by no specification: each shows that a      *)
(* property would fail if the code had that fault.                         *)
(***************************************************************************)
EXTENDS Ssm

CONSTANTS
  KeyOrder,    \* the names, in the byte order of their keys
  ZoneOrder,   \* the hosted zones, in the order of their keys
  FileOrder,   \* the projects, in the order ReadDir lists their states
  Record,      \* record sets of a zone
  Content,     \* the sets of them other requests give a zone
  Body,        \* what clients save as state
  Torn,        \* what is in a state file when a save of it broke off
  Damage,      \* the places in an archive where a file may be damaged
  PageSize     \* how many parameters an export reads at a time: 50

SavedBody == Body \cup {Torn}
Zone == {ZoneOrder[i] : i \in DOMAIN ZoneOrder}
Project == {FileOrder[i] : i \in DOMAIN FileOrder}

Distinct(order) ==
  \A i, j \in DOMAIN order : order[i] = order[j] => i = j

ASSUME DbAssumption ==
  /\ KeyOrder \in Seq(Name) /\ {KeyOrder[i] : i \in DOMAIN KeyOrder} = Name
  /\ Distinct(KeyOrder) /\ PageSize \in Nat \ {0}
  /\ ZoneOrder \in Seq(Zone) /\ Distinct(ZoneOrder)
  /\ FileOrder \in Seq(Project) /\ Distinct(FileOrder)
  /\ Absent \notin Body \cup {Torn} /\ Torn \notin Body
  /\ \A rs \in SUBSET Record : rs # Absent
  /\ Content \subseteq SUBSET Record
  /\ Base \cap Zone = {} /\ Base \cap Project = {} /\ Zone \cap Project = {}

VARIABLES
  zones,    \* the record sets of each zone, Absent for no zone
  states,   \* the body of each state file, Absent for no file
  job,      \* the export or import that runs, and the archive
  touched   \* history: what others changed since it began

db == <<zones, states>>
dbVars == <<vars, zones, states, job, touched>>

-----------------------------------------------------------------------------
(* The files of an archive.                                                *)

SsmFile(list) == [name |-> "ssm", list |-> list]
Route53File(list) == [name |-> "route53", list |-> list]
StateFile(p, b) == [name |-> "tfstate", project |-> p, body |-> b]

(* One that cannot be opened, read to its end or decoded.                  *)
Bad(file) == [name |-> "bad", was |-> file]

ZoneExport == [zone : Zone, records : SUBSET Record]

ArchiveFile ==
  [name : {"ssm"}, list : Seq(Request)]
    \cup [name : {"route53"}, list : Seq(ZoneExport)]
    \cup [name : {"tfstate"}, project : Project, body : SavedBody]

(* todo is what is left of the loop at hand.  skipped is what an export    *)
(* could not read, and what an import could not read or did not finish.    *)
(* wiped are the stores that an import has wiped.                          *)
Job(pc, files, todo) ==
  [pc |-> pc, files |-> files, todo |-> todo, skipped |-> {}, wiped |-> {}]

Stores == {"states", "ssm", "route53"}
Exporting == {"params", "toZones", "zones", "states", "exported"}
Restoring == {"wipeStates", "wipeSsm", "wipeRoute53", "importing",
              "imported", "failed", "stopped"}

(* The client has its answer, or none will come.                           *)
Over == {"exported", "imported", "failed", "stopped"}

DbTypeOK ==
  /\ TypeOK
  /\ zones \in [Zone -> {Absent} \cup SUBSET Record]
  /\ states \in [Project -> SavedBody \cup {Absent}]
  /\ job = Idle \/ /\ job.pc \in Exporting \cup Restoring
                   /\ job.files \in Seq(ArchiveFile)
                   /\ job.skipped \in SUBSET (Base \cup Zone \cup Project)
                   /\ job.wiped \in SUBSET Stores
  /\ touched \in SUBSET (Base \cup Zone \cup Project)

DbInit ==
  /\ Init
  /\ zones = EmptyBucket(Zone)
  /\ states = EmptyBucket(Project)
  /\ job = Idle
  /\ touched = {}

-----------------------------------------------------------------------------
(* What other requests do, one at a time and a tag edit in two steps.      *)

Others(items) ==
  /\ touched' = IF job = Idle THEN {} ELSE touched \cup items
  /\ UNCHANGED job

OtherPut(req) ==
  /\ PutParameter(req)
  /\ Others({req.name.base})
  /\ UNCHANGED db

OtherDelete(n) ==
  /\ DeleteParameter(n)
  /\ Others({n.base})
  /\ UNCHANGED db

OtherReadForTags(h, edit) ==
  /\ ReadForTags(h, edit)
  /\ Others({})
  /\ UNCHANGED db

OtherWriteTags(h) ==
  /\ WriteTags(h)
  /\ Others({handler[h].edit.name.base})
  /\ UNCHANGED db

(* A zone is created, gets other record sets, or is deleted.               *)
OtherZone(z, records) ==
  /\ zones' = [zones EXCEPT ![z] = records]
  /\ Others({z})
  /\ UNCHANGED <<vars, states>>

(* A state is saved, or a part of it by a client that breaks off, or is    *)
(* deleted.                                                                *)
OtherState(p, b) ==
  /\ states' = [states EXCEPT ![p] = b]
  /\ Others({p})
  /\ UNCHANGED <<vars, zones>>

-----------------------------------------------------------------------------
(* exportAll.                                                              *)

(* What is there, in its order.                                            *)
InOrder(order, there) ==
  LET first[n \in 0..Len(order)] ==
        IF n = 0 THEN <<>>
        ELSE IF order[n] \in there THEN Append(first[n - 1], order[n])
        ELSE first[n - 1]
  IN first[Len(order)]

(* What GetAllParameters returns: every parameter under the name it        *)
(* carries, in the clear.                                                  *)
Exported(data) ==
  [name |-> data.name, type |-> data.type,
   value |-> ValueWithDecryption(keyring, data), keyId |-> data.keyId,
   tags |-> data.tags, overwrite |-> TRUE]

(* The stored keys between two places of their order.                      *)
Keys(from, to) ==
  InOrder(SubSeq(KeyOrder, from, to), {k \in Name : Has(params, k)})

Page(from, to) ==
  LET keys == Keys(from, to)
  IN [i \in DOMAIN keys |-> Exported(params[keys[i]])]

Collected(pc, list, todo) == job' = Job(pc, <<SsmFile(list)>>, todo)

BrokenGetAllParameters(list, from) ==   \* goes on behind the token's key
  \/ \E to \in from..Len(KeyOrder) :
       /\ Len(Keys(from, to - 1)) = PageSize
       /\ Has(params, KeyOrder[to])
       /\ Collected("params", list \o Page(from, to - 1), <<to + 1>>)
  \/ /\ Len(Keys(from, Len(KeyOrder))) <= PageSize
     /\ Collected("toZones", list \o Page(from, Len(KeyOrder)), <<>>)

(* A turn of the loop of GetAllParameters, a transaction of its own: after *)
(* a full page the next key that is stored is the token, the place the     *)
(* next page begins at.  list is what the turns before have read.          *)
GetAllParameters(list, from) ==
  \/ \E to \in from..Len(KeyOrder) :
       /\ Len(Keys(from, to - 1)) = PageSize
       /\ Has(params, KeyOrder[to])
       /\ Collected("params", list \o Page(from, to - 1), <<to>>)
  \/ /\ Len(Keys(from, Len(KeyOrder))) <= PageSize
     /\ Collected("toZones", list \o Page(from, Len(KeyOrder)), <<>>)

ExportAll ==
  /\ job = Idle
  /\ GetAllParameters(<<>>, 1)
  /\ touched' = {}
  /\ UNCHANGED <<vars, db>>

NextPage ==
  /\ job.pc = "params"
  /\ GetAllParameters(job.files[1].list, Head(job.todo))
  /\ UNCHANGED <<vars, db, touched>>

(* ExportHostedZones: the zones in one transaction, then the record sets   *)
(* of each in one of its own.                                              *)
ListZones ==
  /\ job.pc = "toZones"
  /\ job' = Job("zones", Append(job.files, Route53File(<<>>)),
                InOrder(ZoneOrder, {z \in Zone : Has(zones, z)}))
  /\ UNCHANGED <<vars, db, touched>>

RecordsOf(z) == IF Has(zones, z) THEN zones[z] ELSE {}

ExportZone ==
  /\ job.pc = "zones"
  /\ job.todo # <<>>
  /\ LET z == Head(job.todo)
     IN job' = [job EXCEPT
          !.files[2].list = Append(@, [zone |-> z, records |-> RecordsOf(z)]),
          !.todo = Tail(@)]
  /\ UNCHANGED <<vars, db, touched>>

ListStateFiles ==
  /\ job.pc = "zones"
  /\ job.todo = <<>>
  /\ job' = [job EXCEPT !.pc = "states",
               !.todo = InOrder(FileOrder, {p \in Project : Has(states, p)})]
  /\ UNCHANGED <<vars, db, touched>>

BrokenExportState ==   \* what ReadFile answers is written, error or not
  /\ job.pc = "states"
  /\ job.todo # <<>>
  /\ LET p == Head(job.todo)
     IN job' = [job EXCEPT !.files = Append(@, StateFile(p, states[p])),
                           !.todo = Tail(@)]
  /\ UNCHANGED <<vars, db, touched>>

(* A state that cannot be read, or is gone, is left out.                   *)
ExportState ==
  /\ job.pc = "states"
  /\ job.todo # <<>>
  /\ LET p == Head(job.todo)
     IN \/ /\ Has(states, p)
           /\ job' = [job EXCEPT !.files = Append(@, StateFile(p, states[p])),
                                 !.todo = Tail(@)]
        \/ job' = [job EXCEPT !.skipped = @ \cup {p}, !.todo = Tail(@)]
  /\ UNCHANGED <<vars, db, touched>>

EndExport ==
  /\ job.pc = "states"
  /\ job.todo = <<>>
  /\ job' = [job EXCEPT !.pc = "exported"]
  /\ UNCHANGED <<vars, db, touched>>

-----------------------------------------------------------------------------
(* importAll.                                                              *)

(* What a client may send for an archive: one of its files may be damaged. *)
Sent(files) ==
  {files}
    \cup {[files EXCEPT ![i] = Bad(@)] : i \in Damage \cap DOMAIN files}

ImportAll ==
  /\ job.pc \in Over
  /\ \E files \in Sent(job.files) :
       job' = Job("wipeStates", job.files, files)
  /\ touched' = {}
  /\ UNCHANGED <<vars, db>>

Wiped(what, pc) == job' = [job EXCEPT !.pc = pc, !.wiped = @ \cup {what}]

(* The import ends with an error.                                          *)
Stop(pc) == job' = [job EXCEPT !.pc = pc, !.todo = <<>>]

(* The wipe of the states stops with an error at a file that is gone.      *)
WipeStates ==
  /\ job.pc = "wipeStates"
  /\ \/ states' = EmptyBucket(Project) /\ Wiped("states", "wipeSsm")
     \/ /\ \E ps \in SUBSET Project : states' = DeleteKeys(states, ps)
        /\ Stop("stopped")
  /\ UNCHANGED <<vars, zones, touched>>

BrokenWipeSsm ==   \* the parameters are kept
  /\ job.pc = "wipeSsm"
  /\ Wiped("ssm", "wipeRoute53")
  /\ UNCHANGED <<vars, db, touched>>

(* The transactions of the two other wipes do all or nothing.              *)
WipeSsm ==
  /\ job.pc = "wipeSsm"
  /\ \/ DeleteAllData /\ Wiped("ssm", "wipeRoute53")
     \/ UNCHANGED vars /\ Stop("stopped")
  /\ UNCHANGED <<db, touched>>

WipeRoute53 ==
  /\ job.pc = "wipeRoute53"
  /\ \/ zones' = EmptyBucket(Zone) /\ Wiped("route53", "importing")
     \/ UNCHANGED zones /\ Stop("stopped")
  /\ UNCHANGED <<vars, states, touched>>

AtFile(name) ==
  job.pc = "importing" /\ job.todo # <<>> /\ Head(job.todo).name = name

(* The names come back as paths, whatever key they were stored under.      *)
ImportParameter ==
  /\ AtFile("ssm")
  /\ Head(job.todo).list # <<>>
  /\ LET req == Head(Head(job.todo).list)
     IN IF Accepted(req) THEN persistParameter(req, TRUE) ELSE UNCHANGED store
  /\ job' = [job EXCEPT !.todo[1].list = Tail(@)]
  /\ UNCHANGED <<keyring, handler, db, touched>>

BrokenImportZone ==   \* the zones come back without record sets
  /\ AtFile("route53")
  /\ Head(job.todo).list # <<>>
  /\ LET new == Head(Head(job.todo).list)
     IN zones' = [zones EXCEPT ![new.zone] = RecordsOf(new.zone)]
  /\ job' = [job EXCEPT !.todo[1].list = Tail(@)]
  /\ UNCHANGED <<vars, states, touched>>

ImportZone ==
  /\ AtFile("route53")
  /\ Head(job.todo).list # <<>>
  /\ LET new == Head(Head(job.todo).list)
     IN zones' =
          [zones EXCEPT ![new.zone] = RecordsOf(new.zone) \cup new.records]
  /\ job' = [job EXCEPT !.todo[1].list = Tail(@)]
  /\ UNCHANGED <<vars, states, touched>>

EndFile ==
  /\ AtFile("ssm") \/ AtFile("route53")
  /\ Head(job.todo).list = <<>>
  /\ job' = [job EXCEPT !.todo = Tail(@)]
  /\ UNCHANGED <<vars, db, touched>>

ImportState ==
  /\ AtFile("tfstate")
  /\ LET file == Head(job.todo)
     IN states' = [states EXCEPT ![file.project] = file.body]
  /\ job' = [job EXCEPT !.todo = Tail(@)]
  /\ UNCHANGED <<vars, zones, touched>>

AtEntry(name) == AtFile(name) /\ Head(job.todo).list # <<>>

(* What the import is at, to be put back.                                  *)
InHand ==
  IF AtEntry("ssm") THEN {Head(Head(job.todo).list).name.base}
  ELSE IF AtEntry("route53") THEN {Head(Head(job.todo).list).zone}
  ELSE IF AtFile("tfstate") THEN {Head(job.todo).project}
  ELSE {}

(* What it leaves of that when it fails or the process dies: nothing, or   *)
(* the zone without the record sets, or the file opened and not written to *)
(* its end.                                                                *)
BreakOff ==
  \/ UNCHANGED db
  \/ /\ AtEntry("route53")
     /\ \E z \in InHand : zones' = [zones EXCEPT ![z] = RecordsOf(z)]
     /\ UNCHANGED states
  \/ /\ AtFile("tfstate")
     /\ \E p \in InHand : states' = [states EXCEPT ![p] = Torn]
     /\ UNCHANGED zones

(* The parameters and zones that fail are named in the answer,             *)
EntryFails ==
  /\ AtEntry("ssm") \/ AtEntry("route53")
  /\ BreakOff
  /\ job' = [job EXCEPT !.todo[1].list = Tail(@), !.skipped = @ \cup InHand]
  /\ UNCHANGED <<vars, touched>>

(* but a state that cannot be written ends the import.                     *)
ImportStateFails ==
  /\ AtFile("tfstate")
  /\ BreakOff
  /\ job' = [job EXCEPT !.pc = "failed", !.todo = <<>>,
                        !.skipped = @ \cup InHand]
  /\ UNCHANGED <<vars, touched>>

(* The stores are wiped already when a file turns out not to open or parse.*)
BadFileFails ==
  /\ AtFile("bad")
  /\ Stop("failed")
  /\ UNCHANGED <<vars, db, touched>>

(* A state that opens but cannot be read to its end is passed over, and    *)
(* the answer does not say so.                                             *)
BadStateIsSkipped ==
  /\ AtFile("bad")
  /\ Head(job.todo).was.name = "tfstate"
  /\ job' = [job EXCEPT !.todo = Tail(@),
               !.skipped = @ \cup {Head(job.todo).was.project}]
  /\ UNCHANGED <<vars, db, touched>>

EndImport ==
  /\ job.pc = "importing"
  /\ job.todo = <<>>
  /\ job' = [job EXCEPT !.pc = "imported"]
  /\ UNCHANGED <<vars, db, touched>>

-----------------------------------------------------------------------------
(* The client throws the archive away.                                     *)
Discard ==
  /\ job.pc \in Over
  /\ job' = Idle
  /\ touched' = {}
  /\ UNCHANGED <<vars, db>>

(* An export in flight is gone.  An import in flight is cut off, and what  *)
(* it was at may be there in part; the archive is still the client's.      *)
DbRestart(keys) ==
  /\ Restart(keys)
  /\ job' = CASE job.pc \in Over -> job
              [] job.pc \in Restoring \ Over ->
                   [job EXCEPT !.pc = "stopped", !.todo = <<>>,
                               !.skipped = @ \cup InHand]
              [] OTHER -> Idle
  /\ touched' = IF job' = Idle THEN {} ELSE touched
  /\ BreakOff

DbNext ==
  \/ \E req \in PutRequest : OtherPut(req)
  \/ \E n \in Name : OtherDelete(n)
  \/ \E h \in Handler : \/ \E edit \in TagRequest : OtherReadForTags(h, edit)
                        \/ OtherWriteTags(h)
  \/ \E z \in Zone, records \in {Absent} \cup Content :
       OtherZone(z, records)
  \/ \E p \in Project, b \in {Absent} \cup SavedBody : OtherState(p, b)
  \/ ExportAll \/ NextPage
  \/ ListZones \/ ExportZone \/ ListStateFiles \/ ExportState \/ EndExport
  \/ ImportAll \/ WipeStates \/ WipeSsm \/ WipeRoute53
  \/ ImportParameter \/ ImportZone \/ EndFile \/ ImportState
  \/ EntryFails \/ ImportStateFails \/ BadFileFails
  \/ BadStateIsSkipped
  \/ EndImport
  \/ Discard
  \/ \E keys \in Keyrings : DbRestart(keys)

DbSpec == DbInit /\ [][DbNext]_dbVars

-----------------------------------------------------------------------------
(* What an archive says.                                                   *)

Entries(n) ==
  {job.files[1].list[i] :
     i \in {j \in DOMAIN job.files[1].list : job.files[1].list[j].name = n}}

Answer(req) == [value |-> req.value, tags |-> req.tags]

ArchivedRecords(z) ==
  {job.files[2].list[i].records :
     i \in {j \in DOMAIN job.files[2].list : job.files[2].list[j].zone = z}}

ArchivedBodies(p) ==
  {job.files[i].body :
     i \in {j \in 3..Len(job.files) : job.files[j].project = p}}

(* The one thing in the set, or Absent.                                    *)
Only(set) == IF set = {} THEN {Absent} ELSE set

(* The zones and the states nobody touched are those of the archive.       *)
StoresAgree ==
  /\ \A z \in Zone \ (touched \cup job.skipped) :
       Only(ArchivedRecords(z)) = {zones[z]}
  /\ \A p \in Project \ (touched \cup job.skipped) :
       Only(ArchivedBodies(p)) = {states[p]}

(* An export reads its stores at different times, but what nobody touches  *)
(* while it runs is in the archive as it is stored, in the clear and under *)
(* its own name, and what is not stored is not in it.  Only a state that   *)
(* cannot be read is left out.                                             *)
ArchiveIsWhole ==
  job.pc = "exported" =>
    /\ \A n \in Name : n.base \notin touched =>
         {Answer(e) : e \in Entries(n)} =
           IF Has(params, n)
           THEN {[value |-> ValueWithDecryption(keyring, params[n]),
                  tags |-> params[n].tags]}
           ELSE {}
    /\ StoresAgree

(* An import that answers that it is processed leaves, of all that nobody  *)
(* touches meanwhile, what the archive holds and nothing else, but for     *)
(* what it names as failed and for a state that could not be read.  For a  *)
(* parameter that is in the archive under two names see MigratesAll.       *)
ImportRestores ==
  job.pc = "imported" =>
    /\ \A b \in Base \ (touched \cup job.skipped) :
         Entries([base |-> b, slash |-> FALSE]) = {} =>
           {GetParameter(PathKey(b))} =
             LET es == {Answer(e) : e \in Entries(PathKey(b))}
             IN IF es = {} THEN {Gone} ELSE es
    /\ StoresAgree

(* What a store that an import has wiped may hold of things nobody touched *)
(* meanwhile: nothing but what is in the archive, and of what the import   *)
(* failed at or was cut off at perhaps only a part.                        *)
OnlyArchived(what) ==
  CASE what = "ssm" ->
         \A b \in Base \ touched :
           GetParameter(PathKey(b)) \in {Gone} \cup
             {Answer(e) : e \in Entries(PathKey(b))
                                  \cup Entries([base |-> b, slash |-> FALSE])}
    [] what = "route53" ->
         \A z \in Zone \ touched : Has(zones, z) =>
           \/ zones[z] \in ArchivedRecords(z)
           \/ z \in job.skipped /\ zones[z] = {}
    [] what = "states" ->
         \A p \in Project \ touched : Has(states, p) =>
           \/ states[p] \in ArchivedBodies(p)
           \/ p \in job.skipped /\ states[p] = Torn

(* Nothing that was in a store survives its wipe, whether the import goes  *)
(* on, ends, fails, or is cut off, be it between two wipes or at an entry. *)
NothingOldSurvives ==
  job.pc \in Restoring => \A what \in job.wiped : OnlyArchived(what)

(* docs/datastore-refactor.md: an export, then an import, moves the data.  *)
MigratesAll ==
  job.pc = "imported" =>
    \A b \in Base \ (touched \cup job.skipped) :
      \A e \in Entries(PathKey(b)) : GetParameter(PathKey(b)).value = e.value
=============================================================================
