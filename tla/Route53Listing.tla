--------------------------- MODULE Route53Listing ---------------------------
(***************************************************************************)
(* The paged reads of internal/route53, ListHostedZones,                   *)
(* ListHostedZonesByName and ListResourceRecordSets, beside the requests   *)
(* that change what they list; and the names of the record sets of one     *)
(* zone, which decide where a change goes.                                 *)
(*                                                                         *)
(* A page is what one transaction reads, sorted, from a marker on; the     *)
(* marker of the next page names the first item that was left out.  The    *)
(* server keeps nothing between two pages.  A marker is a place in the     *)
(* order of the listing, whether or not there is an item at that place.    *)
(*                                                                         *)
(* Requests that change zones and record sets are one step: Route53 has    *)
(* their transactions and what happens between these.  steady (of a        *)
(* listing), acked and plain are history.                                  *)
(*                                                                         *)
(* Definitions whose name starts with Broken are faulty variants of the    *)
(* definition after them, used by no specification: each shows that a      *)
(* property would fail if the code had that fault.                         *)
(***************************************************************************)
EXTENDS Datastore, RecordNames, FiniteSets

CONSTANTS
  ZoneId,
  Home, HomeName,   \* the zone whose record sets are looked at
  RrName,           \* the names requests write, in any spelling
  RrType,
  ChangeBatch,      \* the batches of ChangeResourceRecordSets
  Rank,             \* the orders: by id, by name and id, by name and type
  Start,            \* the markers a first request of each kind may bring
  MaxItems,         \* what requests may ask for
  NoMax,            \* a request without MaxItems
  DefaultMax,       \* 100 in the code
  HalfWidth,        \* 2^31 in the code: integers have twice as many values
  Client

Op == {"zones", "byname", "records"}

rrname == [n \in RrName |-> Spelled(n)]
rrkey == [n \in RrName |-> convertToKey(HomeName, n)]
Plain == {n \in RrName : IsPlain(HomeName, n)}

Inside == {n \in RrName : rrkey[n] # Invalid}

(* A record set is its name and its type here.                             *)
RrSet == {<<rrname[n], t>> : n \in Inside, t \in RrType}
Slot == {<<rrkey[n], t>> : n \in Inside, t \in RrType}
Listable == ZoneId \cup RrSet

ChangeData == [action : {"CREATE", "UPSERT", "DELETE"}, name : RrName,
               type : RrType]

ASSUME Route53ListingAssumption ==
  /\ IsFiniteSet(Listable)
  /\ Home \in ZoneId
  /\ {"SOA", "NS"} \subseteq RrType
  /\ RrName \subseteq Seq(DOMAIN Lower)
  /\ HomeName \in RrName /\ Spelled(HomeName) = HomeName
  /\ ApexKey \in Seq(DOMAIN Lower) /\ ~HasSuffix(ApexKey, <<Dot>>)
  /\ Absent \notin RrSet
  /\ ZoneId \cap RrSet = {}
  /\ ChangeBatch \subseteq Seq(ChangeData)
  /\ Rank \in [Op -> [Listable -> Nat]]
  /\ \A op \in Op : \A j, k \in Listable : Rank[op][j] = Rank[op][k] => j = k
  /\ Start \in [Op -> SUBSET Nat]
  /\ MaxItems \subseteq Int /\ NoMax \notin Int
  /\ DefaultMax \in Nat \ {0} /\ HalfWidth \in Nat \ {0}

-----------------------------------------------------------------------------
VARIABLES
  zones,    \* the ids of the hosted zones
  rrsets,   \* what is stored under the keys below the home zone
  lister,   \* how far each listing is
  acked,    \* history: the record sets clients were told are there
  plain     \* history: so far every name that was accepted was plain

vars == <<zones, rrsets, lister, acked, plain>>

Idle == [pc |-> "idle"]
(* The client asks for max items from a place on, or has its zone looked   *)
(* up and is about to be read to.                                          *)
Paging(pc, op, max, from, got, page, steady) ==
  [pc |-> pc, op |-> op, max |-> max, from |-> from, got |-> got,
   page |-> page, steady |-> steady]
Listed(op, got, page, steady) ==
  [pc |-> "listed", op |-> op, got |-> got, page |-> page, steady |-> steady]
(* The handler panics: the connection is closed without an answer.         *)
CutOff(max) == [pc |-> "cutoff", max |-> max]

Place == (UNION {Start[op] : op \in Op})
           \cup {Rank[op][k] : op \in Op, k \in Listable}

TypeOK ==
  /\ zones \in SUBSET ZoneId
  /\ rrsets \in [Slot -> RrSet \cup {Absent}]
  /\ acked \in [RrSet -> RrSet \cup {Absent}]
  /\ plain \in BOOLEAN
  /\ lister \in [Client ->
       {Idle} \cup {CutOff(max) : max \in MaxItems}
         \cup [pc : {"asking", "reading"}, op : Op, max : MaxItems \cup {NoMax},
               from : Place, got : SUBSET Listable, page : SUBSET Listable,
               steady : SUBSET Listable]
         \cup [pc : {"listed"}, op : Op, got : SUBSET Listable, page : SUBSET Listable,
               steady : SUBSET Listable]]

Init ==
  /\ zones = {}
  /\ rrsets = EmptyBucket(Slot)
  /\ lister = [c \in Client |-> Idle]
  /\ acked = EmptyBucket(RrSet)
  /\ plain = TRUE

In(bucket) == {bucket[k] : k \in DOMAIN bucket} \ {Absent}

stored == zones \cup In(rrsets)

-----------------------------------------------------------------------------
(* What the other requests do.  A listing loses from its steady items what *)
(* is not there any more.                                                  *)

StillThere(now) ==
  lister' = [c \in Client |->
    IF lister[c].pc \in {"asking", "reading"}
    THEN [lister[c] EXCEPT !.steady = @ \cap now]
    ELSE lister[c]]

ItemOpOf == [DELETE |-> "delete", UPSERT |-> "overwrite", CREATE |-> "create"]

BrokenConvertToPutData(changes) ==   \* the name is stored as it was written
  [j \in DOMAIN changes |->
    [op |-> ItemOpOf[changes[j].action],
     key |-> <<rrkey[changes[j].name], changes[j].type>>,
     data |-> <<changes[j].name, changes[j].type>>]]

(* What is stored under a key has the name as it is spelled there.         *)
convertToPutData(changes) ==
  [j \in DOMAIN changes |->
    [op |-> ItemOpOf[changes[j].action],
     key |-> <<rrkey[changes[j].name], changes[j].type>>,
     data |-> <<rrname[changes[j].name], changes[j].type>>]]

(* The same batch as the client means it: about names.                     *)
Meant(batch) == [j \in DOMAIN batch |-> [batch[j] EXCEPT !.key = batch[j].data]]

(* A refused batch changes nothing.                                        *)
Apply(changes) ==
  LET batch == convertToPutData(changes)
  IN /\ \A j \in DOMAIN changes : changes[j].name \in Inside
     /\ ~Clashes(rrsets, batch)
     /\ rrsets' = PutKeys(rrsets, batch)
     /\ plain' = (plain /\ \A j \in DOMAIN changes : changes[j].name \in Plain)
     /\ acked' = [n \in RrSet |->
          IF plain' THEN After(acked, Meant(batch), Len(batch), n) ELSE Absent]

ChangeResourceRecordSets(changes) ==
  /\ Home \in zones
  /\ Apply(changes)
  /\ UNCHANGED zones
  /\ StillThere(stored')

ApexRecords ==
  << [action |-> "CREATE", name |-> HomeName, type |-> "SOA"],
     [action |-> "CREATE", name |-> HomeName, type |-> "NS"] >>

CreateHostedZone(i) ==
  /\ i \notin zones
  /\ zones' = zones \cup {i}
  /\ IF i = Home
     THEN Apply(ApexRecords)
     ELSE UNCHANGED <<rrsets, acked, plain>>
  /\ StillThere(stored')

Cleared ==
  /\ rrsets' = DeleteBucket(rrsets)
  /\ acked' = DeleteBucket(acked)
  /\ plain' = TRUE

DeleteHostedZone(i) ==
  /\ i \in zones
  /\ zones' = zones \ {i}
  /\ IF i = Home
     THEN /\ \A r \in In(rrsets) : r[2] \in {"SOA", "NS"}
          /\ Cleared
     ELSE UNCHANGED <<rrsets, acked, plain>>
  /\ StillThere(stored')

DeleteAllData ==
  /\ zones' = {}
  /\ Cleared
  /\ StillThere({})

-----------------------------------------------------------------------------
(* The listings.                                                           *)

About(op) == IF op = "records" THEN RrSet ELSE ZoneId

(* findHostedZoneByMarker, findHostedZoneByName and findRecordSetIndex: the *)
(* rest of the sorted items, from the first that is not before the marker. *)
From(op, items, place) == {k \in items : Rank[op][k] >= place}

(* The API narrows what it parsed to 32 bits.                              *)
Int32(n) == ((n + HalfWidth) % (2 * HalfWidth)) - HalfWidth

FirstOf(op, items, n) ==
  {k \in items :
     Cardinality({j \in items : Rank[op][j] < Rank[op][k]}) < n}

Least(op, items) ==
  CHOOSE k \in items : \A j \in items : Rank[op][k] <= Rank[op][j]

(* A client begins with a marker of its own.                               *)
Begin(c, op, place, max) ==
  /\ lister[c] = Idle
  /\ lister' = [lister EXCEPT ![c] =
       Paging("asking", op, max, place, {}, {},
              From(op, stored \cap About(op), place))]
  /\ UNCHANGED <<zones, rrsets, acked, plain>>

(* getHostedZone, in a transaction of its own.  Without its zone the       *)
(* listing ends in an error.                                               *)
FindZone(c) ==
  /\ lister[c].pc = "asking" /\ lister[c].op = "records"
  /\ lister' = [lister EXCEPT ![c] =
       IF Home \in zones THEN [@ EXCEPT !.pc = "reading"] ELSE Idle]
  /\ UNCHANGED <<zones, rrsets, acked, plain>>

Limit(max) == IF max = NoMax THEN DefaultMax ELSE Int32(max)

Page(items) == [panics |-> FALSE, items |-> items, more |-> FALSE]
PageBefore(items, place) ==
  [panics |-> FALSE, items |-> items, more |-> TRUE, next |-> place]
Panic == [panics |-> TRUE]

BrokenMarker(op, items, limit) ==   \* the last item of the page
  LET page == FirstOf(op, items, limit)
  IN IF Cardinality(items) <= limit THEN Page(items)
     ELSE IF limit < 0 THEN Panic
     ELSE PageBefore(page, CHOOSE n \in {0} \cup {Rank[op][k] : k \in page} :
                             \A k \in page : Rank[op][k] <= n)

BrokenPage(op, items, limit) ==   \* the item at the limit is left out
  IF Cardinality(items) <= limit THEN Page(items)
  ELSE IF limit < 0 THEN Panic
  ELSE PageBefore(FirstOf(op, items, limit - 1),
                  Rank[op][Least(op, items \ FirstOf(op, items, limit))])

BrokenBound(op, items, limit) ==   \* looks past a page that is just full
  IF Cardinality(items) < limit THEN Page(items)
  ELSE IF limit < 0 \/ Cardinality(items) = limit THEN Panic
  ELSE PageBefore(FirstOf(op, items, limit),
                  Rank[op][Least(op, items \ FirstOf(op, items, limit))])

(* items[:limit] and the item at limit, which is past the end of neither   *)
(* unless limit is negative: then the slice expression panics.             *)
paginate(op, items, limit) ==
  IF Cardinality(items) <= limit THEN Page(items)
  ELSE IF limit < 0 THEN Panic
  ELSE PageBefore(FirstOf(op, items, limit),
                  Rank[op][Least(op, items \ FirstOf(op, items, limit))])

(* The page is read, cut and answered.                                     *)
NextPage(c) ==
  /\ \/ lister[c].pc = "reading"
     \/ lister[c].pc = "asking" /\ lister[c].op # "records"
  /\ LET s == lister[c]
         items == From(s.op, stored \cap About(s.op), s.from)
         page == paginate(s.op, items, Limit(s.max))
         got == s.got \cup s.page
     IN lister' = [lister EXCEPT ![c] =
          IF page.panics THEN CutOff(s.max)
          ELSE IF page.more
          THEN Paging("asking", s.op, s.max, page.next, got, page.items, s.steady)
          ELSE Listed(s.op, got, page.items, s.steady)]
  /\ UNCHANGED <<zones, rrsets, acked, plain>>

(* The client has its answer, or asks no further.                          *)
Leave(c) ==
  /\ lister[c].pc \in {"asking", "listed", "cutoff"}
  /\ lister' = [lister EXCEPT ![c] = Idle]
  /\ UNCHANGED <<zones, rrsets, acked, plain>>

(* The process is started again: requests are gone, markers are good.      *)
Restart ==
  /\ lister' = [c \in Client |->
       IF lister[c].pc = "reading" THEN Idle ELSE lister[c]]
  /\ UNCHANGED <<zones, rrsets, acked, plain>>

Next ==
  \/ \E c \in Client :
       \/ \E op \in Op : \E place \in Start[op], max \in MaxItems \cup {NoMax} :
            Begin(c, op, place, max)
       \/ FindZone(c)
       \/ NextPage(c)
       \/ Leave(c)
  \/ \E changes \in ChangeBatch : ChangeResourceRecordSets(changes)
  \/ \E i \in ZoneId : CreateHostedZone(i) \/ DeleteHostedZone(i)
  \/ DeleteAllData
  \/ Restart

Spec == Init /\ [][Next]_vars

(* A request runs to its answer; a client asks for the next page or leaves.*)
FairSpec ==
  Spec /\ \A c \in Client : WF_vars(FindZone(c)) /\ WF_vars(NextPage(c))

-----------------------------------------------------------------------------
(* A request is cut off only if the number it asks for is one that 32 bits *)
(* read as negative: no page is cut past its end, however few items there  *)
(* are.                                                                    *)
OnlyNegativeIsCutOff ==
  \A c \in Client : lister[c].pc = "cutoff" =>
    /\ lister[c].max # NoMax
    /\ lister[c].max % (2 * HalfWidth) >= HalfWidth

(* As long as every name that was accepted was plain, what is stored is    *)
(* what clients were told: no change went to another name's record set and *)
(* no name has two.  Names that repeat the zone's may lose each other's.   *)
PlainNamesAreKept == plain => In(rrsets) = In(acked)

(* The listings are scans: their pages go on where the last one ended, and *)
(* a complete one has everything at or after its first marker that was     *)
(* there all along (Scan!SteadyAreSeen), although zones and record sets    *)
(* come and go and the one the marker names may be gone.                   *)
Scanned(s) ==
  CASE s.pc \in {"idle", "cutoff"} -> [pc |-> "idle"]
    [] s.pc \in {"asking", "reading"} ->
         [pc |-> "open", order |-> s.op, about |-> About(s.op), at |-> s.from,
          seen |-> s.got \cup s.page, steady |-> s.steady]
    [] s.pc = "listed" ->
         [pc |-> "done", seen |-> s.got \cup s.page, steady |-> s.steady]

Scan == INSTANCE Scan WITH
  Entry <- Listable, Order <- Op, Topic <- {About(op) : op \in Op},
  Scanner <- Client,
  scan <- [c \in Client |-> Scanned(lister[c])]

IsAScan == Scan!Spec

(* A listing ends, however fast zones and record sets are added, unless    *)
(* its client asks for pages of none: these have the marker they began     *)
(* with.                                                                   *)
ListingsEnd ==
  \A c \in Client :
    (/\ lister[c].pc \in {"asking", "reading"}
     /\ lister[c].max # NoMax => lister[c].max % (2 * HalfWidth) # 0)
      ~> lister[c].pc \notin {"asking", "reading"}
=============================================================================
