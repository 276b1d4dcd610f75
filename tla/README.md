# home-fern: verification project

home-fern is a single Go process that plays three AWS-like services for a home
network: the SSM Parameter Store, Route53, and an HTTP backend for Terraform
state. It is driven by the Terraform AWS provider and by a small administration
API. This directory holds TLA+ models of it, the TLC configurations that check
them on small instances, and TLAPS proofs of the properties that matter most.
Paths below are relative to the repository; `src/` stands for its root.

## 1. Inventory

The process starts one `net/http` server. Every request runs in its own
goroutine, there is no lock in home-fern's own code, no time limit on requests
and no orderly shutdown. What protects data is bbolt (one writer at a time,
readers on snapshots) for parameters and zones, and nothing at all for
Terraform states. There are no unit tests; `tests/` are shell scripts that send
one request after the other. So whatever takes more than one transaction, or
more than one system call, is untested where it is hard.

| Component | State | Operations | Interacts with |
|---|---|---|---|
| Key-value store (`internal/datastore`) | one bbolt file, a bucket per service | `View` and `Update` (one transaction), `PutKeys`, `DeleteKeys`, `DeleteBucket`, `GetPrefixCount`, `LogKeys` | called by ssm and route53, each call one transaction |
| Parameter Store service (`internal/ssm`: service, datastore, types) | bucket `ssm`: parameter by path, with value, key alias, tags, version | put, get, delete one or many, list by path, describe, tags, export, import, wipe | store; kms for SecureStrings |
| KMS (`internal/kms`) | the key list of the configuration, fixed while the process lives | find a key by id, alias or ARN; encrypt; decrypt | ssm |
| Route53 service (`internal/route53`: service, datastore, types) | bucket `route53`: zones, record sets below their zone, change infos | create, delete, list, change record sets, comment, tags, export, import, wipe | store; random ids of `internal/core` |
| Terraform state backend (`internal/tfstate`) | `<project>.json` and `<project>.json.lock` in one directory | get, save, delete, lock, unlock, wipe, read and restore one file | the file system only |
| Database functions (`internal/dbfcns`) | none | export and import of everything as an archive; log of the keys | all three services |
| HTTP handlers of ssm, kms, route53 (`internal/*/api.go`) | none | one function per target or route: decode, call the service, answer with a status | routes; services; `internal/awslib` for errors |
| Signature check (`internal/awslib/v4sig.go`), passwords and credentials (`internal/core/auth.go`) | the credentials of the configuration, as a map | refuse a request or call its handler | wrap the handlers |
| Start-up and routes (`cmd/home-fern`) | none | read the configuration, register routes, serve each request in a goroutine | everything |
| Formats of answers (`internal/awslib`), web page (`web`) | none | formatting; static files | |

What is hard in each, and what makes it correct:

* **Key-value store.** A batch mixes deletes, creates and overwrites and stops at
  the first that cannot be done, perhaps about a key an earlier item wrote. It
  must be all or nothing, also when the process dies, and a waiting caller must
  be served.
* **Parameter Store.** A tag edit reads the parameter in one transaction and
  writes its copy back in another; deletes and imports of lists are a
  transaction per name; values are encrypted under an alias that the next
  start's key list must still know. Secrets must stay encrypted and readable,
  what was acknowledged must be what is read, and versions must count.
* **Listings of the Parameter Store.** The token of a page is a key, and the
  store changes between pages. Nothing that stays may be missed, nothing may
  come twice, and an export must end.
* **Route53.** Every request reads and then writes: a name is looked up, as a
  regular expression, and then taken, a zone is found and then filled, record sets are counted, listed and
  then all deleted. Ids are random and may come up again. Record sets must have
  their zone, names must be unique, an edit must change what it is about.
* **Listings of Route53.** The marker of a page is an id or a name and a type, the number asked for is parsed
  as 64 bits and narrowed to 32, and may be zero or negative. The same promises as above; and a page may not
  be cut past its end.
* **Names of record sets.** The key of a record set is its name without the zone's name, taken out wherever it
  occurs. Two names must not share a key.
* **Requests.** The AWS SDKs sign a request, send it, and send it again when the answer is lost or is a 5xx, while
  the first attempt may still be on its way; the server may meanwhile be restarted with other keys. What is signed must be
  accepted, what is handled must be what was signed as far as a signature covers it, and what a client is told must be true of the store.
* **Terraform state.** Files are cut off and rewritten in place, read while they
  are written, removed while they are read; locks are files looked for in one
  call and created in another. A state must be whole, a lock must be held by one.
* **Export and import.** The archive is collected over many transactions, a page of
  parameters each, and an import wipes three stores first, one after the other; any of its steps may fail or be its last. The archive must hold what was not being changed, an
  import must bring it back, and must leave nothing older.

The hazards behind these, each with its line and the properties that watch it,
are listed under `hazards` in `PROJECT.json`.

## 2. Modules

| Module | Models | Role |
|---|---|---|
| `Datastore` | `internal/datastore`, as operators | buckets, batches, what one transaction does; used by `Ssm`, `Route53`, `DbFunctions` |
| `AtomicBatches` | the promise of `PutKeys` | abstract specification: a batch is one step |
| `DatastoreTx` | `PutKeys` inside a bbolt transaction | one step per item; implements `AtomicBatches` |
| `Kms` | `internal/kms/types.go` | finding a key, encryption, decryption |
| `Ssm` | the state-changing operations of `internal/ssm` | extends `Datastore` and `Kms` |
| `Scan` | the promise of a paged listing | abstract specification: each page takes what comes next in some order |
| `SsmListing` | the paged reads of `internal/ssm` | one page per step; implements `Scan` |
| `Route53` | the state-changing operations of `internal/route53` | extends `Datastore` |
| `RecordNames` | `convertToKey`, as an operator on sequences of characters | used by `Route53Listing` |
| `Route53Listing` | the paged reads of `internal/route53`, and where changes of record sets go | extends `Datastore` and `RecordNames`; implements `Scan` |
| `TfState` | `internal/tfstate` | one system call per step |
| `DbFunctions` | `internal/dbfcns` | composes `Ssm` (its actions, unchanged) with zones and states as an archive sees them |
| `V4Sig` | `internal/awslib/v4sig.go`, as operators | what is checked of a request and in which order |
| `Api` | routes, guards and handlers, as operators | extends `V4Sig`: what the server does with one request |
| `Server` | clients that ask again, the network, goroutines, restarts | composes `Api` with its callers |
| `*Proofs` | | lemmas and theorems about the module of that name; `AbstractProofs` about `DatastoreTx` with `AtomicBatches`, and `Scan`; `SsmProofs` about `Ssm` and, in its second half, `DbFunctions` |
| `MC*` and `*.cfg` | | finite instances |

`map` in `PROJECT.json` gives the source lines of every definition that models
code. Definitions named `Broken...` are a plausible fault in the definition
that follows them. No specification uses them; each was put in place of the
sound definition to see that a property then fails.

### State and actions

**`Datastore`, `DatastoreTx`.** A bucket is a function from keys to values or
`Absent`; a bucket that does not exist yet is one where every key is absent (the
code answers both alike). `PutKeys(bucket, batch)` says what a batch does as a
whole: nothing if a create finds its key taken *at its place in the batch*
(`Clash`), otherwise every key has what the last item about it says (`After`).
`DatastoreTx` takes the same call apart: `Begin` takes bbolt's writer lock and a
private copy, `DeleteItem`, `PutItem`, `RefuseItem` and `FailItem` are the turns
of the loop, `Commit` and `Rollback` the two ways out of the closure, `Crash`
loses the copy. A key too long or empty for bbolt, or a value that does not
marshal, is `FailItem`.

**`Ssm`.** `params` is the bucket. A name is a base and whether the caller wrote
the leading slash, since the code is not of one mind about it: reads look up the
path, a tag edit writes under the name as it was given (`WriteTags`,
`src/internal/ssm/service.go:300`). `PutParameter`, `DeleteParameter` and
`DeleteAllData` are one transaction and one step. `ReadForTags`/`WriteTags`,
`BeginDelete`/`DeleteNext`, `BeginImport`/`ImportNext` are the requests of
several transactions; anything may happen between. `Restart` ends every request
and may bring another key list, so long as every alias in the old one still
stands for the same key material (`Extends`): taking keys away loses data by
intent, and no promise is made about it. "Unsupported" in a request stands for
any field `NewParameterData` rejects; a StringList is treated as a String.
`acked` and `lost` are history: the store a serial execution of the
acknowledged requests would give, and the names a tag edit went astray for.

**`SsmListing`.** `params` is the set of stored keys; `lister` how far each
listing is. `NextPage` is `findParametersByKey` with its page size, its match and
its token; an export is the same in a loop (`GetAllParameters`). The regular
expressions of `types.go` are a constant relation `Matching`, because matching
text is Go's; the instance gives what those expressions really match, including
that a `.` in a name matches any character. `steady` is history: the keys a
listing is about that have been there all along.

**`Scan`.** `stored` is what there is, `scan` how far each listing is: its order, what it is
about, the place it goes on from. A page ends at any later place and takes all there is before it, or
takes the rest; `Change` replaces what is stored by anything. Nothing links a page to the pages before but the
place. `SsmListing` and `Route53Listing` map their tokens and markers to places; a client that leaves, a
zone that is gone and a request that is cut off are `Close`.

**`Route53`.** `bucket` holds zones, record sets and change infos under keys like
the code's. Each request is the chain of its transactions: `CreateHostedZone`
(the look-up of the name), `PutHostedZone`; `ReadForChange`,
`ChangeResourceRecordSets`; `ReadForEdit`, `UpdateHostedZone` (comment and tags);
`ReadForDelete`, `CountRecords`, `ListRecords`, `DeleteHostedZone`;
`BeginImport`, then `ImportNewZone` or `ImportZone` and `ImportRecords` per
zone. Record set contents are abstracted to their presence. A new zone's name is made into a regular
expression, anchored nowhere and with nothing but its dots escaped (`src/internal/route53/datastore.go:210`): `Occurs`
says which names the expression of a name matches in, which may be others and need not be the name itself,
and `Malformed` which names no expression can be made from, so that `CheckName` fails. Requests that change nothing are left out except for the
two refusals whose text says something about the zones. `overtaken` is history:
the zones for which a request wrote between another's read and write.

**`RecordNames`.** Names are sequences of characters. `Spelled` is lower case with a dot at the end; `Remove` is
`strings.ReplaceAll` of the zone's name by nothing; `convertToKey` refuses names outside the zone and has `@`
for the zone's own.

**`Route53Listing`.** `zones` are the ids, `rrsets` what is stored under each key below one zone.
`Begin` is the first request of a listing with a marker of the client's own, `FindZone` the look-up of the zone
in a transaction of its own (record sets only), `NextPage` the read, the sort, `From` (the search for the
marker) and `paginate`, which cuts at `Limit`: the default, or the number asked for as 32 bits read it.
`Leave` is a client with its answer or without patience. Places are numbers of a constant order, `Rank`;
markers need not be the place of anything. Changes, creations and deletions are one step
each here, because `Route53` has what can happen inside them. `acked` is history: what clients were told of each
*name*, while `rrsets` is by key.

**`V4Sig`, `Api`.** A request is a record; `checkV4Sig` has the checks in the code's order, the first that fails
names the error. `extractSignedHeaders` takes what net/http took out of the headers from where net/http put
it; `QueryOf` is `r.Form.Encode()` with the form that only a GET has filled (`src/internal/awslib/v4sig.go:174`); `ReadPayload` stops at 10 MiB. Hashes are the
record of what goes into them. `Routes` is the router's table with guard and handler; each handler is an operator
from request and store to an answer `[error, store, wrote]`, with `wrote` for "a transaction that changes was committed"; the `...Status`
operators are the tables of errors. The store is one parameter (there or not) and one zone (none, with SOA and NS only, or with a
record set of its own). The parameter is there with or without a tag. A body says whether the name in it lacks the slash (`bare`): a tag edit
by such a name answers success and leaves the parameter as it is (`Retagged`), because it writes another key. `deleteParameters` lists the names it cannot read and succeeds all the same;
what is not there to be deleted is deleted with success.

**`Server`.** `config` is what the process read when it started, or `Down`. A client prepares its call (`Call`), sends an
attempt (`Send`), and waits; what arrives is what was sent, or `Damaged`: with a flaw in the Authorization header, with any other piece replaced
(`Stray`: method, path, query, host, body and so on), with a header put in or replaced (`StrayHeader`) or lost (`LostHeader`), signed or not. The client hears the answer (`Receive`) or loses it (`Lose`), and asks again after a
loss or a 5xx, as the SDKs do. Each attempt is a job in the server, which goes on whether or not anybody
waits: `Authorize`, then `Handle`, whose effect is one step here. An answered job remembers whether it wrote and whether it left the store as its client wanted (`AsWanted`). `Restart` kills the jobs and reads any configuration;
`Elsewhere` is what all other clients do to the store.

**`TfState`.** Names point at inodes, inodes hold chunks. `OpenTrunc` is
`os.OpenFile` with `O_CREATE|O_TRUNC`; `WriteChunk` and `ReadChunk` are the
turns of `io.Copy` (`WriteAll` is the single write of `os.WriteFile`); a
removed file lives while it is open. `BodyFails` is a client that breaks off
or a full disk; `Crash` ends all. A wipe lists the directory in one step
(`DeleteAllStates`) and removes what it listed one by one in the order of `os.ReadDir` (`Place`, `NextOf`,
`WipeNext`). `ResponseStatus` is net/http's rule that the
first write fixes the status. `saved` and `torn` (of an inode), `clean` (of a
read) and `seen` (of a wipe) are history.

**`DbFunctions`.** `job` is one export or import and its archive. Parameters are
those of `Ssm`: other requests are its actions, and an import's wipe and puts are
its `DeleteAllData` and `persistParameter`. Zones are the set of their record
sets, states their bodies, of which `Torn` is one that was not written to its end. An export starts with `ExportAll`
and goes on with a turn of the loop of `GetAllParameters` per page (`NextPage`; `PageSize` is the 50 of the code), with the first key behind a full page as its token; then come
the zones, each in a transaction of its own, and the states. An archive may reach the import with one damaged
file. The import is `WipeStates`, `WipeSsm`, `WipeRoute53`, each of which may fail and end it, and then a step per entry. A
parameter or zone that fails is passed over and named in the answer (`EntryFails`), a zone perhaps after it was stored without its record sets; a state that cannot
be written ends the import with 500 and may be left `Torn` (`ImportStateFails`); a state that cannot be read from the archive is passed over without a
word (`BadStateIsSkipped`), and another file that cannot be read ends the import (`BadFileFails`). `DbRestart` cuts in between any two
steps, or leaves the entry at hand in part (`BreakOff`). `job.wiped` are the stores whose wipe is done, `job.skipped` what an export or import did not get through
with. `touched` is history: what other requests changed since the job
began; the properties speak of the rest.

## 3. Runs

| Run | Question | Instance | States |
|---|---|---|---|
| `datastore` | does the loop in a transaction implement one atomic batch, and is every call answered? | 2 clients, 2 keys, 2 values, 7 batches | 20 thousand |
| `ssm` | are secrets encrypted and readable, names and versions right, reads serial? | 2 multi-step requests, one usable and one reserved name with and without slash, 2 key lists | 262 thousand |
| `ssm_listing` | do pages go on in order, miss nothing that stays, and end? do they implement `Scan`? | 5 keys, pages of 1 and 2, MaxResults from -1 to 3 | 16 thousand |
| `db` | is an archive whole, does an import restore it, does nothing older survive a wipe? | 1 parameter in two keys, pages of 1, 1 zone, 1 project | 867 thousand |
| `db_migrates` | is every parameter of an archive there after its import? (not always) | as `db`, with 2 values | |
| `tfstate` | is a file damaged only by overlap or breaking off, are clean reads whole, is a wipe complete? | 1 project, 2 requests, bodies of 1 and 2 chunks | 1.6 million |
| `tfstate_live` | is every request answered? | 1 body of 1 chunk | |
| `tfstate_status` | does a LOCK that finds the lock say 423? (it does not) | as `tfstate` | |
| `tfstate_race` | does one LOCK only create the lock? (it does not) | as `tfstate` | |
| `route53` | do orphans, doubled names, lost edits and unseen deletions come only from overlap? | 2 requests, 2 zone ids, 2 change ids, 3 names: one found in all three, one not in itself, one malformed | 952 thousand |
| `route53_listing` | the same for the listings of Route53; what cuts a request off; do names share record sets? | 3 zones, 6 spellings of 4 names, 8 batches, pages of 0 to 3 or cut off | 23 thousand |
| `server` | who gets past the checks; is what a client is told true of the store? | 1 client with 2 attempts beside all others, 21 calls, 4 configurations | 452 thousand |

### Bounds, and why they are enough

* *Two requests in flight.* Each hazard is one request getting between the read
  and the write of another; single-transaction requests (puts, deletes, wipes)
  run beside the two. Where a run uses symmetry, it permutes requests, and change ids in
  `route53`, which nothing tells apart; the liveness runs use none.
* *One usable parameter* (`ssm`). Parameters only meet in lists; the reserved
  name gives a list an entry that is refused, the two spellings of one name give
  it two entries about one key.
* *`MaxVersion = 2`.* No request starts once a parameter is at this version;
  what is in flight goes on past it. Creating, replacing and replacing again are
  reached, and a deletion starts over.
* *Two zone ids, two change ids.* A new id may be one already in use, which the
  random ids of `internal/core/util.go` do not exclude.
* *Three names* (`route53`). `b.` is found in every name, `a+b.` only by others, `*.b.` is no expression. Tags have one value there, since an edit of tags is like one of the
  comment, so the run sees the comment change and the tags not; that an edit of the one keeps the other, both ways, is the theorem `EditsChangeOneField`.
* *Pages of one and two over five keys.* A listing takes several pages, ends in
  the middle of one or exactly at its end, and `MaxResults` is negative, zero, below, at and above
  the limit. The code's limits of 10 and 50 are `PageLimit`.
* *A number of two bits* (`route53_listing`). `HalfWidth = 2` makes 32-bit numbers -2 to 1; `MaxItems` from -1 to 5 has numbers
  that stay as they are, become smaller and become negative. A request without one gets `DefaultMax = 3`, which cuts a list of four. The
  zone is `h.`, the names `h.h.`, `m.h.` and `mh.h.`: the zone's name comes up again as a label and in the
  end of one. One zone has a name that sorts before every marker.
* *One client with two attempts* (`server`). Requests meet only in the store, and what the other clients do to that is
  `Elsewhere`, anything at any time; the client's own first attempt may still be in the server during its second. A third attempt adds
  states beyond what a run may take and meets nothing a second does not. The
  configurations have a key once, twice with two secrets, not at all, and no region. On the way a query, another path, another
  target, a lost date and a flawed scope are tried, of calls that list their target and of one that does not.
* *One parameter, zone and project* (`db`). The three stores are walked one after
  the other; the interleavings are between the walk, the wipe and one other
  request per store. The parameter can be there under two keys, with pages of one, so an export has up to two pages and the key of its token
  may come and go. Tags are left out there; `Ssm` has them. There is one value but for `db_migrates`, which tells an older copy by it: what was put after the export
  is not in the archive, so it is seen if it survives the wipe. Any one file of the archive may be damaged.
* *Seven inodes.* A new file needs an inode nobody uses. The names, and each of the two requests, keep at most two
  each (a request one file open, or as many as a wipe listed), so that seven are enough; `TfStateAssumption` asks for that much, and
  the proof shows that one is then always free.

### Deadlock and fairness

Deadlock is checked in every passing run.

* `datastore`: strong fairness of `Begin`: `db.Update` waits on a `sync.Mutex`,
  which hands itself to a waiter after a millisecond of starving; weak fairness of
  the other steps of the transaction: the loop does not wait for anything. No fairness for failing items and crashes.
* `tfstate_live`: weak fairness of the steps of a request. A goroutine is scheduled; that its
  client sends what it announced, or breaks off, is assumed, because the server sets no
  time limit. A client that does neither holds its request open for ever in
  the code as well.
* `route53_listing`: weak fairness of a request's two steps, the look-up of the zone and the page. `ListingsEnd` leaves out a client that asks for pages of none.
* `ssm_listing`: weak fairness of the next page. For an export this is a loop of the code. A
  client asks for its next page or gives up.

## 4. What the checks found

Three statements in the code or its documents are not so. Each has a run that
fails on purpose.

* **`FoundLockIsLocked`.** `LockState` writes the found lock's text and then calls
  `WriteHeader(423)`. net/http has sent 200 by then, so a client is told it
  has the lock that somebody else holds.
* **`LockCreatedOnce`.** The lock file is looked for with `Stat` and created later
  without `O_EXCL`. Two LOCK requests both create it and both hear 200.
* **`MigratesAll`.** A tag edit that names a parameter without the slash
  stores a copy under a key no reader looks at. An export has both, both are imported
  under the path, and the older copy wins.

Others were seen while modelling and have no run of their own; the models do as the code does.

* `src/README.md` says encryption goes by the KeyId argument. `NewParameterData` drops it and the first key is
  always used (`Encrypted` in `Ssm`).
* "Always stored as path" (`src/internal/ssm/service.go:454`) is not so either: line 455 puts the name of the request into the copy that a tag edit
  writes back. By a name without the slash the edit answers 200, and stores what no reader sees (`WriteTags` in `Ssm`, `Retagged` in `Api`). `MigratesAll` has what comes of it.
* The name of a new zone is looked up with an expression anchored nowhere: with `a.b.` there, `b.` is
  refused with "The hosted zone already exists." (`src/internal/route53/api.go:461`). Only its dots are escaped: `a+b.` does not find `a+b.` and is created again,
  one request after the other, so that `UniqueNames` speaks of the other names only. A name like `*.x.` cannot be looked up and is answered 500 (`Occurs` and `Malformed` in `Route53`).
* A parameter that is not there is answered 500 InternalFailure, since the store says
  `core.ErrNotFound` and `translateToApiError` (`src/internal/ssm/api.go:245`) knows `ErrParameterNotFound` only; `src/docs/enhance-error-handling.md:139` has it 404. An SDK takes the 500
  for a fault of the server and asks again. The same goes for a put without overwrite of a parameter that is there (`SsmStatus` in `Api`).
* A KMS target that is not known, and tags of anything but a parameter, are answered with an empty success (`KmsHandle`, `Tagged` in `Api`).
* An access key of fewer than four characters, a signed request other than a GET that has a query, and a body of more than 10 MiB are
  refused whoever signs them (`Unreadable` in `Server`; `GoodIsAccepted` says that, of what a signature is asked for, these are the only ones).
* Names that repeat the zone's name share keys: in zone `h.` the name `mh.h.` and `m.h.` are one record set
  (`IsPlain` in `RecordNames`; `PlainNamesAreKept` says that these are the only ones).
* A negative `maxitems`, or one whose low 32 bits are negative, panics in a slice expression and the connection is closed; one
  whose low 32 bits are zero gives empty pages with the marker they began with for ever (`OnlyNegativeIsCutOff`, `ListingsEnd` in `Route53Listing`).
* An error of the encryption itself is wrapped and the `switch err` of `src/internal/kms/api.go:90` never matches it, with the same
  status all the same; the Content-Type of XML errors is set after the header was written (`src/internal/awslib/error_response.go:15`). Neither is
  visible in the models.

Two more things show in the history variables of passing runs rather than in a run of
their own. A tag edit writes back the whole parameter it read, so a put, a delete
or another tag edit acknowledged in between is undone (`lost` in `Ssm`). And a
Route53 request may write over what another wrote after it had read: an edit of
the comment undoes one of the tags, record sets outlive their zone, two creates
of one name both succeed (`overtaken` in `Route53`).
The passing properties say that these are the *only* ways: `SerialRead`,
`RecordsHaveZone`, `UniqueNames`, `EditsOneField` and `DeletesOnlyApex` hold for everything
that was not lost or overtaken, for every interleaving, restart and repeated id; `UniqueNames` for the names whose expression finds them.

`DeleteHostedZone` first counts and refuses a zone with more than two
record sets before it looks at their types, so a zone with a third NS record set
is refused too; the answer errs on the safe side.

## 5. Proofs

TLC checks the instances above. TLAPS (tlapm 1.4.5) checks the following for
every value of the constants that meets the named assumptions; nothing else is assumed.

| Module | Theorem | States |
|---|---|---|
| `AbstractProofs` | `TypeCorrect`, `LoopComputesBatch`, `ImplementsAtomicStore` | the transaction's copy is the bucket with a prefix of the batch applied; every behaviour of `DatastoreTx` is one of `AtomicBatches` |
| | `SteadyIsSeen` | a scan that ends has seen all that was there all along: what `SsmListing` and `Route53Listing` promise by implementing `Scan` |
| `SsmProofs` | `TypeCorrect`, `SecretsStayEncrypted`, `FiledUnderItsName`, `AlwaysReadable`, `ReadsAreSerial`, `VersionsCount` | all the properties of run `ssm` |
| | `DbTypeCorrect`, `ArchivesAreWhole`, `ImportsRestore`, `NothingOldIsLeft` | all the properties of run `db` |
| | `ImportsKeepTheStoreSound`, `ImportsRefuseNothing` | the properties of `ssm` again, of a store that is exported, wiped and imported; every parameter of an archive is accepted by the import |
| `SsmListingProofs` | `TypeCorrect`, `PagesGoOn`, `SteadyKeysAreListed`, `ImplementsScan` | the safety properties of run `ssm_listing`, and that every behaviour of `SsmListing` is one of `Scan` |
| `Route53Proofs` | `TypeCorrect`, `RecordsAlwaysHaveZone`, `NamesStayUnique`, `EditsChangeOneField`, `OnlyApexIsDeleted`, `ZonesAreNotReplaced` | all the properties of run `route53` |
| `Route53ListingProofs` | `TypeCorrect`, `CutOffIsNegative`, `PlainIsKept`, `ImplementsScan`, `ListingsAreComplete` | the safety properties of run `route53_listing`, that every behaviour of `Route53Listing` is one of `Scan`, and `Scan!SteadyAreSeen` for it |
| `ServerProofs` | `TypeCorrect`, `MadeOnce`, `GuardsHold`, `RefusedForAReason`, `SuccessMeansDone` | all the properties of run `server` |
| `TfStateProofs` | `TypeCorrect`, `FilesAreWhole`, `ReadsAreWhole`, `WipesAreComplete` | all the properties of run `tfstate` |

`DatastoreProofs` has the lemmas about batches that `AbstractProofs`, `Route53Proofs`
and `Route53ListingProofs` use: `AfterTouched` and `AfterUntouched` (what one more item does
to its own key and to the others), `PutKeysFrame` (keys the batch does not name
keep what they had), `PutKeysCases` (a key that changed is gone or has the data
of some item).

The arguments:

* **Transaction.** `IInv` is the type invariant and `LoopInv`, which is inductive as it
  is: `AfterTouched` and `AfterUntouched` move it over one turn of the loop, and `MayPutNoClash` links the
  check on the transaction's own copy to `Clash`. At `Commit` the prefix
  is the whole batch and no item clashed, so the step is `Apply`; at a refusal some
  item clashed, so it is `Apply` of a batch that changes nothing. All other
  steps stutter or are the abstract action of the same name.
* **Parameter Store.** None of the properties is inductive. `IInv` adds that every stored
  SecureString names a key of the list that has the material it was encrypted with
  (`StoreInv`), that the same is true of the copies tag edits hold and that
  they remember the name they were read under (`CopyInv`), and that `acked` is the decrypted store
  for names not lost (`SerialInv`). `StoredAcrossRestart` carries `StoreInv` over a new key list:
  that is where `Extends` is needed. `AlwaysReadable` is then about any key list
  that extends the present one.
* **Export and import.** The properties speak of a job at its end, so `DbInv` must say how far one is on its way. Of an
  export: what it read of each store, and nobody touched since, is as it was read (`ParamsOut`, `ZonesOut`, `StatesOut`), and what is stored and not yet in the archive
  is on a page to come or in `todo`; each thing is in one of them only, which needs that buckets and directories list a thing once (`InOrderLists`). For the pages this is
  `PageFacts`: a page has just the stored keys between the place it begins at and its token, and the entries of the pages before are of keys before that place. Of an
  import: what is left of `todo` is part of the archive, all of it until the stores are wiped (`LeftIn`); once a store is wiped (`job.wiped`) it has nothing but
  entries of the archive, or a part of the one the import failed at (`ParamsOnly`, `ZonesOnly`, `StatesOnly`), and, while the import goes on, all that are no longer in `todo` and were not
  skipped (`ParamsBack`, `ZonesBack`, `StatesBack`). The first kind survives a failure, a wipe that stops and a crash (`StopKeeps`, `BreakOffKeeps`), the second need not, for it speaks of imports that go
  on or end well. `ArchiveOK` says what an export writes: one entry of each name, zone and project
  (`OneOfEach`), so that a later entry cannot undo an earlier one, and parameters no put refuses (`Importable`), which holds because no stored name is
  reserved (`LegalInv`: not even a tag edit that writes back what was wiped meanwhile can bring one in). A file that was damaged holds what it held for this purpose: it can only
  end the import or, if it is a state, be skipped. `OthersKeep` is the frame: a step of another request that notes in `touched` what it
  changes keeps all of this. The steps of `DbFunctions` are steps of `Ssm`, none, or `ImportParameter` (`SsmStep`), so the invariant of `Ssm` holds
  as well (`DbKeepsSsm`); from it come that what is exported is in the clear (`ReadBack`) and under its own name.
* **Listings.** A page relates to a token, not to the pages before it. `PagingInv` says that
  what was listed comes before the token and that what was there all along is
  listed or not before it; `FirstBeforeRest` and `LeastIsLeast` show that a page keeps this.
  Finiteness of the key set is used to know that a non-empty rest has a least key. `PageCut` says how a page
  and its token cut what is ahead; the invariant and the refinement (`StepScan`) both rest on it.
* **Hosted zones.** The properties are about zones; what makes them last is what
  requests in flight *know*. `Knows(h, i)` says, for zones that were not overtaken: a request about to write to a zone
  is right that it exists, an edit's copy is what is stored, a name about to be taken is free (if its expression finds it), and a
  zone about to be removed has SOA and NS only. Every action either keeps what others know or marks the zone overtaken.

* **Scans.** A page takes everything between two places, so what is behind the place of a scan and was never
  changed has been seen. That is the invariant; an unchanged value keeps its place because places belong to values.
  `ImplementsScan` maps the token of a Parameter Store listing to the place behind its key, and that of a Route53 listing to the
  marker itself, which is the place of the first thing the page did not take.
* **Listings of Route53.** The properties are of three kinds. *Names*: `Remove` is a recursive function, and all that is needed is its value on a plain name, where
  it leaves what comes before the zone's name (`RemoveSuffix`; the two solutions of its equation differ at no last place). So `convertToKey` is
  one to one on plain names up to spelling (`PlainKeysDiffer`), a batch of plain names does the same to keys as to names
  (`ApplyInv`), and `KeptInv` is `PlainNamesAreKept` key by key. *Numbers*: `Remainder` and `NegativeLimit` say that the number a request asks for is less than zero as 32 bits read
  it just if its remainder is in the upper half; with a page size that is not negative the cut is inside the list (`PageIs`).
  *Pages*: `ListersOK` ties each request to what is stored: what it takes comes at or after its marker, and what was there all along is taken or still ahead.
* **Requests.** `DoneOnce` counts attempts that wrote, but an attempt whose client has gone may still write later. `IInv` therefore bounds
  the attempts that wrote *or still may* (`Might`), less the one the client waits for: each of them is one whose
  answer was lost (`CallOK`). `HandlerSound` goes through all handlers and says that an answer with an error wrote nothing; with
  `Statuses` this makes an attempt answered 4xx or 5xx one that does not count. A restart only takes from `Might`.
* **Who gets past the checks.** A second invariant, `Matching`, ties each attempt to its call and to the configuration: it carries what its client
  asked for, as it was sent or changed; if it is being handled it passed the guard of the *running* server (a restart with
  other keys kills it), if it was refused it did not pass the one it was refused by; and if it was told of success it wrote
  and left the store as wanted (`HandlerDone` goes through the handlers again). What remains is about one request and one configuration. `FirstErrors` says that a list of
  checks gives no error just if none of them fails, `Parsed` and `Accepted` say what that is for a header and a request, and
  `SignatureFits` that the server's signature of what arrived is the client's just if the secret, the service, the method, the path, the listed headers, the query and the body it reads are the
  client's. Nothing follows for what the server does not put into its signature: the query of any method but GET, for which it takes none, and headers not listed.
  `SameHandling` shows that no handler looks at them, but for the target, which must be listed. `HeadersBack` and `UnharmedPasses` say that what arrives as it was sent passes. `Secrets`
  says that looking a key up finds the last entry for it, and some entry if there is one (`Greatest`).
* **State files.** `IInv` says of each inode in use, unless it is `torn`, that at most one request writes to it, that it holds just what this
  one has written so far (`Saving`), and the whole body once nobody does (`InodeOK`): an offset is then the length of what is there, so
  that `WriteNext` and `WriteWhole` can say what the next write leaves. A read that is still `clean` has a prefix of an inode nobody
  writes to (`ReaderOK`); what a wipe saw is not in the directory, or still to be removed (`WiperOK`), which holds only because no new file gets an inode
  that a wipe remembers. That an inode is free for it (`FreeInode` is a `CHOOSE`) is a count: each request keeps no more inodes than
  there are file names (`FewKept`), and the assumption on `Inode` leaves one over.

Assumptions are the `ASSUME`s of `DatastoreTx`, `Ssm`, `SsmListing`, `Route53`, `Route53Listing`, `TfState`, `V4Sig`, `DbFunctions` and `Server` (`ScanConstants` is a hypothesis of
`SteadyIsSeen`): markers such as `Absent` are not
values, inputs are of their types, key lists are not empty (the README of the repository requires one
key), there are more inodes than can be in use. TLC evaluates each of them in the runs. Some of them say more:

* `Route53ListingAssumption`: names are sequences of the characters `Lower` knows, the zone's name is as `CreateHostedZone` stores it, in lower case with a dot
  at the end, and no two zones or record sets have one place in a list, because ids and the pairs of name and type are unique.
* `DbAssumption`: the keys of a bucket and the names `os.ReadDir` returns come in an order in which each is once; names, zones and projects are different
  things, so that `touched` can hold all of them.
* `V4SigAssumption`: net/http takes at most the four headers of `Fallback` out of a request.
* `ServerAssumption`: what arrives in place of a piece of a request (`Stray`) is one of its pieces but the headers and the Authorization header, whose changes are
  `StrayHeader`, `LostHeader` and `Flaw`. One that is still well formed but has another key, scope or signature is a request of another client.
* `WireAssumption`: whatever is changed on the way, a request does not end up at an import, whose steps are in `DbFunctions`.
* `AskAssumption`: a client sends a user and password, or signs as the SDKs do, for whatever service and
  region: headers it has, the host among them, with a date in the SDKs' format, and with the values net/http will report for those it takes out. Either may be
  sent where the other is asked for.

Only model-checked: the liveness properties (`CallsAnswered`, `ListingsEnd`, `RequestsAnswered`), which are out of the prover's
reach, as is all that needs `ENABLED`. Every other property of a passing run is a theorem. The properties of the runs that
expect a violation (`MigratesAll`, `FoundLockIsLocked`, `LockCreatedOnce`) do not hold of the code.

## 6. Abstractions

* Values, comments, record sets and state bodies are members of small sets; a ciphertext is a
  record of the key material, the additional data and the plain text, opened only by the same
  material and data.
* In `Ssm` and `Route53`, requests that are refused or only read change nothing and are not actions, unless a property is about
  their answer. `Api` has all of them.
* In `Api` and `Server` a request is one step on a store of one parameter and one zone. What happens between the transactions of a
  request is in `Ssm` and `Route53`. So `DoneOnce` counts requests, not transactions: a
  multi-step request that fails half way (an import) is not among the calls, by assumption.
* In `Server` a handler's transaction does not fail of itself (a full disk, a broken database file). One that does is answered 500, but for `DeleteParameters`, which then
  lists the name as invalid and succeeds (`src/internal/ssm/service.go:69`). Failing writes are in `DatastoreTx`, `TfState` and `DbFunctions`.
* The code parses and signs the date of a request but does not compare it with its clock, so a copy of a request is handled whenever it arrives. In `Server` an attempt may
  be handled late, but each is one the client made: a copy made on the way is not modelled, and `DoneOnce` does not speak of it.
* What a signature does not cover is in the model: the query of a request that is not a GET, and headers that are not listed, may arrive changed and are accepted
  (`HandledAsSigned`). `SuccessIsDone` speaks of clients that list their target, as the SDKs do.
* In `V4Sig`, what makes one text of equal things (escaping, trimming, sorting, lower case) is left out, and a hash is the record of what was
  hashed, so that two inputs never collide. The text of a canonical request is one to one in what it is made from.
* Behind a password, `Server` only says who gets in; the handlers are in `TfState` and `DbFunctions`.
* `GetParametersByPath` answers a token it cannot look up with 500. Such a request changes nothing, and the case is left out of `SsmHandlers`.
* Of `ListHostedZones` and `ListHostedZonesByName`, the counts of record sets are read zone by zone after the page was cut; they change
  no page and are left out.
* In `Route53`, distinct record sets have distinct keys, or none (`Outside`). Which names really share a key is in
  `RecordNames` and `Route53Listing`.
* `deleteHostedZone` and `DeleteBucket` delete while a cursor walks; the model deletes the
  set of keys. bbolt's iteration is outside this project.
* In `DbFunctions` an imported zone is one step, or is left without its record sets when it fails or the process stops. Other requests between its two transactions are in `Route53`
  (`ImportZone`, `ImportRecords`). The wipe of the states is one step that may stop after any
  subset; `TfState` has it file by file. There is one export or import at a time.
* In `TfState` the file system reports a missing file and a failed write; permission and
  directory errors are left out.
* Times, owners, ARNs, submitted-at stamps and policies of answers are left out.

## 7. Not modelled

* The web page (`src/web`): static, calls nothing that keeps state.
* Formats and wording of answers (`internal/awslib`), encoding of ids and tokens, logging, flags and file paths: no control
  depends on them. Which status an answer has is in `Api`.
* The encryption context and the blob format of the KMS handlers: KMS keeps no state, and the Parameter Store uses its key only
  (`Kms`).
* bbolt, net/http, gorilla/mux, the file system and the SDKs themselves: modelled as far as the code relies on them, and
  marked external in `map`.

## 8. Plan

Done, in this order: the store and its refinement; the Parameter Store and keys; its listings; states;
zones; export and import; then scans, the listings of Route53 and the keys of record sets; the handlers, the signature check
and the routes, with clients that ask again. The order follows how much rests on each.

Next, to model:

1. Tags as lists, with the change that adds and removes at once.
2. That `Ssm` refines a serial store for names that are not lost, with an abstract specification in a
   module of its own.
