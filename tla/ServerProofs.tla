---------------------------- MODULE ServerProofs ----------------------------
(***************************************************************************)
(* For every number of clients and attempts, every configuration and every *)
(* call: what a client that asks again may rely on.                        *)
(***************************************************************************)
EXTENDS Server, FiniteSetTheorems, WellFoundedInduction, TLAPS

-----------------------------------------------------------------------------
(* The handlers: who answers with an error has written nothing.            *)

Sound(answer) ==
  /\ answer.store \in Store
  /\ answer.wrote \in BOOLEAN
  /\ answer.wrote => answer.error = "None"

LEMMA AnswersSound ==
  ASSUME NEW now \in Store
  PROVE  /\ \A error : Sound(Refuse(error, now))
         /\ Sound(Reply(now)) /\ Sound(Write(now))
BY DEF Sound, Refuse, Reply, Write, Answer

LEMMA StoreEdits ==
  ASSUME NEW now \in Store
  PROVE  /\ \A p \in {"none", "plain", "tagged"} : [now EXCEPT !.param = p] \in Store
         /\ \A z \in {"none", "apex", "full"} : [now EXCEPT !.zone = z] \in Store
BY DEF Store

LEMMA PutIn ==
  ASSUME NEW now \in Store
  PROVE  Put(now) \in Store /\ Put(now).param \in {"plain", "tagged"}
BY DEF Put, Store

LEMMA ChecksSound ==
  ASSUME NEW now \in Store, NEW request, NEW body, NEW answer, Sound(answer)
  PROVE  /\ Sound(Decoded(body, now, answer))
         /\ Sound(Named(body, now, answer))
         /\ Sound(Tagged(body, now, answer))
         /\ Sound(InZone(request, now, answer))
         /\ Sound(TaggedZone(request, now, answer))
<1>1. Sound(Named(body, now, answer))
  BY AnswersSound DEF Named
<1>2. Sound(InZone(request, now, answer))
  BY AnswersSound DEF InZone
<1>. QED
  BY <1>1, <1>2, AnswersSound DEF Decoded, Tagged, TaggedZone

LEMMA SsmSound ==
  ASSUME NEW now \in Store, NEW request
  PROVE  Sound(SsmHandle(request, now))
<1>. DEFINE body == request.body
            target == Header(request, "x-amz-target")
            handlers == SsmHandlers(body, now)
<1>1. Sound(putParameter(body, now))
  BY AnswersSound, PutIn DEF putParameter
<1>2. Sound(deleteParameter(body, now)) /\ Sound(deleteParameters(body, now))
  BY AnswersSound, StoreEdits DEF deleteParameter, deleteParameters
<1>3. /\ Sound(Named(body, now, Reply(now)))
      /\ Sound(Tagged(body, now, Reply(now)))
      /\ \A param \in {"plain", "tagged"} : Sound(Retagged(body, now, param))
  <2>1. ASSUME NEW param \in {"plain", "tagged"}
        PROVE  Sound(Retagged(body, now, param))
    <3>1. Sound(Write(IF body.bare THEN now ELSE [now EXCEPT !.param = param]))
      BY AnswersSound, StoreEdits
    <3>. QED
      BY <3>1, ChecksSound DEF Retagged
  <2>. QED
    BY <2>1, AnswersSound, ChecksSound
<1>4. ASSUME target \in DOMAIN handlers PROVE Sound(handlers[target])
  <2>. HIDE DEF body, target
  <2>. QED
    BY <1>1, <1>2, <1>3, <1>4, AnswersSound DEF SsmHandlers
<1>5. CASE target \notin DOMAIN handlers
  BY <1>5, AnswersSound DEF SsmHandle
<1>6. CASE target \in DOMAIN handlers
  BY <1>4, <1>6, ChecksSound DEF SsmHandle
<1>. QED
  BY <1>5, <1>6

LEMMA KmsSound ==
  ASSUME NEW now \in Store, NEW request
  PROVE  Sound(KmsHandle(request, now))
<1>1. \A body : Sound(Encrypt(body, now)) /\ Sound(Decrypt(body, now))
  BY AnswersSound DEF Encrypt, Decrypt
<1>. QED
  BY <1>1, AnswersSound, ChecksSound DEF KmsHandle

Route53Operations ==
  {"ChangeResourceRecordSets", "ChangeTagsForResource", "CreateHostedZone",
   "DeleteHostedZone", "GetChange", "GetHostedZone", "GetHostedZoneCount",
   "ListHostedZones", "ListHostedZonesByName", "ListResourceRecordSets",
   "ListTagsForResource", "UpdateHostedZoneComment"}

LEMMA Route53Sound ==
  ASSUME NEW now \in Store, NEW request, NEW op \in Route53Operations
  PROVE  Sound(Route53Handlers(request, now)[op])
<1>1. Sound(ChangeResourceRecordSets(request, now))
  <2>1. \A body : Sound(Change(body, now))
    BY AnswersSound, StoreEdits DEF Change
  <2>. QED
    BY <2>1, ChecksSound DEF ChangeResourceRecordSets
<1>2. Sound(ChangeTagsForResource(request, now))
  BY AnswersSound, ChecksSound DEF ChangeTagsForResource
<1>3. Sound(CreateHostedZone(request, now))
  <2>1. Sound(IF now.zone # "none"
              THEN Refuse("ErrHostedZoneAlreadyExists", now)
              ELSE Write([now EXCEPT !.zone = "apex"]))
    BY AnswersSound, StoreEdits
  <2>. QED
    BY <2>1, ChecksSound DEF CreateHostedZone
<1>4. Sound(DeleteHostedZone(request, now))
  <2>1. Sound(IF now.zone = "full" THEN Refuse("ErrHostedZoneNotEmpty", now)
              ELSE Write([now EXCEPT !.zone = "none"]))
    BY AnswersSound, StoreEdits
  <2>. QED
    BY <2>1, ChecksSound DEF DeleteHostedZone
<1>5. /\ Sound(GetChange(request, now)) /\ Sound(GetHostedZone(request, now))
      /\ Sound(GetHostedZoneCount(request, now))
      /\ Sound(ListHostedZones(request, now))
  BY AnswersSound, ChecksSound
     DEF GetChange, GetHostedZone, GetHostedZoneCount, ListHostedZones
<1>6. /\ Sound(ListHostedZonesByName(request, now))
      /\ Sound(ListResourceRecordSets(request, now))
      /\ Sound(ListTagsForResource(request, now))
  BY AnswersSound, ChecksSound
     DEF ListHostedZonesByName, ListResourceRecordSets, ListTagsForResource
<1>7. Sound(UpdateHostedZoneComment(request, now))
  BY AnswersSound, ChecksSound DEF UpdateHostedZoneComment
<1>. QED
  BY <1>1, <1>2, <1>3, <1>4, <1>5, <1>6, <1>7
     DEF Route53Handlers, Route53Operations

LEMMA Routed ==
  ASSUME NEW request, RouteOf(request).guard = "route53"
  PROVE  RouteOf(request).handler \in Route53Operations
<1>1. \A r \in Routes : r.guard = "route53" => r.handler \in Route53Operations
  <2>1. \A guard, h, on : /\ Route(guard, h, on).guard = guard
                          /\ Route(guard, h, on).handler = h
    BY DEF Route
  <2>2. DOMAIN Route53Routes = Route53Operations
    BY DEF Route53Routes, Route53Operations
  <2>. QED
    BY <2>1, <2>2 DEF Routes, Behind
<1>2. RouteOf(request) \in Routes \cup {Files}
  BY DEF RouteOf
<1>3. Files.guard = "none"
  BY DEF Files, Route
<1>. QED
  BY <1>1, <1>2, <1>3

LEMMA HandlerSound ==
  ASSUME NEW now \in Store, NEW request
  PROVE  Sound(Handler(request, now))
<1>1. CASE RouteOf(request).guard = "route53"
  <2>1. Handler(request, now)
          = Route53Handlers(request, now)[RouteOf(request).handler]
    BY <1>1, Routed DEF Handler, Route53Operations
  <2>. QED
    BY <1>1, <2>1, Routed, Route53Sound
<1>2. CASE RouteOf(request).guard # "route53"
  BY <1>2, AnswersSound, SsmSound, KmsSound DEF Handler
<1>. QED
  BY <1>1, <1>2

LEMMA Statuses ==
  /\ \A request, error : StatusFor(request, error) \in {200, 400, 404, 409, 500}
  /\ \A request : StatusFor(request, "None") = 200
  /\ \A error : GuardStatus(error) \in {400, 401, 403}
BY DEF StatusFor, SsmStatus, KmsStatus, Route53Status, GuardStatus, StatusOf

-----------------------------------------------------------------------------
(* The invariant.                                                          *)

LEMMA Wants == \A request, now : AsWanted(request, now) \in BOOLEAN
BY DEF AsWanted

Clients ==
  {Idle} \cup [pc : {"asking", "waiting"}, ask : Ask, n : Try, lost : 0..MaxTries]
    \cup [pc : {"told"}, ask : Ask, lost : 0..MaxTries,
          status : Status \cup {Unknown}]

Jobs ==
  {NoJob, Killed} \cup [pc : {"arrived", "handling"}, wire : Wire]
    \cup [pc : {"refused"}, wire : Wire, status : Status, under : File]
    \cup [pc : {"answered"}, status : Status, wrote : BOOLEAN, left : BOOLEAN]

Running(j) == j.pc \in {"arrived", "handling"}
Wrote(j) == j.pc = "answered" /\ j.wrote

JobOK(j) ==
  /\ Running(j) => config # Down
  /\ Wrote(j) => j.status = 200

(* The attempts that made the change, or may still do so.                  *)
Might(jobs) == {i \in Try : Running(jobs[i]) \/ Wrote(jobs[i])}

(* The attempts before the one the client waits for.                       *)
Earlier(call, jobs) ==
  IF call.pc = "waiting" THEN Might(jobs) \ {call.n} ELSE Might(jobs)

Success(call) == call.pc = "told" /\ call.status = 200

(* An attempt that might write, and is not the one waited for, is one      *)
(* whose answer was lost.                                                  *)
CallOK(call, jobs) ==
  call.pc # "idle" =>
    /\ call.pc \in {"asking", "waiting"} =>
         /\ call.lost < call.n
         /\ \A i \in Try : (i > call.n \/ (i = call.n /\ call.pc = "asking"))
              => jobs[i] = NoJob
    /\ Cardinality(Earlier(call, jobs))
         <= call.lost + (IF Success(call) THEN 1 ELSE 0)

IInv ==
  /\ TypeOK
  /\ \A c \in Client, i \in Try : JobOK(job[c][i])
  /\ \A c \in Client : CallOK(client[c], job[c])

LEMMA Types ==
  TypeOK <=> /\ config \in File \cup {Down}
             /\ store \in Store
             /\ client \in [Client -> Clients]
             /\ job \in [Client -> [Try -> Jobs]]
BY DEF TypeOK, Clients, Jobs

(* What the state of a call and of an attempt say of their fields.         *)
LEMMA Fields ==
  /\ \A call \in Clients :
       /\ call.pc \in {"asking", "waiting"} =>
            call.ask \in Ask /\ call.n \in Try /\ call.lost \in 0..MaxTries
       /\ call.pc = "told" =>
            /\ call.ask \in Ask /\ call.lost \in 0..MaxTries
            /\ call.status \in Status \cup {Unknown}
       /\ call.pc \in {"idle", "asking", "waiting", "told"}
  /\ \A j \in Jobs :
       /\ Running(j) => j.wire \in Wire
       /\ j.pc \in {"refused", "answered"} => j.status \in Status
       /\ j.pc = "answered" => j.wrote \in BOOLEAN
       /\ j.pc = "refused" => j.under \in File
BY DEF Clients, Jobs, Idle, NoJob, Killed, Running

LEMMA Made ==
  /\ \A pc \in {"asking", "waiting"}, ask \in Ask, n \in Try, lost \in 0..MaxTries :
       /\ Calling(pc, ask, n, lost) \in Clients
       /\ Calling(pc, ask, n, lost).pc = pc
       /\ Calling(pc, ask, n, lost).ask = ask
       /\ Calling(pc, ask, n, lost).n = n
       /\ Calling(pc, ask, n, lost).lost = lost
  /\ \A ask \in Ask, lost \in 0..MaxTries, status \in Status \cup {Unknown} :
       /\ Told(ask, lost, status) \in Clients
       /\ Told(ask, lost, status).pc = "told"
       /\ Told(ask, lost, status).ask = ask
       /\ Told(ask, lost, status).lost = lost
       /\ Told(ask, lost, status).status = status
BY DEF Calling, Told, Clients

LEMMA MadeJobs ==
  ASSUME NEW wire \in Wire, NEW status \in Status, NEW file \in File,
         NEW wrote \in BOOLEAN, NEW left \in BOOLEAN
  PROVE  /\ Arriving(wire) \in Jobs /\ Running(Arriving(wire))
         /\ Handling(wire) \in Jobs /\ Running(Handling(wire))
         /\ Refused(wire, status, file) \in Jobs
         /\ ~Running(Refused(wire, status, file)) /\ ~Wrote(Refused(wire, status, file))
         /\ Answered(status, wrote, left) \in Jobs
         /\ ~Running(Answered(status, wrote, left))
         /\ Wrote(Answered(status, wrote, left)) <=> wrote
         /\ Answered(status, wrote, left).status = status
         /\ ~Wrote(Arriving(wire)) /\ ~Wrote(Handling(wire))
BY DEF Arriving, Handling, Refused, Answered, Jobs, Running, Wrote

LEMMA NoJobs ==
  /\ NoJob \in Jobs /\ ~Running(NoJob) /\ ~Wrote(NoJob)
  /\ Killed \in Jobs /\ ~Running(Killed) /\ ~Wrote(Killed)
BY DEF NoJob, Killed, Jobs, Running, Wrote

LEMMA MightFinite ==
  ASSUME NEW jobs
  PROVE  /\ IsFiniteSet(Might(jobs)) /\ Cardinality(Might(jobs)) \in Nat
         /\ \A T \in SUBSET Might(jobs) :
              /\ IsFiniteSet(T) /\ Cardinality(T) \in Nat
              /\ Cardinality(T) <= Cardinality(Might(jobs))
<1>1. IsFiniteSet(Try)
  BY FS_Interval, ServerAssumption DEF Try
<1>2. Might(jobs) \subseteq Try
  BY DEF Might
<1>3. IsFiniteSet(Might(jobs))
  BY <1>1, <1>2, FS_Subset
<1>. QED
  BY <1>3, FS_Subset, FS_CardinalityType

LEMMA EarlierFinite ==
  ASSUME NEW call, NEW jobs
  PROVE  /\ IsFiniteSet(Earlier(call, jobs))
         /\ Cardinality(Earlier(call, jobs)) \in Nat
         /\ \A T \in SUBSET Earlier(call, jobs) :
              /\ Cardinality(T) \in Nat
              /\ Cardinality(T) <= Cardinality(Earlier(call, jobs))
<1>1. Earlier(call, jobs) \in SUBSET Might(jobs)
  BY DEF Earlier
<1>2. IsFiniteSet(Earlier(call, jobs))
  BY <1>1, MightFinite
<1>. QED
  BY <1>2, FS_Subset, FS_CardinalityType

(* Attempts that end, or do not begin, take nothing from the bound.        *)
LEMMA Shrinks ==
  ASSUME NEW call \in Clients, NEW jobs, NEW after,
         Might(after) \subseteq Might(jobs),
         \A i \in Try : jobs[i] = NoJob => after[i] = NoJob,
         CallOK(call, jobs)
  PROVE  CallOK(call, after)
<1>1. Earlier(call, after) \in SUBSET Earlier(call, jobs)
  BY DEF Earlier
<1>2. /\ Cardinality(Earlier(call, after)) \in Nat
      /\ Cardinality(Earlier(call, jobs)) \in Nat
      /\ Cardinality(Earlier(call, after)) <= Cardinality(Earlier(call, jobs))
  BY <1>1, EarlierFinite
<1>3. call.pc # "idle" => call.lost \in Nat
  BY Fields
<1>. QED
  BY <1>2, <1>3 DEF CallOK

-----------------------------------------------------------------------------
(* Two kinds of steps.                                                     *)

(* An attempt that is under way goes on or ends.                           *)
LEMMA JobStep ==
  ASSUME IInv, NEW c \in Client, NEW i \in Try, NEW j \in Jobs,
         Running(job[c][i]), JobOK(j),
         job' = [job EXCEPT ![c][i] = j],
         store' \in Store, config' = config, client' = client
  PROVE  IInv'
<1>1. /\ job \in [Client -> [Try -> Jobs]] /\ client \in [Client -> Clients]
      /\ config \in File \cup {Down}
  BY Types DEF IInv
<1>2. /\ job' \in [Client -> [Try -> Jobs]] /\ job'[c][i] = j
      /\ \A d \in Client, k \in Try : (d # c \/ k # i) => job'[d][k] = job[d][k]
  BY <1>1
<1>3. TypeOK'
  BY <1>1, <1>2 DEF TypeOK, Clients, Jobs
<1>4. \A d \in Client, k \in Try : JobOK(job[d][k])'
  BY <1>2 DEF IInv, JobOK
<1>5. ASSUME NEW d \in Client PROVE CallOK(client[d], job[d])'
  <2>1. job[c][i] # NoJob
    BY NoJobs
  <2>2. \A k \in Try : job[d][k] = NoJob => job'[d][k] = NoJob
    BY <1>2, <2>1
  <2>3. Might(job'[d]) \subseteq Might(job[d])
    BY <1>2 DEF Might
  <2>4. CallOK(client[d], job[d]) /\ client[d] \in Clients
    BY <1>1 DEF IInv
  <2>. QED
    BY <2>2, <2>3, <2>4, Shrinks
<1>. QED
  BY <1>3, <1>4, <1>5 DEF IInv

(* A client that got no final answer goes on, with nothing to wait for.    *)
LEMMA AgainStep ==
  ASSUME IInv, NEW c \in Client, NEW lost \in Nat,
         NEW status \in Status \cup {Unknown},
         client[c].pc \in {"asking", "waiting"},
         client[c].lost <= lost, lost <= client[c].lost + 1,
         Cardinality(Might(job[c])) <= lost,
         Again(c, lost, status),
         UNCHANGED <<config, store, job>>
  PROVE  IInv'
<1>1. /\ job \in [Client -> [Try -> Jobs]] /\ client \in [Client -> Clients]
      /\ config \in File \cup {Down} /\ store \in Store
  BY Types DEF IInv
<1>. DEFINE call == client[c]
<1>2. /\ call.ask \in Ask /\ call.n \in Try /\ call.lost \in 0..MaxTries
      /\ call.lost < call.n
      /\ \A i \in Try : i > call.n => job[c][i] = NoJob
  BY <1>1, Fields DEF IInv, CallOK
<1>3. /\ MaxTries \in Nat /\ lost \in 0..MaxTries
      /\ call.n \in Nat /\ lost < call.n + 1
  BY <1>2, ServerAssumption DEF Try
<1>4. PICK now : /\ client' = [client EXCEPT ![c] = now]
                 /\ now = IF call.n < MaxTries
                          THEN Calling("asking", call.ask, call.n + 1, lost)
                          ELSE Told(call.ask, lost, status)
  BY DEF Again
<1>5. now \in Clients /\ CallOK(now, job[c])
  <2>1. CASE call.n < MaxTries
    <3>1. call.n + 1 \in Try
      BY <1>3, <2>1, <1>2 DEF Try
    <3>2. /\ now \in Clients /\ now.pc = "asking" /\ now.n = call.n + 1
          /\ now.lost = lost
      BY <1>2, <1>3, <1>4, <2>1, <3>1, Made
    <3>3. Earlier(now, job[c]) = Might(job[c]) /\ ~Success(now)
      BY <3>2 DEF Earlier, Success
    <3>4. \A i \in Try : i >= now.n => job[c][i] = NoJob
      BY <1>2, <1>3, <3>2 DEF Try
    <3>. QED
      BY <1>3, <3>1, <3>2, <3>3, <3>4 DEF CallOK, Try
  <2>2. CASE ~(call.n < MaxTries)
    <3>1. now \in Clients /\ now.pc = "told" /\ now.lost = lost
      BY <1>2, <1>3, <1>4, <2>2, Made
    <3>2. Earlier(now, job[c]) = Might(job[c])
      BY <3>1 DEF Earlier
    <3>. QED
      BY <3>1, <3>2, MightFinite DEF CallOK
  <2>. QED
    BY <2>1, <2>2
<1>6. TypeOK'
  <2>1. client' \in [Client -> Clients]
    BY <1>1, <1>4, <1>5
  <2>. QED
    BY <1>1, <2>1 DEF TypeOK, Clients, Jobs
<1>7. \A d \in Client : CallOK(client[d], job[d])'
  BY <1>1, <1>4, <1>5 DEF IInv
<1>. QED
  BY <1>6, <1>7 DEF IInv, JobOK

-----------------------------------------------------------------------------
(* The steps.                                                              *)

LEMMA Inits == Init => IInv
<1>. SUFFICES ASSUME Init PROVE IInv
  OBVIOUS
<1>1. /\ config = Down /\ store = [param |-> "none", zone |-> "none"]
      /\ client = [c \in Client |-> Idle]
      /\ job = [c \in Client |-> [i \in Try |-> NoJob]]
  BY DEF Init
<1>2. Idle \in Clients /\ Idle.pc = "idle"
  BY DEF Clients, Idle
<1>3. TypeOK
  BY <1>1, <1>2, NoJobs, Types DEF Store
<1>. QED
  BY <1>1, <1>2, <1>3, NoJobs DEF IInv, JobOK, CallOK

LEMMA RestartStep ==
  ASSUME IInv, NEW file \in File, Restart(file)
  PROVE  IInv'
<1>1. /\ job \in [Client -> [Try -> Jobs]] /\ client \in [Client -> Clients]
      /\ store \in Store
  BY Types DEF IInv
<1>2. /\ job' \in [Client -> [Try -> Jobs]]
      /\ \A c \in Client, i \in Try :
           IF Running(job[c][i]) THEN job'[c][i] = Killed
                                 ELSE job'[c][i] = job[c][i]
  BY <1>1, NoJobs DEF Restart, Running
<1>3. TypeOK'
  <2>1. config' \in File \cup {Down} /\ store' = store /\ client' = client
    BY DEF Restart, Started
  <2>. QED
    BY <1>1, <1>2, <2>1 DEF TypeOK, Clients, Jobs
<1>4. \A c \in Client, i \in Try : JobOK(job[c][i])'
  BY <1>2, NoJobs DEF IInv, JobOK
<1>5. ASSUME NEW c \in Client PROVE CallOK(client[c], job[c])'
  <2>1. Might(job'[c]) \subseteq Might(job[c])
    BY <1>2, NoJobs DEF Might
  <2>2. \A i \in Try : job[c][i] = NoJob => job'[c][i] = NoJob
    BY <1>2, NoJobs
  <2>3. CallOK(client[c], job[c]) /\ client[c] \in Clients /\ client' = client
    BY <1>1 DEF IInv, Restart
  <2>. QED
    BY <2>1, <2>2, <2>3, Shrinks
<1>. QED
  BY <1>3, <1>4, <1>5 DEF IInv

LEMMA CallStep ==
  ASSUME IInv, NEW c \in Client, NEW ask \in Ask, Call(c, ask)
  PROVE  IInv'
<1>1. /\ job \in [Client -> [Try -> Jobs]] /\ client \in [Client -> Clients]
      /\ store \in Store /\ config \in File \cup {Down}
  BY Types DEF IInv
<1>2. /\ 1 \in Try /\ 0 \in 0..MaxTries
  BY ServerAssumption DEF Try
<1>3. PICK now, jobs : /\ client' = [client EXCEPT ![c] = now]
                       /\ job' = [job EXCEPT ![c] = jobs]
                       /\ now = Calling("asking", ask, 1, 0)
                       /\ jobs = [i \in Try |-> NoJob]
  BY DEF Call
<1>4. /\ now \in Clients /\ now.pc = "asking" /\ now.n = 1 /\ now.lost = 0
  BY <1>2, <1>3, Made
<1>5. jobs \in [Try -> Jobs] /\ \A i \in Try : jobs[i] = NoJob
  BY <1>3, NoJobs
<1>6. TypeOK'
  <2>1. client' \in [Client -> Clients] /\ job' \in [Client -> [Try -> Jobs]]
    BY <1>1, <1>3, <1>4, <1>5
  <2>2. config' = config /\ store' = store
    BY DEF Call
  <2>. QED
    BY <1>1, <2>1, <2>2 DEF TypeOK, Clients, Jobs
<1>7. \A d \in Client, i \in Try : JobOK(job[d][i])'
  <2>1. config' = config
    BY DEF Call
  <2>2. \A d \in Client, i \in Try : job'[d][i] \in {job[d][i], NoJob}
    BY <1>1, <1>3, <1>5
  <2>. QED
    BY <2>1, <2>2, NoJobs DEF IInv, JobOK
<1>8. CallOK(now, jobs)
  <2>1. Earlier(now, jobs) = {}
    BY <1>4, <1>5, NoJobs DEF Earlier, Might
  <2>2. Cardinality(Earlier(now, jobs)) = 0
    BY <2>1, FS_EmptySet
  <2>3. ~Success(now)
    BY <1>4 DEF Success
  <2>. QED
    BY <1>4, <1>5, <2>2, <2>3 DEF CallOK
<1>9. \A d \in Client : CallOK(client[d], job[d])'
  BY <1>1, <1>3, <1>8 DEF IInv
<1>. QED
  BY <1>6, <1>7, <1>9 DEF IInv

LEMMA SendStep ==
  ASSUME IInv, NEW c \in Client, Send(c)
  PROVE  IInv'
<1>1. /\ job \in [Client -> [Try -> Jobs]] /\ client \in [Client -> Clients]
      /\ store \in Store /\ config \in File \cup {Down}
  BY Types DEF IInv
<1>. DEFINE call == client[c]
<1>2. /\ call.pc = "asking" /\ config # Down
      /\ call.ask \in Ask /\ call.n \in Try /\ call.lost \in 0..MaxTries
  BY <1>1, Fields DEF Send
<1>3. PICK wire \in OnTheWay(call.ask) :
        job' = [job EXCEPT ![c][call.n] = Arriving(wire)]
  BY DEF Send
<1>4. wire \in Wire
  BY <1>2, <1>3 DEF Wire
<1>5. PICK j : /\ job' = [job EXCEPT ![c][call.n] = j]
               /\ j = Arriving(wire) /\ j \in Jobs /\ Running(j) /\ ~Wrote(j)
  <2>1. Arriving(wire) \in Jobs /\ Running(Arriving(wire)) /\ ~Wrote(Arriving(wire))
    BY <1>4 DEF Arriving, Jobs, Running, Wrote
  <2>. QED
    BY <1>3, <2>1
<1>6. PICK now : /\ client' = [client EXCEPT ![c] = now]
                 /\ now = [call EXCEPT !.pc = "waiting"]
  BY DEF Send
<1>7. /\ now \in Clients /\ now.pc = "waiting"
      /\ now.n = call.n /\ now.lost = call.lost
  <2>1. call \in [pc : {"asking", "waiting"}, ask : Ask, n : Try, lost : 0..MaxTries]
    BY <1>1, <1>2 DEF Clients, Idle
  <2>. QED
    BY <1>6, <2>1 DEF Clients
<1>8. TypeOK'
  <2>1. client' \in [Client -> Clients] /\ job' \in [Client -> [Try -> Jobs]]
    BY <1>1, <1>2, <1>5, <1>6, <1>7
  <2>2. config' = config /\ store' = store
    BY DEF Send
  <2>. QED
    BY <1>1, <2>1, <2>2 DEF TypeOK, Clients, Jobs
<1>9. \A d \in Client, i \in Try : JobOK(job[d][i])'
  <2>1. config' = config
    BY DEF Send
  <2>2. \A d \in Client, i \in Try : job'[d][i] \in {job[d][i], j}
    BY <1>1, <1>2, <1>5
  <2>. QED
    BY <1>2, <1>5, <2>1, <2>2 DEF IInv, JobOK
<1>10. /\ job'[c][call.n] = j
       /\ \A i \in Try : i # call.n => job'[c][i] = job[c][i]
  BY <1>1, <1>2, <1>5
<1>11. CallOK(now, job'[c])
  <2>1. /\ call.lost < call.n
        /\ \A i \in Try : i >= call.n => job[c][i] = NoJob
        /\ Cardinality(Earlier(call, job[c])) <= call.lost
    <3>1. ~Success(call)
      BY <1>2 DEF Success
    <3>2. CallOK(call, job[c])
      BY DEF IInv
    <3>3. Cardinality(Earlier(call, job[c])) \in Nat
      BY EarlierFinite
    <3>. QED
      BY <1>2, <3>1, <3>2, <3>3 DEF CallOK, Try
  <2>2. Earlier(now, job'[c]) \in SUBSET Earlier(call, job[c])
    BY <1>2, <1>7, <1>10 DEF Earlier, Might
  <2>3. /\ Cardinality(Earlier(now, job'[c])) \in Nat
        /\ Cardinality(Earlier(call, job[c])) \in Nat
        /\ Cardinality(Earlier(now, job'[c])) <= Cardinality(Earlier(call, job[c]))
    BY <2>2, EarlierFinite
  <2>4. \A i \in Try : i > now.n => job'[c][i] = NoJob
    BY <1>2, <1>7, <1>10, <2>1 DEF Try
  <2>5. ~Success(now)
    BY <1>7 DEF Success
  <2>. QED
    BY <1>2, <1>7, <2>1, <2>3, <2>4, <2>5 DEF CallOK
<1>12. \A d \in Client : CallOK(client[d], job[d])'
  <2>1. \A d \in Client : d # c => client'[d] = client[d] /\ job'[d] = job[d]
    BY <1>1, <1>5, <1>6
  <2>2. client'[c] = now
    BY <1>1, <1>6
  <2>. QED
    BY <1>11, <2>1, <2>2 DEF IInv
<1>. QED
  BY <1>8, <1>9, <1>12 DEF IInv

LEMMA NotConnectedStep ==
  ASSUME IInv, NEW c \in Client, NotConnected(c)
  PROVE  IInv'
<1>1. client[c] \in Clients
  BY Types DEF IInv
<1>2. client[c].pc = "asking" /\ client[c].lost \in Nat
  BY <1>1, Fields DEF NotConnected
<1>3. Cardinality(Might(job[c])) <= client[c].lost
  <2>1. Earlier(client[c], job[c]) = Might(job[c]) /\ ~Success(client[c])
    BY <1>2 DEF Earlier, Success
  <2>2. CallOK(client[c], job[c])
    BY DEF IInv
  <2>3. Cardinality(Might(job[c])) \in Nat
    BY MightFinite
  <2>. QED
    BY <1>2, <2>1, <2>2, <2>3 DEF CallOK
<1>. QED
  BY <1>2, <1>3, AgainStep DEF NotConnected

(* The attempt waited for is one more than those that were lost before.    *)
LEMMA Awaited ==
  ASSUME IInv, NEW c \in Client, client[c].pc = "waiting"
  PROVE  /\ client[c].lost \in Nat /\ client[c].n \in Try
         /\ Cardinality(Might(job[c])) \in Nat
         /\ Cardinality(Might(job[c])) <= client[c].lost + 1
         /\ client[c].n \notin Might(job[c]) =>
              Cardinality(Might(job[c])) <= client[c].lost
<1>. DEFINE call == client[c]
            all == Might(job[c])
            earlier == Earlier(call, job[c])
<1>1. /\ call \in Clients /\ call.lost \in Nat /\ call.n \in Try
  BY Types, Fields DEF IInv
<1>2. Cardinality(earlier) <= call.lost /\ Cardinality(earlier) \in Nat
  BY <1>1, EarlierFinite DEF IInv, CallOK, Success
<1>3. earlier = all \ {call.n} /\ IsFiniteSet(all) /\ Cardinality(all) \in Nat
  BY MightFinite DEF Earlier
<1>4. Cardinality(earlier) = IF call.n \in all THEN Cardinality(all) - 1
                             ELSE Cardinality(all)
  <2>. HIDE DEF all, earlier
  <2>. QED
    BY <1>3, FS_RemoveElement
<1>. QED
  BY <1>1, <1>2, <1>3, <1>4

LEMMA LoseStep ==
  ASSUME IInv, NEW c \in Client, Lose(c)
  PROVE  IInv'
<1>. DEFINE lost == client[c].lost + 1
<1>1. client[c].pc = "waiting" /\ Again(c, lost, Unknown)
  BY DEF Lose
<1>2. /\ client[c].lost \in Nat /\ lost \in Nat
      /\ Cardinality(Might(job[c])) <= lost
  BY <1>1, Awaited
<1>3. UNCHANGED <<config, store, job>>
  BY DEF Lose
<1>. HIDE DEF lost
<1>4. client[c].lost <= lost /\ lost <= client[c].lost + 1
  BY <1>2 DEF lost
<1>. QED
  BY <1>1, <1>2, <1>3, <1>4, AgainStep

LEMMA ReceiveStep ==
  ASSUME IInv, NEW c \in Client, Receive(c)
  PROVE  IInv'
<1>1. /\ job \in [Client -> [Try -> Jobs]] /\ client \in [Client -> Clients]
      /\ store \in Store /\ config \in File \cup {Down}
  BY Types DEF IInv
<1>. DEFINE call == client[c]
            answer == job[c][call.n]
<1>2. /\ call.pc = "waiting" /\ call.ask \in Ask /\ call.n \in Try
      /\ call.lost \in 0..MaxTries /\ call.lost \in Nat
  BY <1>1, Fields DEF Receive
<1>3. /\ answer.pc \in {"refused", "answered"} /\ ~Running(answer)
      /\ answer.status \in Status /\ answer.status \in Nat
      /\ Wrote(answer) => answer.status = 200
  BY <1>1, <1>2, Fields DEF Receive, Running, IInv, JobOK, Status
<1>4. answer.status # 200 => Cardinality(Might(job[c])) <= call.lost
  BY <1>2, <1>3, Awaited DEF Might
<1>5. CASE answer.status >= 500
  BY <1>2, <1>3, <1>4, <1>5, AgainStep DEF Receive
<1>6. CASE ~(answer.status >= 500)
  <2>1. PICK now : /\ client' = [client EXCEPT ![c] = now]
                   /\ now = Told(call.ask, call.lost, answer.status)
    BY <1>6 DEF Receive
  <2>2. /\ now \in Clients /\ now.pc = "told" /\ now.lost = call.lost
        /\ now.status = answer.status
    <3>1. PICK ask \in Ask, lost \in 0..MaxTries, status \in Status :
            ask = call.ask /\ lost = call.lost /\ status = answer.status
      BY <1>2, <1>3
    <3>2. now = Told(ask, lost, status)
      BY <2>1, <3>1
    <3>. QED
      BY <3>1, <3>2, Made
  <2>3. CallOK(now, job[c])
    <3>1. Earlier(now, job[c]) = Might(job[c])
      BY <2>2 DEF Earlier
    <3>2. Success(now) <=> answer.status = 200
      BY <2>2 DEF Success
    <3>. QED
      BY <1>2, <1>4, <2>2, <3>1, <3>2, Awaited DEF CallOK
  <2>4. UNCHANGED <<config, store, job>>
    BY DEF Receive
  <2>5. client' \in [Client -> Clients]
    BY <1>1, <2>1, <2>2
  <2>6. TypeOK'
    BY <1>1, <2>4, <2>5 DEF TypeOK, Clients, Jobs
  <2>7. \A d \in Client : CallOK(client[d], job[d])'
    BY <1>1, <2>1, <2>3, <2>4 DEF IInv
  <2>. QED
    BY <2>4, <2>6, <2>7 DEF IInv, JobOK
<1>. QED
  BY <1>5, <1>6

LEMMA AuthorizeStep ==
  ASSUME IInv, NEW c \in Client, NEW i \in Try, Authorize(c, i)
  PROVE  IInv'
<1>1. Running(job[c][i]) /\ job[c][i] \in Jobs /\ store \in Store
  BY Types DEF Authorize, Running, IInv
<1>2. config # Down /\ config \in File
  BY <1>1, Types DEF IInv, JobOK
<1>. DEFINE wire == job[c][i].wire
            error == Guard(wire, config)
<1>3. wire \in Wire
  BY <1>1, Fields
<1>4. PICK j \in Jobs :
        job' = [job EXCEPT ![c][i] = j] /\ ~Wrote(j)
  <2>1. GuardStatus(error) \in Status
    BY Statuses DEF Status
  <2>2. /\ Handling(wire) \in Jobs /\ ~Wrote(Handling(wire))
        /\ Refused(wire, GuardStatus(error), config) \in Jobs
        /\ ~Wrote(Refused(wire, GuardStatus(error), config))
    <3>. HIDE DEF wire, error
    <3>. QED
      BY <1>2, <1>3, <2>1 DEF Handling, Refused, Jobs, Wrote
  <2>3. \/ job' = [job EXCEPT ![c][i] = Handling(wire)]
        \/ job' = [job EXCEPT ![c][i] = Refused(wire, GuardStatus(error), config)]
    BY DEF Authorize
  <2>. QED
    BY <2>2, <2>3
<1>5. JobOK(j)
  BY <1>2, <1>4 DEF JobOK
<1>. QED
  BY <1>1, <1>4, <1>5, JobStep DEF Authorize

LEMMA HandleStep ==
  ASSUME IInv, NEW c \in Client, NEW i \in Try, Handle(c, i)
  PROVE  IInv'
<1>1. Running(job[c][i]) /\ store \in Store
  BY Types DEF Handle, Running, IInv
<1>. DEFINE wire == job[c][i].wire
            answer == Handler(wire, store)
            status == StatusFor(wire, answer.error)
            left == AsWanted(client[c].ask.request, answer.store)
<1>2. Sound(answer)
  BY <1>1, HandlerSound
<1>3. status \in Status /\ (answer.wrote => status = 200)
  BY <1>2, Statuses DEF Sound, Status
<1>4. /\ job' = [job EXCEPT ![c][i] = Answered(status, answer.wrote, left)]
      /\ store' = answer.store
      /\ UNCHANGED <<config, client>>
  BY DEF Handle
<1>. HIDE DEF status, answer, left
<1>5. PICK j \in Jobs : /\ job' = [job EXCEPT ![c][i] = j]
                        /\ ~Running(j) /\ (Wrote(j) => j.status = 200)
  <2>1. answer.wrote \in BOOLEAN /\ left \in BOOLEAN
    BY <1>2, Wants DEF Sound, left
  <2>2. /\ Answered(status, answer.wrote, left) \in Jobs
        /\ ~Running(Answered(status, answer.wrote, left))
        /\ Wrote(Answered(status, answer.wrote, left)) => status = 200
        /\ Answered(status, answer.wrote, left).status = status
    BY <1>3, <2>1 DEF Answered, Jobs, Running, Wrote
  <2>. QED
    BY <1>4, <2>2
<1>6. JobOK(j) /\ store' \in Store
  BY <1>2, <1>4, <1>5 DEF JobOK, Sound
<1>7. config' = config /\ client' = client
  BY <1>4
<1>8. job' = [job EXCEPT ![c][i] = j] /\ Running(job[c][i])
  BY <1>1, <1>5
<1>. QED
  BY <1>6, <1>7, <1>8, JobStep

LEMMA Steps == IInv /\ [Next]_vars => IInv'
<1>. SUFFICES ASSUME IInv, [Next]_vars PROVE IInv'
  OBVIOUS
<1>1. CASE Elsewhere
  <2>1. store' \in Store /\ UNCHANGED <<config, client, job>>
    BY <1>1 DEF Elsewhere
  <2>2. TypeOK'
    BY <2>1 DEF IInv, TypeOK
  <2>. QED
    BY <2>1, <2>2 DEF IInv, JobOK
<1>2. CASE UNCHANGED vars
  <2>1. TypeOK'
    BY <1>2 DEF vars, IInv, TypeOK
  <2>. QED
    BY <1>2, <2>1 DEF vars, IInv, JobOK
<1>. QED
  BY <1>1, <1>2, RestartStep, CallStep, SendStep, NotConnectedStep, ReceiveStep,
     LoseStep, AuthorizeStep, HandleStep DEF Next

LEMMA Invariance == Spec => []IInv
BY Inits, Steps, PTL DEF Spec

-----------------------------------------------------------------------------
(* Calls, attempts, answers and the store are what they are said to be.    *)
THEOREM TypeCorrect == Spec => []TypeOK
<1>1. IInv => TypeOK
  BY DEF IInv
<1>. QED
  BY <1>1, Invariance, PTL

(* However often a client asks again, and whatever the server is restarted *)
(* with meanwhile, its change is made at most once for each lost answer,   *)
(* and once more unless it was told of an error.                           *)
THEOREM MadeOnce == Spec => []DoneOnce
<1>1. IInv => DoneOnce
  <2>. SUFFICES ASSUME IInv, NEW c \in Client, client[c].pc # "idle"
                PROVE  Cardinality(Did(c)) <= client[c].lost +
                         IF client[c].pc = "told" /\ client[c].status >= 400
                         THEN 0 ELSE 1
    BY DEF DoneOnce
  <2>1. Did(c) \in SUBSET Might(job[c])
    BY DEF Did, Might, Wrote
  <2>2. /\ Cardinality(Did(c)) \in Nat /\ Cardinality(Might(job[c])) \in Nat
        /\ Cardinality(Did(c)) <= Cardinality(Might(job[c]))
    BY <2>1, MightFinite
  <2>3. /\ client[c].lost \in Nat
        /\ client[c].pc \in {"asking", "waiting", "told"}
    BY Types, Fields DEF IInv
  <2>4. CASE client[c].pc = "waiting"
    BY <2>2, <2>3, <2>4, Awaited
  <2>5. CASE client[c].pc # "waiting"
    <3>1. Earlier(client[c], job[c]) = Might(job[c])
      BY <2>5 DEF Earlier
    <3>2. Cardinality(Might(job[c]))
            <= client[c].lost + (IF Success(client[c]) THEN 1 ELSE 0)
      BY <3>1 DEF IInv, CallOK
    <3>. QED
      BY <2>2, <2>3, <2>5, <3>2 DEF Success
  <2>. QED
    BY <2>4, <2>5
<1>. QED
  BY <1>1, Invariance, PTL

-----------------------------------------------------------------------------
(* What is on the way between a client and the server.                     *)

Message(r, headers, body, auth) ==
  [method |-> r.method, path |-> r.path, query |-> r.query, host |-> r.host,
   headers |-> headers, encoding |-> r.encoding, length |-> r.length,
   body |-> body, auth |-> auth]

LEMMA Messages ==
  ASSUME NEW r, NEW headers, NEW body, NEW auth
  PROVE  LET m == Message(r, headers, body, auth)
         IN /\ m.method = r.method /\ m.path = r.path /\ m.query = r.query
            /\ m.host = r.host /\ m.encoding = r.encoding /\ m.length = r.length
            /\ m.headers = headers /\ m.body = body /\ m.auth = auth
            /\ \A x : [m EXCEPT !.headers = x] = Message(r, x, body, auth)
            /\ \A x : [m EXCEPT !.auth = x] = Message(r, headers, body, x)
BY DEF Message

Kept(r) == [h \in DOMAIN r.headers \ Stripped |-> r.headers[h]]

HasPassword(ask) == "password" \in DOMAIN ask.request.auth

ListedOf(r) == [h \in r.auth.listed \cap DOMAIN r.headers |-> r.headers[h]]

SignatureOf(ask) ==
  LET r == ask.request
  IN [secret |-> ask.secret, day |-> r.auth.day, region |-> r.auth.region,
      service |-> r.auth.service, time |-> DateOf(r).time,
      request |-> [method |-> r.method, path |-> r.path, query |-> r.query,
                   headers |-> ListedOf(r), payload |-> r.body]]

(* Who is asking, for what: the same on the way, but for flaws.            *)
SameAuth(auth, ask) ==
  LET a == ask.request.auth
  IN /\ auth.key = a.key
     /\ "password" \in DOMAIN auth <=> HasPassword(ask)
     /\ HasPassword(ask) => auth.password = ask.secret
     /\ ~HasPassword(ask) =>
          /\ auth.day = a.day /\ auth.region = a.region
          /\ auth.service = a.service /\ auth.listed = a.listed
          /\ auth.signature = SignatureOf(ask)

LEMMA AuthSent ==
  ASSUME NEW ask \in Ask
  PROVE  \E auth :
           /\ Prepared(ask) = Message(ask.request, ask.request.headers,
                                      ask.request.body, auth)
           /\ SameAuth(auth, ask) /\ auth.flaws = {}
           /\ \A flaw : SameAuth([auth EXCEPT !.flaws = {flaw}], ask)
<1>1. PICK r, a : r = ask.request /\ a = r.auth
  OBVIOUS
<1>2. r = Message(r, r.headers, r.body, a)
  BY <1>1, AskAssumption DEF Message
<1>3. CASE a = [flaws |-> {}, key |-> a.key, password |-> ask.secret]
  <2>1. HasPassword(ask) /\ a.password = ask.secret /\ a.flaws = {}
    BY <1>1, <1>3 DEF HasPassword
  <2>2. Prepared(ask) = r
    BY <1>1, <2>1 DEF Prepared, HasPassword
  <2>3. ASSUME NEW flaw
        PROVE  [a EXCEPT !.flaws = {flaw}]
                 = [flaws |-> {flaw}, key |-> a.key, password |-> ask.secret]
    BY <1>3
  <2>4. ASSUME NEW flaw
        PROVE  SameAuth([a EXCEPT !.flaws = {flaw}], ask)
    BY <1>1, <2>1, <2>3 DEF SameAuth
  <2>5. SameAuth(a, ask)
    BY <1>1, <2>1 DEF SameAuth, HasPassword
  <2>. QED
    BY <1>1, <1>2, <2>1, <2>2, <2>4, <2>5
<1>4. CASE a = [flaws |-> {}, key |-> a.key, day |-> a.day, region |-> a.region,
                service |-> a.service, listed |-> a.listed,
                signature |-> a.signature]
  <2>1. ~HasPassword(ask)
    BY <1>1, <1>4 DEF HasPassword
  <2>2. PICK s, auth : s = SignatureOf(ask) /\ auth = [a EXCEPT !.signature = s]
    OBVIOUS
  <2>3. auth = [flaws |-> {}, key |-> a.key, day |-> a.day, region |-> a.region,
                service |-> a.service, listed |-> a.listed, signature |-> s]
    BY <1>4, <2>2
  <2>4. Prepared(ask) = [r EXCEPT !.auth = auth]
    BY <1>1, <2>1, <2>2 DEF Prepared, HasPassword, Signed, SignatureOf, ListedOf
  <2>5. Prepared(ask) = Message(r, r.headers, r.body, auth)
    BY <1>2, <2>4, Messages
  <2>6. ASSUME NEW flaw
        PROVE  SameAuth([auth EXCEPT !.flaws = {flaw}], ask)
    <3>1. PICK sent : sent = [auth EXCEPT !.flaws = {flaw}]
      OBVIOUS
    <3>2. sent = [flaws |-> {flaw}, key |-> a.key, day |-> a.day, region |-> a.region,
                  service |-> a.service, listed |-> a.listed, signature |-> s]
      BY <2>3, <3>1
    <3>3. /\ sent.key = a.key /\ "password" \notin DOMAIN sent
          /\ sent.day = a.day /\ sent.region = a.region
          /\ sent.service = a.service /\ sent.listed = a.listed
          /\ sent.signature = s
      BY <3>2
    <3>4. SameAuth(sent, ask)
      BY <1>1, <2>1, <2>2, <3>3 DEF SameAuth
    <3>. QED
      BY <3>1, <3>4
  <2>7. SameAuth(auth, ask) /\ auth.flaws = {}
    BY <1>1, <2>1, <2>2, <2>3 DEF SameAuth
  <2>. QED
    BY <1>1, <2>5, <2>6, <2>7
<1>. QED
  BY <1>1, <1>3, <1>4, AskAssumption

(* What arrives of a request that nothing happens to.                      *)
LEMMA Unharmed ==
  ASSUME NEW ask \in Ask
  PROVE  \E auth :
           /\ Arrived(Prepared(ask)) = Message(ask.request, Kept(ask.request),
                                               ask.request.body, auth)
           /\ SameAuth(auth, ask) /\ auth.flaws = {}
<1>1. PICK r, sent : r = ask.request /\ sent = Prepared(ask)
  OBVIOUS
<1>2. PICK auth : /\ sent = Message(r, r.headers, r.body, auth)
                  /\ SameAuth(auth, ask) /\ auth.flaws = {}
  BY <1>1, AuthSent
<1>3. Arrived(sent) = [sent EXCEPT !.headers = Kept(r)]
  <2>1. sent.headers = r.headers
    BY <1>2, Messages
  <2>. QED
    BY <2>1 DEF Arrived, Kept
<1>4. Arrived(sent) = Message(r, Kept(r), r.body, auth)
  BY <1>2, <1>3, Messages
<1>. QED
  BY <1>1, <1>2, <1>4

LEMMA AuthKept ==
  ASSUME NEW m, m = [x \in DOMAIN m |-> m[x]], "auth" \in DOMAIN m
  PROVE  Arrived(m).auth = m.auth
<1>1. PICK headers : Arrived(m) = [m EXCEPT !.headers = headers]
  BY DEF Arrived
<1>. QED
  BY <1>1

(* However it is changed, it says who asks, or cannot be read.             *)
LEMMA OnWire ==
  ASSUME NEW ask \in Ask, NEW wire \in OnTheWay(ask)
  PROVE  SameAuth(wire.auth, ask)
<1>1. PICK r, m : r = ask.request /\ m = Prepared(ask)
  OBVIOUS
<1>2. PICK auth : /\ m = Message(r, r.headers, r.body, auth)
                  /\ SameAuth(auth, ask)
                  /\ \A flaw : SameAuth([auth EXCEPT !.flaws = {flaw}], ask)
  BY <1>1, AuthSent
<1>3. m.auth = auth
  BY <1>2, Messages
<1>4. PICK request : wire = Arrived(request) /\ request \in {m} \cup Damaged(m)
  BY <1>1 DEF OnTheWay
<1>5. CASE \/ request = m
           \/ \E x : request = [m EXCEPT !.headers = x]
  <2>1. PICK headers : request = Message(r, headers, r.body, auth)
    BY <1>2, <1>5, Messages
  <2>2. request.auth = auth
    BY <2>1, Messages
  <2>3. wire.auth = request.auth
    BY <1>4, <2>1, AuthKept DEF Message
  <2>. QED
    BY <1>2, <2>2, <2>3
<1>6. CASE \E flaw \in Flaw : request = [m EXCEPT !.auth.flaws = {flaw}]
  <2>1. PICK flaw \in Flaw : request = [m EXCEPT !.auth.flaws = {flaw}]
    BY <1>6
  <2>2. PICK flawed : flawed = [auth EXCEPT !.flaws = {flaw}]
    OBVIOUS
  <2>3. request = [m EXCEPT !.auth = flawed]
    BY <1>3, <2>1, <2>2
  <2>4. request = Message(r, r.headers, r.body, flawed)
    BY <1>2, <2>3, Messages
  <2>5. request.auth = flawed
    BY <2>4, Messages
  <2>6. wire.auth = request.auth
    BY <1>4, <2>4, AuthKept DEF Message
  <2>. QED
    BY <1>2, <2>2, <2>5, <2>6
<1>7. CASE \E stray \in Stray : request = But(m, stray)
  <2>1. PICK stray \in Stray : request = But(m, stray)
    BY <1>7
  <2>2. "auth" \notin DOMAIN stray
    BY ServerAssumption
  <2>3. "auth" \in DOMAIN m
    BY <1>2 DEF Message
  <2>4. /\ request = [x \in DOMAIN request |-> request[x]]
        /\ "auth" \in DOMAIN request /\ request.auth = m.auth
    BY <2>1, <2>2, <2>3 DEF But
  <2>. QED
    BY <1>2, <1>3, <1>4, <2>4, AuthKept
<1>8. \/ request = m
      \/ \E x : request = [m EXCEPT !.headers = x]
      \/ \E flaw \in Flaw : request = [m EXCEPT !.auth.flaws = {flaw}]
      \/ \E stray \in Stray : request = But(m, stray)
  <2>1. CASE request \in {[m EXCEPT !.headers = With(@, stray)] : stray \in StrayHeader}
    BY <2>1
  <2>2. CASE request \in {[m EXCEPT !.headers = Without(@, lost)] : lost \in LostHeader}
    BY <2>2
  <2>. QED
    BY <1>4, <2>1, <2>2 DEF Damaged
<1>. QED
  BY <1>5, <1>6, <1>7, <1>8

-----------------------------------------------------------------------------
(* The checks of a signature.                                              *)

LEMMA Least ==
  ASSUME NEW T \in SUBSET Nat, T # {}
  PROVE  \E i \in T : \A j \in T : i <= j
<1>1. PICK i \in T : \A j \in T : ~(<<j, i>> \in OpToRel(<, Nat))
  BY NatLessThanWellFounded, WFMin
<1>2. \A j \in T : ~(j < i)
  BY <1>1 DEF OpToRel
<1>. QED
  BY <1>2

LEMMA Greatest ==
  ASSUME NEW n \in Nat, NEW T \in SUBSET (1..n), T # {}
  PROVE  \E i \in T : \A j \in T : j <= i
<1>1. PICK S : S = {n - i : i \in T}
  OBVIOUS
<1>2. S \in SUBSET Nat /\ S # {}
  <2>1. \A i \in T : n - i \in Nat
    OBVIOUS
  <2>2. PICK i \in T : TRUE
    OBVIOUS
  <2>3. n - i \in S
    BY <1>1
  <2>4. \A k \in S : k \in Nat
    BY <1>1, <2>1
  <2>. QED
    BY <2>3, <2>4
<1>3. PICK k \in S : \A j \in S : k <= j
  BY <1>2, Least
<1>4. PICK i \in T : k = n - i
  BY <1>1
<1>5. \A j \in T : n - i <= n - j
  BY <1>1, <1>3, <1>4
<1>. QED
  BY <1>5

Error ==
  {"AuthHeaderEmpty", "SignatureVersionNotSupported", "MissingFields",
   "MissingCredTag", "CredMalformed", "InvalidAccessKeyID",
   "MalformedCredentialDate", "AuthorizationHeaderMalformed", "InvalidService",
   "InvalidRequestVersion", "MissingSignHeadersTag", "MissingSignTag",
   "UnsignedHeaders", "MissingDateHeader", "MalformedDate",
   "SignatureDoesNotMatch"}
Check == BOOLEAN \X Error

Clear(checks) == \A i \in DOMAIN checks : ~checks[i][1]
Labelled(checks) == \A i \in DOMAIN checks : checks[i][2] # "None"

LEMMA FirstErrors ==
  ASSUME NEW checks \in Seq(Check), Labelled(checks)
  PROVE  FirstError(checks) = "None" <=> Clear(checks)
<1>1. PICK failed : failed = {i \in DOMAIN checks : checks[i][1]}
  OBVIOUS
<1>2. FirstError(checks)
        = IF failed = {} THEN "None"
          ELSE checks[CHOOSE i \in failed : \A j \in failed : i <= j][2]
  BY <1>1 DEF FirstError
<1>3. failed \in SUBSET Nat
  BY <1>1
<1>4. ASSUME failed # {} PROVE FirstError(checks) # "None"
  <2>1. PICK i \in failed :
          i = (CHOOSE k \in failed : \A j \in failed : k <= j)
    BY <1>3, <1>4, Least
  <2>. QED
    BY <1>1, <1>2, <1>4, <2>1 DEF Labelled
<1>5. failed = {} <=> Clear(checks)
  BY <1>1 DEF Clear
<1>. QED
  BY <1>2, <1>4, <1>5

LEMMA Joined ==
  ASSUME NEW s \in Seq(Check), NEW t \in Seq(Check)
  PROVE  /\ s \o t \in Seq(Check)
         /\ Clear(s \o t) <=> Clear(s) /\ Clear(t)
         /\ Labelled(s) /\ Labelled(t) => Labelled(s \o t)
<1>1. /\ s \o t \in Seq(Check) /\ Len(s) \in Nat /\ Len(t) \in Nat
      /\ DOMAIN s = 1..Len(s) /\ DOMAIN t = 1..Len(t)
      /\ DOMAIN (s \o t) = 1..(Len(s) + Len(t))
      /\ \A i \in 1..(Len(s) + Len(t)) :
           (s \o t)[i] = IF i <= Len(s) THEN s[i] ELSE t[i - Len(s)]
  OBVIOUS
<1>2. ASSUME NEW i \in 1..(Len(s) + Len(t))
      PROVE  \/ i \in 1..Len(s) /\ (s \o t)[i] = s[i]
             \/ i - Len(s) \in 1..Len(t) /\ (s \o t)[i] = t[i - Len(s)]
  BY <1>1
<1>3. \A i \in 1..Len(s) : i \in 1..(Len(s) + Len(t)) /\ (s \o t)[i] = s[i]
  BY <1>1
<1>4. ASSUME NEW i \in 1..Len(t)
      PROVE  /\ i + Len(s) \in 1..(Len(s) + Len(t))
             /\ (s \o t)[i + Len(s)] = t[i]
  <2>1. /\ i + Len(s) \in 1..(Len(s) + Len(t)) /\ ~(i + Len(s) <= Len(s))
        /\ (i + Len(s)) - Len(s) = i
    BY <1>1
  <2>. QED
    BY <1>1, <2>1
<1>5. PICK u : u = s \o t
  OBVIOUS
<1>6. Clear(u) <=> Clear(s) /\ Clear(t)
  <2>1. ASSUME Clear(u) PROVE Clear(s) /\ Clear(t)
    BY <1>1, <1>3, <1>4, <1>5, <2>1 DEF Clear
  <2>2. ASSUME Clear(s), Clear(t) PROVE Clear(u)
    BY <1>1, <1>2, <1>5, <2>2 DEF Clear
  <2>. QED
    BY <2>1, <2>2
<1>7. Labelled(s) /\ Labelled(t) => Labelled(u)
  BY <1>1, <1>2, <1>5 DEF Labelled
<1>. QED
  BY <1>1, <1>5, <1>6, <1>7

LEMMA HeaderChecks ==
  ASSUME NEW auth
  PROVE  LET s == << <<"empty" \in auth.flaws, "AuthHeaderEmpty">>,
                     <<"algorithm" \in auth.flaws, "SignatureVersionNotSupported">>,
                     <<"fields" \in auth.flaws, "MissingFields">> >>
         IN /\ s \in Seq(Check) /\ Labelled(s)
            /\ Clear(s) <=> "empty" \notin auth.flaws /\
                             "algorithm" \notin auth.flaws /\
                             "fields" \notin auth.flaws
<1>1. PICK p1, p2, p3 :
        /\ p1 = ("empty" \in auth.flaws)
        /\ p2 = ("algorithm" \in auth.flaws)
        /\ p3 = ("fields" \in auth.flaws)
  OBVIOUS
<1>2. PICK s : s = << <<p1, "AuthHeaderEmpty">>,
                      <<p2, "SignatureVersionNotSupported">>,
                      <<p3, "MissingFields">> >>
  OBVIOUS
<1>3. s = << <<"empty" \in auth.flaws, "AuthHeaderEmpty">>,
            <<"algorithm" \in auth.flaws, "SignatureVersionNotSupported">>,
            <<"fields" \in auth.flaws, "MissingFields">> >>
  BY <1>1, <1>2
<1>4. /\ p1 \in BOOLEAN
      /\ p2 \in BOOLEAN
      /\ p3 \in BOOLEAN
  BY <1>1
<1>5. /\ <<p1, "AuthHeaderEmpty">> \in Check
      /\ <<p2, "SignatureVersionNotSupported">> \in Check
      /\ <<p3, "MissingFields">> \in Check
  BY <1>4 DEF Check, Error
<1>6. s \in Seq(Check) /\ DOMAIN s = 1..3
  BY <1>2, <1>5
<1>7. 1..3 = {1, 2, 3}
  OBVIOUS
<1>8. /\ s[1][1] = p1 /\ s[1][2] = "AuthHeaderEmpty"
      /\ s[2][1] = p2 /\ s[2][2] = "SignatureVersionNotSupported"
      /\ s[3][1] = p3 /\ s[3][2] = "MissingFields"
  BY <1>2
<1>9. Labelled(s)
  BY <1>6, <1>7, <1>8 DEF Labelled
<1>10. Clear(s) <=> ~p1 /\ ~p2 /\ ~p3
  BY <1>6, <1>7, <1>8 DEF Clear
<1>. QED
  BY <1>1, <1>3, <1>6, <1>9, <1>10

LEMMA CredentialChecks ==
  ASSUME NEW auth, NEW region, NEW service
  PROVE  LET s == parseCredentialHeader(auth, region, service)
         IN /\ s \in Seq(Check) /\ Labelled(s)
            /\ Clear(s) <=> "credential" \notin auth.flaws /\
                             "credentialTag" \notin auth.flaws /\
                             "scope" \notin auth.flaws /\
                             ~(KeyLength[auth.key] < 4) /\
                             "scopeDate" \notin auth.flaws /\
                             auth.region = region /\ auth.service = service /\
                             "aws4_request" \notin auth.flaws
<1>1. PICK p1, p2, p3, p4, p5, p6, p7, p8 :
        /\ p1 = ("credential" \in auth.flaws)
        /\ p2 = ("credentialTag" \in auth.flaws)
        /\ p3 = ("scope" \in auth.flaws)
        /\ p4 = (KeyLength[auth.key] < 4)
        /\ p5 = ("scopeDate" \in auth.flaws)
        /\ p6 = (auth.region # region)
        /\ p7 = (auth.service # service)
        /\ p8 = ("aws4_request" \in auth.flaws)
  OBVIOUS
<1>2. PICK s : s = << <<p1, "MissingFields">>, <<p2, "MissingCredTag">>,
                      <<p3, "CredMalformed">>, <<p4, "InvalidAccessKeyID">>,
                      <<p5, "MalformedCredentialDate">>,
                      <<p6, "AuthorizationHeaderMalformed">>,
                      <<p7, "InvalidService">>,
                      <<p8, "InvalidRequestVersion">> >>
  OBVIOUS
<1>3. s = parseCredentialHeader(auth, region, service)
  BY <1>1, <1>2 DEF parseCredentialHeader
<1>4. /\ p1 \in BOOLEAN
      /\ p2 \in BOOLEAN
      /\ p3 \in BOOLEAN
      /\ p4 \in BOOLEAN
      /\ p5 \in BOOLEAN
      /\ p6 \in BOOLEAN
      /\ p7 \in BOOLEAN
      /\ p8 \in BOOLEAN
  BY <1>1
<1>5. /\ <<p1, "MissingFields">> \in Check
      /\ <<p2, "MissingCredTag">> \in Check
      /\ <<p3, "CredMalformed">> \in Check
      /\ <<p4, "InvalidAccessKeyID">> \in Check
      /\ <<p5, "MalformedCredentialDate">> \in Check
      /\ <<p6, "AuthorizationHeaderMalformed">> \in Check
      /\ <<p7, "InvalidService">> \in Check
      /\ <<p8, "InvalidRequestVersion">> \in Check
  BY <1>4 DEF Check, Error
<1>6. s \in Seq(Check) /\ DOMAIN s = 1..8
  BY <1>2, <1>5
<1>7. 1..8 = {1, 2, 3, 4, 5, 6, 7, 8}
  OBVIOUS
<1>8. /\ s[1][1] = p1 /\ s[1][2] = "MissingFields"
      /\ s[2][1] = p2 /\ s[2][2] = "MissingCredTag"
      /\ s[3][1] = p3 /\ s[3][2] = "CredMalformed"
      /\ s[4][1] = p4 /\ s[4][2] = "InvalidAccessKeyID"
      /\ s[5][1] = p5 /\ s[5][2] = "MalformedCredentialDate"
      /\ s[6][1] = p6 /\ s[6][2] = "AuthorizationHeaderMalformed"
      /\ s[7][1] = p7 /\ s[7][2] = "InvalidService"
      /\ s[8][1] = p8 /\ s[8][2] = "InvalidRequestVersion"
  BY <1>2
<1>9. Labelled(s)
  BY <1>6, <1>7, <1>8 DEF Labelled
<1>10. Clear(s) <=> ~p1 /\ ~p2 /\ ~p3 /\ ~p4 /\ ~p5 /\ ~p6 /\ ~p7 /\ ~p8
  BY <1>6, <1>7, <1>8 DEF Clear
<1>. QED
  BY <1>1, <1>3, <1>6, <1>9, <1>10

LEMMA ListedChecks ==
  ASSUME NEW auth
  PROVE  LET s == parseSignedHeader(auth)
         IN /\ s \in Seq(Check) /\ Labelled(s)
            /\ Clear(s) <=> "headers" \notin auth.flaws /\
                             "headersTag" \notin auth.flaws
<1>1. PICK p1, p2 :
        /\ p1 = ("headers" \in auth.flaws)
        /\ p2 = ("headersTag" \in auth.flaws)
  OBVIOUS
<1>2. PICK s : s = << <<p1, "MissingFields">>,
                      <<p2, "MissingSignHeadersTag">> >>
  OBVIOUS
<1>3. s = parseSignedHeader(auth)
  BY <1>1, <1>2 DEF parseSignedHeader
<1>4. /\ p1 \in BOOLEAN
      /\ p2 \in BOOLEAN
  BY <1>1
<1>5. /\ <<p1, "MissingFields">> \in Check
      /\ <<p2, "MissingSignHeadersTag">> \in Check
  BY <1>4 DEF Check, Error
<1>6. s \in Seq(Check) /\ DOMAIN s = 1..2
  BY <1>2, <1>5
<1>7. 1..2 = {1, 2}
  OBVIOUS
<1>8. /\ s[1][1] = p1 /\ s[1][2] = "MissingFields"
      /\ s[2][1] = p2 /\ s[2][2] = "MissingSignHeadersTag"
  BY <1>2
<1>9. Labelled(s)
  BY <1>6, <1>7, <1>8 DEF Labelled
<1>10. Clear(s) <=> ~p1 /\ ~p2
  BY <1>6, <1>7, <1>8 DEF Clear
<1>. QED
  BY <1>1, <1>3, <1>6, <1>9, <1>10

LEMMA SignatureChecks ==
  ASSUME NEW auth
  PROVE  LET s == parseSignature(auth)
         IN /\ s \in Seq(Check) /\ Labelled(s)
            /\ Clear(s) <=> "signatureTag" \notin auth.flaws /\
                             "signature" \notin auth.flaws
<1>1. PICK p1, p2 :
        /\ p1 = ("signatureTag" \in auth.flaws)
        /\ p2 = ("signature" \in auth.flaws)
  OBVIOUS
<1>2. PICK s : s = << <<p1, "MissingSignTag">>, <<p2, "MissingFields">> >>
  OBVIOUS
<1>3. s = parseSignature(auth)
  BY <1>1, <1>2 DEF parseSignature
<1>4. /\ p1 \in BOOLEAN
      /\ p2 \in BOOLEAN
  BY <1>1
<1>5. /\ <<p1, "MissingSignTag">> \in Check
      /\ <<p2, "MissingFields">> \in Check
  BY <1>4 DEF Check, Error
<1>6. s \in Seq(Check) /\ DOMAIN s = 1..2
  BY <1>2, <1>5
<1>7. 1..2 = {1, 2}
  OBVIOUS
<1>8. /\ s[1][1] = p1 /\ s[1][2] = "MissingSignTag"
      /\ s[2][1] = p2 /\ s[2][2] = "MissingFields"
  BY <1>2
<1>9. Labelled(s)
  BY <1>6, <1>7, <1>8 DEF Labelled
<1>10. Clear(s) <=> ~p1 /\ ~p2
  BY <1>6, <1>7, <1>8 DEF Clear
<1>. QED
  BY <1>1, <1>3, <1>6, <1>9, <1>10

LEMMA Parsed ==
  ASSUME NEW auth, NEW region, NEW service, auth.key \in DOMAIN KeyLength,
         "password" \notin DOMAIN auth
  PROVE  parseSignV4(auth, region, service) = "None" <=>
           /\ auth.flaws \cap
                {"empty", "algorithm", "fields", "credential", "credentialTag",
                 "scope", "scopeDate", "aws4_request", "headers", "headersTag",
                 "signatureTag", "signature"} = {}
           /\ KeyLength[auth.key] >= 4
           /\ auth.region = region /\ auth.service = service
<1>1. PICK a : a = << <<"empty" \in auth.flaws, "AuthHeaderEmpty">>,
                      <<"algorithm" \in auth.flaws, "SignatureVersionNotSupported">>,
                      <<"fields" \in auth.flaws, "MissingFields">> >>
  OBVIOUS
<1>2. /\ a \in Seq(Check) /\ Labelled(a)
      /\ Clear(a) <=> /\ "empty" \notin auth.flaws /\ "algorithm" \notin auth.flaws
                      /\ "fields" \notin auth.flaws
  BY <1>1, HeaderChecks
<1>3. PICK b : b = parseCredentialHeader(auth, region, service)
  OBVIOUS
<1>4. /\ b \in Seq(Check) /\ Labelled(b)
      /\ Clear(b) <=>
           /\ "credential" \notin auth.flaws /\ "credentialTag" \notin auth.flaws
           /\ "scope" \notin auth.flaws /\ ~(KeyLength[auth.key] < 4)
           /\ "scopeDate" \notin auth.flaws /\ auth.region = region
           /\ auth.service = service /\ "aws4_request" \notin auth.flaws
  BY <1>3, CredentialChecks
<1>5. PICK c, d : c = parseSignedHeader(auth) /\ d = parseSignature(auth)
  OBVIOUS
<1>6. /\ c \in Seq(Check) /\ Labelled(c)
      /\ Clear(c) <=> "headers" \notin auth.flaws /\ "headersTag" \notin auth.flaws
  BY <1>5, ListedChecks
<1>7. /\ d \in Seq(Check) /\ Labelled(d)
      /\ Clear(d) <=> "signatureTag" \notin auth.flaws /\ "signature" \notin auth.flaws
  BY <1>5, SignatureChecks
<1>8. /\ a \o b \o c \o d \in Seq(Check) /\ Labelled(a \o b \o c \o d)
      /\ Clear(a \o b \o c \o d) <=> Clear(a) /\ Clear(b) /\ Clear(c) /\ Clear(d)
  <2>1. /\ a \o b \in Seq(Check) /\ Labelled(a \o b)
        /\ Clear(a \o b) <=> Clear(a) /\ Clear(b)
    BY <1>2, <1>4, Joined
  <2>2. /\ a \o b \o c \in Seq(Check) /\ Labelled(a \o b \o c)
        /\ Clear(a \o b \o c) <=> Clear(a \o b) /\ Clear(c)
    BY <1>6, <2>1, Joined
  <2>. QED
    BY <1>7, <2>1, <2>2, Joined
<1>9. parseSignV4(auth, region, service) = FirstError(a \o b \o c \o d)
  BY <1>1, <1>3, <1>5 DEF parseSignV4
<1>10. PICK all : all = a \o b \o c \o d
  OBVIOUS
<1>11. parseSignV4(auth, region, service) = "None" <=>
         Clear(a) /\ Clear(b) /\ Clear(c) /\ Clear(d)
  BY <1>8, <1>9, <1>10, FirstErrors
<1>12. KeyLength[auth.key] \in Nat
  BY V4SigAssumption
<1>13. ~(KeyLength[auth.key] < 4) <=> KeyLength[auth.key] >= 4
  BY <1>12
<1>. QED
  BY <1>2, <1>4, <1>6, <1>7, <1>11, <1>13

(* The checks of a request with an Authorization header that can be read.  *)
Last(headers, found, date, signature, signatures) ==
  << <<headers = Unsigned, "UnsignedHeaders">>,
     <<found = {}, "InvalidAccessKeyID">>,
     <<date = NoDate, "MissingDateHeader">>,
     <<date # NoDate /\ date.format # "iso8601", "MalformedDate">>,
     <<date # NoDate /\ signature \notin signatures, "SignatureDoesNotMatch">> >>

LEMMA LastChecks ==
  ASSUME NEW headers, NEW found, NEW date, NEW signature,
         NEW signatures
  PROVE  LET s == Last(headers, found, date, signature, signatures)
         IN /\ s \in Seq(Check) /\ Labelled(s)
            /\ Clear(s) <=> headers # Unsigned /\ found # {} /\
                             date # NoDate /\ date.format = "iso8601" /\
                             signature \in signatures
<1>1. PICK p1, p2, p3, p4, p5 :
        /\ p1 = (headers = Unsigned)
        /\ p2 = (found = {})
        /\ p3 = (date = NoDate)
        /\ p4 = (date # NoDate /\ date.format # "iso8601")
        /\ p5 = (date # NoDate /\ signature \notin signatures)
  OBVIOUS
<1>2. PICK s : s = << <<p1, "UnsignedHeaders">>, <<p2, "InvalidAccessKeyID">>,
                      <<p3, "MissingDateHeader">>, <<p4, "MalformedDate">>,
                      <<p5, "SignatureDoesNotMatch">> >>
  OBVIOUS
<1>3. s = Last(headers, found, date, signature, signatures)
  BY <1>1, <1>2 DEF Last
<1>4. /\ p1 \in BOOLEAN
      /\ p2 \in BOOLEAN
      /\ p3 \in BOOLEAN
      /\ p4 \in BOOLEAN
      /\ p5 \in BOOLEAN
  BY <1>1
<1>5. /\ <<p1, "UnsignedHeaders">> \in Check
      /\ <<p2, "InvalidAccessKeyID">> \in Check
      /\ <<p3, "MissingDateHeader">> \in Check
      /\ <<p4, "MalformedDate">> \in Check
      /\ <<p5, "SignatureDoesNotMatch">> \in Check
  BY <1>4 DEF Check, Error
<1>6. s \in Seq(Check) /\ DOMAIN s = 1..5
  BY <1>2, <1>5
<1>7. 1..5 = {1, 2, 3, 4, 5}
  OBVIOUS
<1>8. /\ s[1][1] = p1 /\ s[1][2] = "UnsignedHeaders"
      /\ s[2][1] = p2 /\ s[2][2] = "InvalidAccessKeyID"
      /\ s[3][1] = p3 /\ s[3][2] = "MissingDateHeader"
      /\ s[4][1] = p4 /\ s[4][2] = "MalformedDate"
      /\ s[5][1] = p5 /\ s[5][2] = "SignatureDoesNotMatch"
  BY <1>2
<1>9. Labelled(s)
  BY <1>6, <1>7, <1>8 DEF Labelled
<1>10. Clear(s) <=> ~p1 /\ ~p2 /\ ~p3 /\ ~p4 /\ ~p5
  BY <1>6, <1>7, <1>8 DEF Clear
<1>. QED
  BY <1>1, <1>3, <1>6, <1>9, <1>10

Canonical(request) ==
  getCanonicalRequest(extractSignedHeaders(request.auth.listed, request),
                      ReadPayload(request.body), QueryOf(request), request)

(* What it takes for a signed request to go on.                            *)
LEMMA Accepted ==
  ASSUME NEW request, NEW file, NEW service
  PROVE  checkV4Sig(request, file, service) = "None" <=>
           /\ parseSignV4(request.auth, file.region, service) = "None"
           /\ extractSignedHeaders(request.auth.listed, request) # Unsigned
           /\ DateOf(request) # NoDate /\ DateOf(request).format = "iso8601"
           /\ \E secret \in FindCredentials(file.credentials, request.auth.key) :
                request.auth.signature =
                  getSignature(secret, request.auth, service,
                               DateOf(request).time, Canonical(request))
<1>1. PICK malformed, headers, date, found, signatures :
        /\ malformed = parseSignV4(request.auth, file.region, service)
        /\ headers = extractSignedHeaders(request.auth.listed, request)
        /\ date = DateOf(request)
        /\ found = FindCredentials(file.credentials, request.auth.key)
        /\ signatures = {getSignature(secret, request.auth, service, date.time,
                                      Canonical(request)) : secret \in found}
  OBVIOUS
<1>. DEFINE checks ==
       Last(headers, found, date, request.auth.signature, signatures)
<1>2. checkV4Sig(request, file, service)
        = IF malformed # "None" THEN malformed ELSE FirstError(checks)
  BY <1>1 DEF checkV4Sig, Canonical, Last
<1>3. /\ checks \in Seq(Check) /\ Labelled(checks)
      /\ Clear(checks) <=>
           /\ headers # Unsigned /\ found # {} /\ date # NoDate
           /\ date.format = "iso8601" /\ request.auth.signature \in signatures
  BY LastChecks
<1>. HIDE DEF checks
<1>4. FirstError(checks) = "None" <=> Clear(checks)
  BY <1>3, FirstErrors
<1>5. found # {} /\ request.auth.signature \in signatures <=>
        \E secret \in found :
          request.auth.signature = getSignature(secret, request.auth, service,
                                                date.time, Canonical(request))
  BY <1>1
<1>. QED
  BY <1>1, <1>2, <1>3, <1>4, <1>5

-----------------------------------------------------------------------------
(* Who passes.                                                             *)

LEMMA Secrets ==
  ASSUME NEW file \in File, NEW key, NEW secret
  PROVE  secret \in FindCredentials(file.credentials, key) <=> Knows(file, key, secret)
<1>1. PICK entries, found :
        entries = file.credentials /\ found = {i \in DOMAIN entries : entries[i].key = key}
  OBVIOUS
<1>2. PICK n \in Nat : DOMAIN entries = 1..n
  <2>1. PICK S : entries \in Seq(S)
    BY <1>1, ServerAssumption
  <2>2. DOMAIN entries = 1..Len(entries) /\ Len(entries) \in Nat
    BY <2>1
  <2>. QED
    BY <2>2
<1>3. CASE found = {}
  BY <1>1, <1>3 DEF FindCredentials, Knows
<1>4. CASE found # {}
  <2>1. PICK i \in found : \A j \in found : j <= i
    BY <1>1, <1>2, <1>4, Greatest
  <2>2. \A k \in found : (\A j \in found : j <= k) => k = i
    <3>1. \A k \in found : k \in Nat
      BY <1>1, <1>2
    <3>. QED
      BY <2>1, <3>1
  <2>3. (CHOOSE k \in found : \A j \in found : j <= k) = i
    BY <2>1, <2>2
  <2>4. FindCredentials(entries, key) = {entries[i].secret}
    BY <1>1, <1>4, <2>3 DEF FindCredentials
  <2>5. Knows(file, key, secret) <=> entries[i].secret = secret
    BY <1>1, <1>4, <2>1, <2>2 DEF Knows
  <2>. QED
    BY <1>1, <2>4, <2>5
<1>. QED
  BY <1>3, <1>4

LEMMA Signs ==
  ASSUME NEW ask \in Ask, ~HasPassword(ask)
  PROVE  LET r == ask.request
         IN /\ "host" \in r.auth.listed /\ r.auth.listed \subseteq DOMAIN r.headers
            /\ \A h \in DOMAIN r.headers \cap Stripped : r.headers[h] = Fallback(r)[h]
            /\ DateOf(r) # NoDate /\ DateOf(r).format = "iso8601"
<1>1. PICK r, a : r = ask.request /\ a = r.auth
  OBVIOUS
<1>2. a # [flaws |-> {}, key |-> a.key, password |-> ask.secret]
  <2>1. "password" \notin DOMAIN a
    BY <1>1 DEF HasPassword
  <2>. QED
    BY <2>1
<1>. QED
  BY <1>1, <1>2, AskAssumption

(* What the server knows of the Authorization header.                      *)
LEMMA KeyOnWire ==
  ASSUME NEW ask \in Ask, NEW wire \in OnTheWay(ask)
  PROVE  /\ wire.auth.key = ask.request.auth.key
         /\ wire.auth.key \in DOMAIN KeyLength
         /\ "password" \in DOMAIN wire.auth <=> HasPassword(ask)
         /\ ~HasPassword(ask) =>
              /\ wire.auth.listed = ask.request.auth.listed
              /\ wire.auth.region = ask.request.auth.region
              /\ wire.auth.service = ask.request.auth.service
<1>1. SameAuth(wire.auth, ask)
  BY OnWire
<1>2. ask.request.auth.key \in DOMAIN KeyLength
  BY AskAssumption
<1>. QED
  BY <1>1, <1>2 DEF SameAuth

(* A signature that fits says what was signed.                             *)
LEMMA SignatureFits ==
  ASSUME NEW ask \in Ask, NEW wire \in OnTheWay(ask), NEW secret, NEW service,
         ~HasPassword(ask),
         wire.auth.signature = getSignature(secret, wire.auth, service,
                                            DateOf(wire).time, Canonical(wire))
  PROVE  LET r == ask.request
         IN /\ secret = ask.secret /\ service = r.auth.service
            /\ wire.method = r.method /\ wire.path = r.path
            /\ QueryOf(wire) = r.query /\ wire.body = r.body
            /\ extractSignedHeaders(r.auth.listed, wire) = ListedOf(r)
<1>1. PICK r : r = ask.request
  OBVIOUS
<1>2. wire.auth.signature = SignatureOf(ask) /\ wire.auth.listed = r.auth.listed
  BY <1>1, OnWire DEF SameAuth
<1>3. PICK headers : headers = ListedOf(r)
  OBVIOUS
<1>4. PICK canonical, signed :
        /\ canonical = Canonical(wire)
        /\ signed = [method |-> r.method, path |-> r.path, query |-> r.query,
                     headers |-> headers, payload |-> r.body]
  OBVIOUS
<1>5. secret = ask.secret /\ service = r.auth.service /\ canonical = signed
  <2>1. SignatureOf(ask)
          = [secret |-> ask.secret, day |-> r.auth.day, region |-> r.auth.region,
             service |-> r.auth.service, time |-> DateOf(r).time, request |-> signed]
    BY <1>1, <1>3, <1>4 DEF SignatureOf
  <2>2. SignatureOf(ask)
          = [secret |-> secret, day |-> wire.auth.day, region |-> wire.auth.region,
             service |-> service, time |-> DateOf(wire).time, request |-> canonical]
    BY <1>2, <1>4 DEF getSignature
  <2>. QED
    BY <2>1, <2>2
<1>6. /\ wire.method = r.method /\ wire.path = r.path /\ QueryOf(wire) = r.query
      /\ extractSignedHeaders(r.auth.listed, wire) = headers
      /\ ReadPayload(wire.body) = r.body
  <2>1. canonical = [method |-> wire.method, path |-> wire.path,
                     query |-> QueryOf(wire),
                     headers |-> extractSignedHeaders(r.auth.listed, wire),
                     payload |-> ReadPayload(wire.body)]
    BY <1>2, <1>4 DEF Canonical, getCanonicalRequest
  <2>. QED
    BY <1>4, <1>5, <2>1
<1>7. wire.body = r.body
  <2>1. r.body = [readable |-> r.body.readable, valid |-> r.body.valid,
                  kind |-> r.body.kind, action |-> r.body.action,
                  overwrite |-> r.body.overwrite, bare |-> r.body.bare]
    BY <1>1, AskAssumption
  <2>2. "readable" \in DOMAIN r.body
    BY <2>1
  <2>3. r.body # [cut |-> wire.body]
    BY <2>2
  <2>. QED
    BY <1>6, <2>3 DEF ReadPayload
<1>. QED
  BY <1>1, <1>3, <1>5, <1>6, <1>7

LEMMA GuardOf ==
  ASSUME NEW wire, NEW file
  PROVE  LET guard == RouteOf(wire).guard
         IN /\ guard = "none" => Guard(wire, file) = "None"
            /\ guard = "basic" => Guard(wire, file) = WithBasicAuth(wire, file)
            /\ guard \notin {"none", "basic"} =>
                 Guard(wire, file) = checkV4Sig(wire, file, guard)
BY DEF Guard

LEMMA PasswordPasses ==
  ASSUME NEW ask \in Ask, NEW wire \in OnTheWay(ask), NEW file \in File
  PROVE  WithBasicAuth(wire, file) = "None" <=>
           /\ HasPassword(ask) /\ wire.auth.flaws = {}
           /\ Knows(file, ask.request.auth.key, ask.secret)
<1>1. /\ wire.auth.key = ask.request.auth.key
      /\ "password" \in DOMAIN wire.auth <=> HasPassword(ask)
      /\ HasPassword(ask) => wire.auth.password = ask.secret
  BY OnWire DEF SameAuth
<1>. QED
  BY <1>1, Secrets DEF WithBasicAuth

(* What passes the check of a signature is, in all it covers, what was     *)
(* sent by someone who has the secret.                                     *)
LEMMA SignaturePasses ==
  ASSUME NEW ask \in Ask, NEW wire \in OnTheWay(ask), NEW file \in File,
         NEW service, checkV4Sig(wire, file, service) = "None"
  PROVE  LET r == ask.request
         IN /\ ~HasPassword(ask)
            /\ Knows(file, r.auth.key, ask.secret)
            /\ wire.method = r.method /\ wire.path = r.path
            /\ QueryOf(wire) = r.query /\ wire.body = r.body
            /\ \A h \in r.auth.listed :
                 /\ h \in DOMAIN wire.headers \cup DOMAIN Fallback(wire)
                 /\ Sees(wire, h) = r.headers[h]
<1>1. PICK r, listed : r = ask.request /\ listed = r.auth.listed
  OBVIOUS
<1>2. PICK secret \in FindCredentials(file.credentials, wire.auth.key) :
        /\ parseSignV4(wire.auth, file.region, service) = "None"
        /\ extractSignedHeaders(wire.auth.listed, wire) # Unsigned
        /\ wire.auth.signature = getSignature(secret, wire.auth, service,
                                              DateOf(wire).time, Canonical(wire))
  BY Accepted
<1>3. ~HasPassword(ask)
  BY <1>2, KeyOnWire DEF parseSignV4
<1>4. /\ secret = ask.secret
      /\ wire.method = r.method /\ wire.path = r.path
      /\ QueryOf(wire) = r.query /\ wire.body = r.body
      /\ extractSignedHeaders(listed, wire) = ListedOf(r)
  <2>1. wire.auth.signature = getSignature(secret, wire.auth, service,
                                           DateOf(wire).time, Canonical(wire))
    BY <1>2
  <2>2. /\ secret = ask.secret
        /\ wire.method = ask.request.method /\ wire.path = ask.request.path
        /\ QueryOf(wire) = ask.request.query /\ wire.body = ask.request.body
        /\ extractSignedHeaders(ask.request.auth.listed, wire) = ListedOf(ask.request)
    BY <1>3, <2>1, SignatureFits
  <2>. QED
    BY <1>1, <2>2
<1>5. Knows(file, r.auth.key, ask.secret)
  BY <1>1, <1>2, <1>4, KeyOnWire, Secrets
<1>6. ASSUME NEW h \in listed
      PROVE  /\ h \in DOMAIN wire.headers \cup DOMAIN Fallback(wire)
             /\ Sees(wire, h) = r.headers[h]
  <2>1. listed \subseteq DOMAIN r.headers
    BY <1>1, <1>3, Signs
  <2>2. extractSignedHeaders(listed, wire) # Unsigned
    BY <1>1, <1>2, <1>3, KeyOnWire
  <2>3. /\ h \in DOMAIN wire.headers \cup DOMAIN Fallback(wire)
        /\ extractSignedHeaders(listed, wire) = [k \in listed |-> Sees(wire, k)]
    BY <2>2 DEF extractSignedHeaders, Sees
  <2>. QED
    BY <1>1, <1>4, <2>1, <2>3 DEF ListedOf
<1>. QED
  BY <1>1, <1>3, <1>4, <1>5, <1>6

(* What the server takes the signature of, if nothing happens on the way.  *)
LEMMA HeadersBack ==
  ASSUME NEW ask \in Ask, NEW wire, wire = Arrived(Prepared(ask)),
         ~HasPassword(ask)
  PROVE  LET r == ask.request
             headers == extractSignedHeaders(r.auth.listed, wire)
         IN /\ headers = ListedOf(r) /\ headers # Unsigned
            /\ DateOf(wire) = DateOf(r)
<1>1. PICK r, listed : r = ask.request /\ listed = r.auth.listed
  OBVIOUS
<1>2. PICK auth : wire = Message(r, Kept(r), r.body, auth)
  BY <1>1, Unharmed
<1>3. /\ wire.headers = Kept(r) /\ wire.host = r.host
      /\ wire.encoding = r.encoding /\ wire.length = r.length
  BY <1>2, Messages
<1>4. Fallback(wire) = Fallback(r)
  BY <1>3 DEF Fallback
<1>5. /\ "host" \in listed /\ listed \subseteq DOMAIN r.headers
      /\ \A h \in DOMAIN r.headers \cap Stripped : r.headers[h] = Fallback(r)[h]
  BY <1>1, Signs
<1>6. Stripped \subseteq DOMAIN Fallback(r)
  BY V4SigAssumption DEF Fallback
<1>7. \A h \in listed :
        /\ h \in DOMAIN wire.headers => wire.headers[h] = r.headers[h]
        /\ h \notin DOMAIN wire.headers =>
             h \in DOMAIN Fallback(wire) /\ Fallback(wire)[h] = r.headers[h]
  BY <1>3, <1>4, <1>5, <1>6 DEF Kept
<1>8. extractSignedHeaders(listed, wire) = [h \in listed |-> r.headers[h]]
  BY <1>5, <1>7 DEF extractSignedHeaders
<1>9. ListedOf(r) = [h \in listed |-> r.headers[h]]
  <2>1. listed \cap DOMAIN r.headers = listed
    BY <1>5
  <2>. QED
    BY <1>1, <2>1 DEF ListedOf
<1>10. [h \in listed |-> r.headers[h]] # Unsigned
  <2>1. DOMAIN Unsigned = {"unsigned"}
    BY DEF Unsigned
  <2>. QED
    BY <1>5, <2>1
<1>11. DateOf(wire) = DateOf(r)
  <2>1. "x-amz-date" \notin Stripped /\ "date" \notin Stripped
    BY V4SigAssumption
  <2>. QED
    BY <1>3, <2>1 DEF DateOf, Header, Kept
<1>. QED
  BY <1>1, <1>8, <1>9, <1>10, <1>11

(* And what it takes for it to pass.                                       *)
LEMMA UnharmedPasses ==
  ASSUME NEW ask \in Ask, NEW wire, wire = Arrived(Prepared(ask)),
         NEW file \in File, NEW service, ~HasPassword(ask),
         Knows(file, ask.request.auth.key, ask.secret),
         ask.request.auth.service = service,
         ask.request.auth.region = file.region, ~Unreadable(ask)
  PROVE  checkV4Sig(wire, file, service) = "None"
<1>1. PICK r : r = ask.request
  OBVIOUS
<1>2. PICK auth : /\ wire = Message(r, Kept(r), r.body, auth)
                  /\ SameAuth(auth, ask) /\ auth.flaws = {}
  BY <1>1, Unharmed
<1>3. /\ wire.method = r.method /\ wire.path = r.path /\ wire.query = r.query
      /\ wire.body = r.body /\ wire.auth = auth
  BY <1>2, Messages
<1>4. /\ auth.key = r.auth.key /\ "password" \notin DOMAIN auth
      /\ auth.day = r.auth.day /\ auth.region = r.auth.region
      /\ auth.service = r.auth.service
      /\ auth.listed = r.auth.listed /\ auth.signature = SignatureOf(ask)
  BY <1>1, <1>2 DEF SameAuth
<1>5. auth.key \in DOMAIN KeyLength
  BY <1>1, <1>4, AskAssumption
<1>6. parseSignV4(auth, file.region, service) = "None"
  <2>1. KeyLength[r.auth.key] >= 4
    <3>1. PICK n \in Nat : n = KeyLength[r.auth.key]
      BY <1>4, <1>5, V4SigAssumption
    <3>2. ~(n < 4)
      BY <1>1, <3>1 DEF Unreadable
    <3>. QED
      BY <3>1, <3>2
  <2>. QED
    BY <1>1, <1>2, <1>4, <1>5, <2>1, Parsed
<1>7. PICK headers, time :
        headers = ListedOf(r) /\ time = DateOf(r).time
  OBVIOUS
<1>8. /\ extractSignedHeaders(r.auth.listed, wire) = headers
      /\ headers # Unsigned /\ DateOf(wire) = DateOf(r)
  BY <1>1, <1>7, HeadersBack
<1>9. Canonical(wire) = [method |-> r.method, path |-> r.path, query |-> r.query,
                         headers |-> headers, payload |-> r.body]
  <2>1. QueryOf(wire) = r.query /\ ReadPayload(wire.body) = r.body
    BY <1>1, <1>3 DEF Unreadable, QueryOf, ReadPayload
  <2>. QED
    BY <1>3, <1>4, <1>8, <2>1 DEF Canonical, getCanonicalRequest
<1>10. auth.signature = getSignature(ask.secret, auth, service, DateOf(wire).time,
                                     Canonical(wire))
  BY <1>1, <1>4, <1>7, <1>8, <1>9 DEF SignatureOf, getSignature
<1>11. ask.secret \in FindCredentials(file.credentials, auth.key)
  BY <1>1, <1>4, Secrets
<1>12. DateOf(wire) # NoDate /\ DateOf(wire).format = "iso8601"
  BY <1>1, <1>8, Signs
<1>. QED
  BY <1>3, <1>4, <1>6, <1>8, <1>10, <1>11, <1>12, Accepted

LEMMA Refuses ==
  ASSUME NEW ask \in Ask, NEW wire \in OnTheWay(ask), NEW file \in File,
         Guard(wire, file) # "None"
  PROVE  LET guard == RouteOf(wire).guard
         IN \/ ~Knows(file, ask.request.auth.key, ask.secret)
            \/ (guard = "basic") # HasPassword(ask)
            \/ guard = "basic" /\ wire.auth.flaws # {}
            \/ guard # "basic"
                 /\ \/ wire # Arrived(Prepared(ask))
                    \/ ask.request.auth.service # guard
                    \/ ask.request.auth.region # file.region
                    \/ Unreadable(ask)
<1>1. PICK guard : guard = RouteOf(wire).guard
  OBVIOUS
<1>2. guard # "none"
  BY <1>1, GuardOf
<1>3. CASE guard = "basic"
  <2>1. WithBasicAuth(wire, file) # "None"
    BY <1>1, <1>3, GuardOf
  <2>2. \/ ~HasPassword(ask) \/ wire.auth.flaws # {}
        \/ ~Knows(file, ask.request.auth.key, ask.secret)
    BY <2>1, PasswordPasses
  <2>3. ~HasPassword(ask) => (guard = "basic") # HasPassword(ask)
    BY <1>3 DEF HasPassword
  <2>. QED
    BY <1>1, <1>3, <2>2, <2>3
<1>4. CASE guard # "basic"
  <2>1. checkV4Sig(wire, file, guard) # "None"
    BY <1>1, <1>2, <1>4, GuardOf
  <2>2. HasPassword(ask) => (guard = "basic") # HasPassword(ask)
    BY <1>4 DEF HasPassword
  <2>. QED
    BY <1>1, <1>4, <2>1, <2>2, UnharmedPasses
<1>. QED
  BY <1>3, <1>4

-----------------------------------------------------------------------------
(* The handlers again: what is to be changed and is no error is written,   *)
(* and is then as it was wanted.                                           *)

Done(request, answer) ==
  answer.error = "None" => answer.wrote /\ AsWanted(request, answer.store)

LEMMA AnswersDone ==
  ASSUME NEW request, NEW now
  PROVE  /\ \A error : error # "None" => Done(request, Refuse(error, now))
         /\ AsWanted(request, now) => Done(request, Write(now))
BY DEF Done, Refuse, Write, Answer

LEMMA ChecksDone ==
  ASSUME NEW now, NEW request, NEW body, NEW answer
  PROVE  /\ Done(request, answer) => Done(request, Decoded(body, now, answer))
         /\ Done(request, answer) => Done(request, Named(body, now, answer))
         /\ Done(request, answer) /\ body.kind = "Parameter"
              => Done(request, Tagged(body, now, answer))
         /\ (now.zone # "none" => Done(request, answer))
              => /\ Done(request, InZone(request, now, answer))
                 /\ Done(request, TaggedZone(request, now, answer))
<1>1. Done(request, answer) => Done(request, Named(body, now, answer))
  BY AnswersDone DEF Named
<1>2. (now.zone # "none" => Done(request, answer))
        => Done(request, InZone(request, now, answer))
  BY AnswersDone DEF InZone
<1>. QED
  BY <1>1, <1>2, AnswersDone DEF Decoded, Tagged, TaggedZone

LEMMA SsmWants ==
  ASSUME NEW now, NEW request, RouteOf(request).handler = "Ssm"
  PROVE  LET target == Header(request, "x-amz-target")
         IN /\ target = "PutParameter" =>
                 (AsWanted(request, now) <=> now.param \in {"plain", "tagged"})
            /\ target = "AddTagsToResource" =>
                 (AsWanted(request, now) <=> now.param = "tagged")
            /\ target = "RemoveTagsFromResource" =>
                 (AsWanted(request, now) <=> now.param = "plain")
            /\ target \in {"DeleteParameter", "DeleteParameters"} =>
                 (AsWanted(request, now) <=> now.param = "none")
BY DEF AsWanted

LEMMA SsmDone ==
  ASSUME NEW now \in Store, NEW request, Changes(request),
         RouteOf(request).handler = "Ssm"
  PROVE  Done(request, SsmHandle(request, now))
<1>. DEFINE body == request.body
            target == Header(request, "x-amz-target")
            handlers == SsmHandlers(body, now)
<1>1. \/ target \in {"PutParameter", "DeleteParameter"}
      \/ target = "DeleteParameters" /\ body.valid
      \/ /\ target \in {"AddTagsToResource", "RemoveTagsFromResource"}
         /\ body.kind = "Parameter" /\ ~body.bare
  BY DEF Changes
<1>2. \A p : [now EXCEPT !.param = p].param = p
  BY DEF Store
<1>3. CASE target = "PutParameter"
  <2>1. AsWanted(request, Put(now))
    BY <1>3, PutIn, SsmWants
  <2>2. Done(request, putParameter(body, now))
    BY <2>1, AnswersDone DEF putParameter
  <2>3. handlers[target] = putParameter(body, now) /\ target \in DOMAIN handlers
    BY <1>3 DEF SsmHandlers
  <2>. HIDE DEF handlers
  <2>. QED
    BY <2>2, <2>3, ChecksDone DEF SsmHandle, handlers
<1>4. CASE target = "DeleteParameter"
  <2>1. AsWanted(request, [now EXCEPT !.param = "none"])
    BY <1>2, <1>4, SsmWants
  <2>2. Done(request, deleteParameter(body, now))
    BY <2>1, AnswersDone DEF deleteParameter
  <2>3. handlers[target] = deleteParameter(body, now) /\ target \in DOMAIN handlers
    BY <1>4 DEF SsmHandlers
  <2>. HIDE DEF handlers
  <2>. QED
    BY <2>2, <2>3, ChecksDone DEF SsmHandle, handlers
<1>5. CASE target = "DeleteParameters"
  <2>1. AsWanted(request, [now EXCEPT !.param = "none"])
    BY <1>2, <1>5, SsmWants
  <2>2. Done(request, deleteParameters(body, now))
    BY <1>1, <1>5, <2>1, AnswersDone DEF deleteParameters
  <2>3. handlers[target] = deleteParameters(body, now) /\ target \in DOMAIN handlers
    BY <1>5 DEF SsmHandlers
  <2>. HIDE DEF handlers
  <2>. QED
    BY <2>2, <2>3, ChecksDone DEF SsmHandle, handlers
<1>6. CASE target \in {"AddTagsToResource", "RemoveTagsFromResource"}
  <2>1. PICK p : p = IF target = "AddTagsToResource" THEN "tagged" ELSE "plain"
    OBVIOUS
  <2>2. AsWanted(request, [now EXCEPT !.param = p])
    BY <1>2, <1>6, <2>1, SsmWants
  <2>3. Done(request, Retagged(body, now, p))
    <3>1. body.kind = "Parameter" /\ ~body.bare
      BY <1>1, <1>6
    <3>2. Retagged(body, now, p)
            = Tagged(body, now, Write([now EXCEPT !.param = p]))
      BY <3>1 DEF Retagged
    <3>. QED
      BY <2>2, <3>1, <3>2, AnswersDone, ChecksDone
  <2>4. handlers[target] = Retagged(body, now, p) /\ target \in DOMAIN handlers
    BY <1>6, <2>1 DEF SsmHandlers
  <2>. HIDE DEF handlers
  <2>. QED
    BY <2>3, <2>4, ChecksDone DEF SsmHandle, handlers
<1>. QED
  BY <1>1, <1>3, <1>4, <1>5, <1>6

Edits ==
  {"ChangeResourceRecordSets", "ChangeTagsForResource", "CreateHostedZone",
   "DeleteHostedZone", "UpdateHostedZoneComment"}

LEMMA ZoneWants ==
  ASSUME NEW now, NEW request, RouteOf(request).handler \in Edits
  PROVE  LET handler == RouteOf(request).handler
         IN /\ handler = "ChangeResourceRecordSets" =>
                 (AsWanted(request, now) <=>
                    now.zone = IF request.body.action = "DELETE" THEN "apex" ELSE "full")
            /\ handler = "DeleteHostedZone" =>
                 (AsWanted(request, now) <=> now.zone = "none")
            /\ handler \notin {"ChangeResourceRecordSets", "DeleteHostedZone"} =>
                 (AsWanted(request, now) <=> now.zone # "none")
BY DEF AsWanted, Edits

LEMMA Route53Done ==
  ASSUME NEW now \in Store, NEW request, NEW op \in Edits,
         RouteOf(request).handler = op
  PROVE  Done(request, Route53Handlers(request, now)[op])
<1>1. \A z : [now EXCEPT !.zone = z].zone = z
  BY DEF Store
<1>2. CASE op = "ChangeResourceRecordSets"
  <2>1. PICK z : z = IF request.body.action = "DELETE" THEN "apex" ELSE "full"
    OBVIOUS
  <2>2. AsWanted(request, [now EXCEPT !.zone = z])
    BY <1>1, <1>2, <2>1, ZoneWants
  <2>3. Done(request, Change(request.body, now))
    BY <2>1, <2>2, AnswersDone DEF Change
  <2>4. Done(request, ChangeResourceRecordSets(request, now))
    BY <2>3, ChecksDone DEF ChangeResourceRecordSets
  <2>. QED
    BY <1>2, <2>4 DEF Route53Handlers
<1>3. op \in {"ChangeTagsForResource", "UpdateHostedZoneComment"} =>
        (now.zone # "none" => Done(request, Write(now)))
  BY ZoneWants, AnswersDone
<1>4. CASE op = "ChangeTagsForResource"
  <2>1. Done(request, ChangeTagsForResource(request, now))
    BY <1>3, <1>4, ChecksDone DEF ChangeTagsForResource
  <2>. QED
    BY <1>4, <2>1 DEF Route53Handlers
<1>5. CASE op = "UpdateHostedZoneComment"
  <2>1. Done(request, UpdateHostedZoneComment(request, now))
    BY <1>3, <1>5, ChecksDone DEF UpdateHostedZoneComment
  <2>. QED
    BY <1>5, <2>1 DEF Route53Handlers
<1>6. CASE op = "CreateHostedZone"
  <2>1. AsWanted(request, [now EXCEPT !.zone = "apex"])
    BY <1>1, <1>6, ZoneWants
  <2>2. Done(request, IF now.zone # "none"
                      THEN Refuse("ErrHostedZoneAlreadyExists", now)
                      ELSE Write([now EXCEPT !.zone = "apex"]))
    BY <2>1, AnswersDone
  <2>3. Done(request, CreateHostedZone(request, now))
    BY <2>2, ChecksDone DEF CreateHostedZone
  <2>. QED
    BY <1>6, <2>3 DEF Route53Handlers
<1>7. CASE op = "DeleteHostedZone"
  <2>1. AsWanted(request, [now EXCEPT !.zone = "none"])
    BY <1>1, <1>7, ZoneWants
  <2>2. Done(request, IF now.zone = "full" THEN Refuse("ErrHostedZoneNotEmpty", now)
                      ELSE Write([now EXCEPT !.zone = "none"]))
    BY <2>1, AnswersDone
  <2>3. Done(request, DeleteHostedZone(request, now))
    BY <2>2, ChecksDone DEF DeleteHostedZone
  <2>. QED
    BY <1>7, <2>3 DEF Route53Handlers
<1>. QED
  BY <1>2, <1>4, <1>5, <1>6, <1>7 DEF Edits

LEMMA Guards ==
  ASSUME NEW request
  PROVE  LET route == RouteOf(request)
         IN /\ route.guard \in {"none", "basic", "kms", "ssm", "route53"}
            /\ route.guard = "none" => route.handler = "Files"
            /\ route.guard = "ssm" <=> route.handler = "Ssm"
            /\ route.guard = "kms" <=> route.handler = "Kms"
            /\ route.handler \in Edits => route.guard = "route53"
            /\ route.handler = "ListHostedZonesByName" => request.method = "GET"
<1>. DEFINE Fits(r) == /\ r.guard \in {"none", "basic", "kms", "ssm", "route53"}
                       /\ r.guard = "none" => r.handler = "Files"
                       /\ r.guard = "ssm" <=> r.handler = "Ssm"
                       /\ r.guard = "kms" <=> r.handler = "Kms"
                       /\ r.handler \in Edits => r.guard = "route53"
                       /\ r.handler = "ListHostedZonesByName" => r.on.methods = {"GET"}
<1>1. ASSUME NEW guard, NEW routes, NEW r \in Behind(guard, routes)
      PROVE  /\ r.guard = guard /\ r.handler \in DOMAIN routes
             /\ r.on = routes[r.handler]
  BY DEF Behind, Route
<1>2. \A r \in Behind("basic", PasswordRoutes) : Fits(r)
  <2>1. DOMAIN PasswordRoutes
          \cap (Edits \cup {"Ssm", "Kms", "ListHostedZonesByName"}) = {}
    BY DEF PasswordRoutes, Edits
  <2>. QED
    BY <1>1, <2>1
<1>3. \A r \in Behind("kms", KmsRoutes) : Fits(r)
  <2>1. DOMAIN KmsRoutes = {"Kms"} /\ "Kms" \notin Edits
    BY DEF KmsRoutes, Edits
  <2>. QED
    BY <1>1, <2>1
<1>4. \A r \in Behind("ssm", SsmRoutes) : Fits(r)
  <2>1. DOMAIN SsmRoutes = {"Ssm"} /\ "Ssm" \notin Edits
    BY DEF SsmRoutes, Edits
  <2>. QED
    BY <1>1, <2>1
<1>5. \A r \in Behind("route53", Route53Routes) : Fits(r)
  <2>1. /\ DOMAIN Route53Routes \cap {"Ssm", "Kms"} = {}
        /\ Route53Routes["ListHostedZonesByName"].methods = {"GET"}
    BY DEF Route53Routes, On
  <2>. QED
    BY <1>1, <2>1
<1>6. Fits(Files)
  BY DEF Files, Route, Edits
<1>. HIDE DEF Fits
<1>7. /\ RouteOf(request) \in Routes \cup {Files}
      /\ RouteOf(request) # Files => request.method \in RouteOf(request).on.methods
  BY DEF RouteOf
<1>8. Fits(RouteOf(request))
  BY <1>2, <1>3, <1>4, <1>5, <1>6, <1>7 DEF Routes
<1>9. Files.handler = "Files"
  BY DEF Files, Route
<1>. QED
  BY <1>7, <1>8, <1>9 DEF Fits

LEMMA HandlerDone ==
  ASSUME NEW now \in Store, NEW request, Changes(request)
  PROVE  Done(request, Handler(request, now))
<1>1. CASE RouteOf(request).handler = "Ssm"
  <2>1. Handler(request, now) = SsmHandle(request, now)
    BY <1>1, Guards DEF Handler
  <2>. QED
    BY <1>1, <2>1, SsmDone
<1>2. CASE RouteOf(request).handler \in Edits
  <2>1. RouteOf(request).guard = "route53"
    BY <1>2, Guards
  <2>2. RouteOf(request).handler \notin {"Ssm", "Kms", "Files"}
    BY <1>2 DEF Edits
  <2>3. Handler(request, now)
          = Route53Handlers(request, now)[RouteOf(request).handler]
    BY <2>1, <2>2 DEF Handler
  <2>. QED
    BY <1>2, <2>3, Route53Done
<1>. QED
  BY <1>1, <1>2 DEF Changes, Edits

LEMMA ErrorsAreTold ==
  ASSUME NEW request, NEW error, StatusFor(request, error) = 200
  PROVE  error = "None"
BY DEF StatusFor, SsmStatus, KmsStatus, Route53Status

-----------------------------------------------------------------------------
(* What is done depends on no more of a request than is signed of it.      *)

LEMMA SameHandling ==
  ASSUME NEW a, NEW b, NEW now,
         a.method = b.method, a.path = b.path, a.body = b.body,
         a.method = "GET" => a.query = b.query,
         RouteOf(a).guard \in {"ssm", "kms"} =>
           Header(a, "x-amz-target") = Header(b, "x-amz-target")
  PROVE  RouteOf(a) = RouteOf(b) /\ Handler(a, now) = Handler(b, now)
<1>1. RouteOf(a) = RouteOf(b)
  BY DEF RouteOf
<1>2. CASE RouteOf(a).guard = "route53"
  <2>1. PICK op \in Route53Operations : op = RouteOf(a).handler
    BY <1>2, Routed
  <2>2. op = "ListHostedZonesByName" => a.query = b.query
    BY <2>1, Guards
  <2>3. Route53Handlers(a, now)[op] = Route53Handlers(b, now)[op]
    <3>1. \A x : /\ InZone(a, now, x) = InZone(b, now, x)
                 /\ TaggedZone(a, now, x) = TaggedZone(b, now, x)
      BY DEF InZone, TaggedZone
    <3>2. op = "ListHostedZonesByName" =>
            ListHostedZonesByName(a, now) = ListHostedZonesByName(b, now)
      BY <2>2 DEF ListHostedZonesByName
    <3>3. /\ ChangeResourceRecordSets(a, now) = ChangeResourceRecordSets(b, now)
          /\ ChangeTagsForResource(a, now) = ChangeTagsForResource(b, now)
          /\ CreateHostedZone(a, now) = CreateHostedZone(b, now)
          /\ DeleteHostedZone(a, now) = DeleteHostedZone(b, now)
          /\ UpdateHostedZoneComment(a, now) = UpdateHostedZoneComment(b, now)
      BY <3>1 DEF ChangeResourceRecordSets, ChangeTagsForResource,
                  CreateHostedZone, DeleteHostedZone, UpdateHostedZoneComment
    <3>4. /\ GetChange(a, now) = GetChange(b, now)
          /\ GetHostedZone(a, now) = GetHostedZone(b, now)
          /\ GetHostedZoneCount(a, now) = GetHostedZoneCount(b, now)
          /\ ListHostedZones(a, now) = ListHostedZones(b, now)
          /\ ListResourceRecordSets(a, now) = ListResourceRecordSets(b, now)
          /\ ListTagsForResource(a, now) = ListTagsForResource(b, now)
      BY <3>1 DEF GetChange, GetHostedZone, GetHostedZoneCount, ListHostedZones,
                  ListResourceRecordSets, ListTagsForResource
    <3>. QED
      BY <3>2, <3>3, <3>4 DEF Route53Handlers, Route53Operations
  <2>. QED
    BY <1>1, <1>2, <2>1, <2>3 DEF Handler
<1>3. CASE RouteOf(a).guard # "route53"
  <2>1. RouteOf(a).handler = "Ssm" => SsmHandle(a, now) = SsmHandle(b, now)
    BY Guards DEF SsmHandle
  <2>2. RouteOf(a).handler = "Kms" => KmsHandle(a, now) = KmsHandle(b, now)
    BY Guards DEF KmsHandle
  <2>. QED
    BY <1>1, <1>3, <2>1, <2>2 DEF Handler
<1>. QED
  BY <1>1, <1>2, <1>3

LEMMA Handled ==
  ASSUME NEW ask \in Ask, NEW wire \in OnTheWay(ask), NEW file \in File,
         Guard(wire, file) = "None", Guarded(wire)
  PROVE  LET r == ask.request
         IN /\ Knows(file, r.auth.key, ask.secret)
            /\ RouteOf(wire).guard = "basic" => HasPassword(ask)
            /\ RouteOf(wire).guard # "basic" =>
                 /\ ~HasPassword(ask)
                 /\ wire.method = r.method /\ wire.path = r.path
                 /\ wire.body = r.body
                 /\ wire.method = "GET" => wire.query = r.query
                 /\ \A h \in r.auth.listed : Sees(wire, h) = r.headers[h]
                 /\ RouteOf(wire) = RouteOf(r)
                 /\ (ByTarget(r) => "x-amz-target" \in r.auth.listed)
                      => \A now : Handler(wire, now) = Handler(r, now)
<1>1. PICK r, guard : r = ask.request /\ guard = RouteOf(wire).guard
  OBVIOUS
<1>2. guard # "none"
  BY <1>1 DEF Guarded
<1>3. CASE guard = "basic"
  BY <1>1, <1>3, GuardOf, PasswordPasses
<1>4. CASE guard # "basic"
  <2>1. checkV4Sig(wire, file, guard) = "None"
    BY <1>1, <1>2, <1>4, GuardOf
  <2>2. /\ ~HasPassword(ask) /\ Knows(file, r.auth.key, ask.secret)
        /\ wire.method = r.method /\ wire.path = r.path
        /\ QueryOf(wire) = r.query /\ wire.body = r.body
        /\ \A h \in r.auth.listed :
             /\ h \in DOMAIN wire.headers \cup DOMAIN Fallback(wire)
             /\ Sees(wire, h) = r.headers[h]
    BY <1>1, <2>1, SignaturePasses
  <2>3. wire.method = "GET" => wire.query = r.query
    BY <2>2 DEF QueryOf
  <2>4. RouteOf(wire) = RouteOf(r)
    BY <2>2 DEF RouteOf
  <2>5. "x-amz-target" \in r.auth.listed =>
          Header(wire, "x-amz-target") = Header(r, "x-amz-target")
    <3>1. SUFFICES ASSUME "x-amz-target" \in r.auth.listed
                   PROVE  Header(wire, "x-amz-target") = Header(r, "x-amz-target")
      OBVIOUS
    <3>2. "x-amz-target" \notin DOMAIN Fallback(wire)
      BY DEF Fallback
    <3>3. "x-amz-target" \in DOMAIN wire.headers
      BY <2>2, <3>1, <3>2
    <3>4. "x-amz-target" \in DOMAIN r.headers
      BY <1>1, <2>2, <3>1, Signs
    <3>. QED
      BY <2>2, <3>1, <3>3, <3>4 DEF Header, Sees
  <2>6. ASSUME ByTarget(r) => "x-amz-target" \in r.auth.listed, NEW now
        PROVE  Handler(wire, now) = Handler(r, now)
    BY <2>2, <2>3, <2>4, <2>5, <2>6, SameHandling DEF ByTarget
  <2>. QED
    BY <1>1, <1>4, <2>2, <2>3, <2>4, <2>6
<1>. QED
  BY <1>3, <1>4

(* What the server would have been given, had nothing happened.            *)
LEMMA SentHandled ==
  ASSUME NEW ask \in Ask
  PROVE  LET r == ask.request
             sent == Arrived(Prepared(ask))
         IN /\ sent.method = r.method /\ sent.path = r.path
            /\ sent.body = r.body /\ sent.query = r.query
            /\ ~HasPassword(ask) => sent.auth.listed = r.auth.listed
            /\ ByTarget(sent) = ByTarget(r)
            /\ \A now : Handler(sent, now) = Handler(r, now)
<1>1. PICK r, sent : r = ask.request /\ sent = Arrived(Prepared(ask))
  OBVIOUS
<1>2. PICK auth : sent = Message(r, Kept(r), r.body, auth) /\ SameAuth(auth, ask)
  BY <1>1, Unharmed
<1>3. /\ sent.method = r.method /\ sent.path = r.path /\ sent.body = r.body
      /\ sent.query = r.query /\ sent.headers = Kept(r) /\ sent.auth = auth
  BY <1>2, Messages
<1>4. Header(sent, "x-amz-target") = Header(r, "x-amz-target")
  <2>1. "x-amz-target" \notin Stripped
    BY V4SigAssumption
  <2>. QED
    BY <1>3, <2>1 DEF Header, Kept
<1>5. \A now : RouteOf(sent) = RouteOf(r) /\ Handler(sent, now) = Handler(r, now)
  BY <1>3, <1>4, SameHandling
<1>6. ~HasPassword(ask) => sent.auth.listed = r.auth.listed
  BY <1>1, <1>2, <1>3 DEF SameAuth
<1>. QED
  BY <1>1, <1>3, <1>5, <1>6 DEF ByTarget

-----------------------------------------------------------------------------
(* The second invariant: what an attempt is about.                         *)

(* An attempt carries what its client asks for; what is handled passes the *)
(* guard of the running server, and what was refused did not pass.         *)
JobMatches(j, ask, file) ==
  /\ j.pc \in {"arrived", "handling", "refused"} => j.wire \in OnTheWay(ask)
  /\ j.pc = "handling" => Guard(j.wire, file) = "None"
  /\ j.pc = "refused" => j.status # 200 /\ Guard(j.wire, j.under) # "None"
  /\ j.pc = "answered" /\ j.status = 200 /\ Changes(ask.request)
       => j.wrote /\ j.left

CallMatches(call, jobs, file) ==
  /\ call.pc = "idle" => \A i \in Try : jobs[i] = NoJob
  /\ \A i \in Try : JobMatches(jobs[i], call.ask, file)
  /\ Success(call) /\ Changes(call.ask.request)
       => \E i \in Try : Wrote(jobs[i]) /\ jobs[i].left

Matching == \A c \in Client : CallMatches(client[c], job[c], config)

MInv == IInv /\ Matching

LEMMA NoJobMatches ==
  \A ask, file : JobMatches(NoJob, ask, file) /\ JobMatches(Killed, ask, file)
BY DEF JobMatches, NoJob, Killed

LEMMA InitMatches == Init => Matching
<1>. SUFFICES ASSUME Init, NEW c \in Client
              PROVE  CallMatches(client[c], job[c], config)
  BY DEF Matching
<1>1. client[c] = Idle /\ \A i \in Try : job[c][i] = NoJob
  BY DEF Init
<1>2. ~Success(client[c])
  BY <1>1 DEF Success, Idle
<1>. QED
  BY <1>1, <1>2, NoJobMatches DEF CallMatches

(* An attempt goes on.                                                     *)
LEMMA JobMoves ==
  ASSUME MInv, NEW c \in Client, NEW i \in Try, NEW j,
         Running(job[c][i]), JobMatches(j, client[c].ask, config),
         job' = [job EXCEPT ![c][i] = j], UNCHANGED <<config, client>>
  PROVE  Matching'
<1>1. job \in [Client -> [Try -> Jobs]]
  BY Types DEF MInv, IInv
<1>2. /\ job'[c][i] = j
      /\ \A d \in Client, k \in Try : (d # c \/ k # i) => job'[d][k] = job[d][k]
  BY <1>1
<1>3. ASSUME NEW d \in Client PROVE CallMatches(client[d], job'[d], config)
  <2>1. CallMatches(client[d], job[d], config)
    BY DEF MInv, Matching
  <2>2. \A k \in Try : Wrote(job[d][k]) => job'[d][k] = job[d][k]
    BY <1>2 DEF Running, Wrote
  <2>3. \A k \in Try : job[d][k] = NoJob => job'[d][k] = job[d][k]
    BY <1>2, NoJobs
  <2>4. \A k \in Try : JobMatches(job'[d][k], client[d].ask, config)
    BY <1>2, <2>1 DEF CallMatches
  <2>. QED
    BY <2>1, <2>2, <2>3, <2>4 DEF CallMatches
<1>. QED
  BY <1>3 DEF Matching

(* A client that asks for something goes on.                               *)
LEMMA CallMoves ==
  ASSUME MInv, NEW c \in Client, NEW now,
         client[c].pc # "idle", now.pc # "idle", now.ask = client[c].ask,
         Success(now) /\ Changes(now.ask.request)
           => \E i \in Try : Wrote(job[c][i]) /\ job[c][i].left,
         client' = [client EXCEPT ![c] = now], UNCHANGED <<config, job>>
  PROVE  Matching'
<1>1. client \in [Client -> Clients]
  BY Types DEF MInv, IInv
<1>2. client'[c] = now /\ \A d \in Client : d # c => client'[d] = client[d]
  BY <1>1
<1>3. \A d \in Client : CallMatches(client[d], job[d], config)
  BY DEF MInv, Matching
<1>4. CallMatches(now, job[c], config)
  BY <1>3 DEF CallMatches
<1>. QED
  BY <1>2, <1>3, <1>4 DEF Matching

LEMMA RestartMatches ==
  ASSUME MInv, NEW file \in File, Restart(file)
  PROVE  Matching'
<1>1. \A c \in Client, i \in Try :
        job'[c][i] = IF job[c][i].pc \in {"arrived", "handling"} THEN Killed
                     ELSE job[c][i]
  BY DEF Restart
<1>2. ASSUME NEW c \in Client PROVE CallMatches(client[c], job'[c], config')
  <2>1. CallMatches(client[c], job[c], config)
    BY DEF MInv, Matching
  <2>2. \A i \in Try : Wrote(job[c][i]) \/ job[c][i] = NoJob => job'[c][i] = job[c][i]
    BY <1>1, NoJobs DEF Wrote, Running
  <2>3. ASSUME NEW i \in Try PROVE JobMatches(job'[c][i], client[c].ask, config')
    <3>1. CASE job[c][i].pc \in {"arrived", "handling"}
      BY <1>1, <3>1, NoJobMatches
    <3>2. CASE job[c][i].pc \notin {"arrived", "handling"}
      BY <1>1, <2>1, <3>2 DEF CallMatches, JobMatches
    <3>. QED
      BY <3>1, <3>2
  <2>. QED
    BY <2>1, <2>2, <2>3 DEF CallMatches
<1>. QED
  BY <1>2 DEF Matching, Restart

LEMMA AsksMatch ==
  ASSUME MInv, NEW c \in Client,
         (\E ask \in Ask : Call(c, ask)) \/ Send(c)
  PROVE  Matching'
<1>1. /\ job \in [Client -> [Try -> Jobs]] /\ client \in [Client -> Clients]
      /\ \A d \in Client : CallMatches(client[d], job[d], config)
  BY Types DEF MInv, IInv, Matching
<1>2. ASSUME NEW ask \in Ask, Call(c, ask) PROVE Matching'
  <2>1. PICK now : now = Calling("asking", ask, 1, 0)
    OBVIOUS
  <2>2. /\ client' = [client EXCEPT ![c] = now]
        /\ job' = [job EXCEPT ![c] = [i \in Try |-> NoJob]]
        /\ config' = config
    BY <1>2, <2>1 DEF Call
  <2>3. now.pc = "asking"
    BY <2>1 DEF Calling
  <2>4. /\ client'[c] = now /\ \A i \in Try : job'[c][i] = NoJob
        /\ \A d \in Client : d # c => client'[d] = client[d] /\ job'[d] = job[d]
    BY <1>1, <2>2
  <2>5. CallMatches(client'[c], job'[c], config)
    BY <2>3, <2>4, NoJobMatches DEF CallMatches, Success
  <2>. QED
    BY <1>1, <2>2, <2>4, <2>5 DEF Matching
<1>3. CASE Send(c)
  <2>1. client[c].pc = "asking" /\ client[c].n \in Try /\ config' = config
    BY <1>1, <1>3, Fields DEF Send
  <2>2. PICK n : /\ n = client[c].n
                 /\ \E wire \in OnTheWay(client[c].ask) :
                      job' = [job EXCEPT ![c][n] = Arriving(wire)]
    BY <1>3 DEF Send
  <2>3. PICK j : /\ job' = [job EXCEPT ![c][n] = j]
                 /\ \E wire \in OnTheWay(client[c].ask) : j = Arriving(wire)
    BY <2>2
  <2>4. JobMatches(j, client[c].ask, config)
    BY <2>3 DEF JobMatches, Arriving
  <2>5. PICK now : /\ now = [client[c] EXCEPT !.pc = "waiting"]
                   /\ client' = [client EXCEPT ![c] = now]
    BY <1>3 DEF Send
  <2>6. now.pc = "waiting" /\ now.ask = client[c].ask
    <3>1. client[c] \in [pc : {"asking", "waiting"}, ask : Ask, n : Try,
                         lost : 0..MaxTries]
      BY <1>1, <2>1 DEF Clients, Idle
    <3>. QED
      BY <2>5, <3>1
  <2>7. /\ client'[c] = now /\ job'[c][n] = j
        /\ \A i \in Try : i # n => job'[c][i] = job[c][i]
        /\ \A d \in Client : d # c => client'[d] = client[d] /\ job'[d] = job[d]
    BY <1>1, <2>1, <2>2, <2>3, <2>5
  <2>8. \A i \in Try : JobMatches(job[c][i], client[c].ask, config)
    BY <1>1 DEF CallMatches
  <2>9. CallMatches(client'[c], job'[c], config)
    BY <2>4, <2>6, <2>7, <2>8 DEF CallMatches, Success
  <2>. QED
    BY <1>1, <2>1, <2>7, <2>9 DEF Matching
<1>. QED
  BY <1>2, <1>3

LEMMA AnswersMatch ==
  ASSUME MInv, NEW c \in Client, NotConnected(c) \/ Lose(c) \/ Receive(c)
  PROVE  Matching'
<1>1. /\ client[c] \in Clients /\ CallMatches(client[c], job[c], config)
      /\ \A i \in Try : job[c][i] \in Jobs
  BY Types DEF MInv, IInv, Matching
<1>2. PICK call : call = client[c]
  OBVIOUS
<1>3. call.pc \in {"asking", "waiting"} /\ call.n \in Try /\ call.ask \in Ask
  BY <1>1, <1>2, Fields DEF NotConnected, Lose, Receive
<1>4. UNCHANGED <<config, job>>
  BY DEF NotConnected, Lose, Receive
<1>5. ASSUME NEW lost, NEW status, Again(c, lost, status), status # 200
      PROVE  Matching'
  <2>1. PICK now : /\ client' = [client EXCEPT ![c] = now]
                   /\ \/ now = Calling("asking", call.ask, call.n + 1, lost)
                      \/ now = Told(call.ask, lost, status)
    BY <1>2, <1>5 DEF Again
  <2>2. now.pc # "idle" /\ now.ask = call.ask /\ ~Success(now)
    BY <1>5, <2>1 DEF Calling, Told, Success
  <2>. QED
    BY <1>2, <1>3, <1>4, <2>1, <2>2, CallMoves
<1>6. CASE NotConnected(c) \/ Lose(c)
  <2>1. \E lost : Again(c, lost, Unknown)
    BY <1>6 DEF NotConnected, Lose
  <2>2. Unknown # 200
    BY DEF Unknown
  <2>. QED
    BY <1>5, <2>1, <2>2
<1>7. CASE Receive(c)
  <2>1. PICK answer : answer = job[c][call.n]
    OBVIOUS
  <2>2. /\ answer.pc \in {"refused", "answered"} /\ answer.status \in Status
        /\ JobMatches(answer, call.ask, config)
    BY <1>1, <1>2, <1>3, <1>7, <2>1, Fields DEF Receive, CallMatches
  <2>3. CASE answer.status >= 500
    <3>1. Again(c, call.lost, answer.status)
      BY <1>2, <1>7, <2>1, <2>3 DEF Receive
    <3>2. answer.status # 200
      BY <2>3
    <3>. QED
      BY <1>5, <3>1, <3>2
  <2>4. CASE ~(answer.status >= 500)
    <3>1. PICK now : /\ now = Told(call.ask, call.lost, answer.status)
                     /\ client' = [client EXCEPT ![c] = now]
      BY <1>2, <1>7, <2>1, <2>4 DEF Receive
    <3>2. now.pc = "told" /\ now.ask = call.ask /\ now.status = answer.status
      BY <3>1 DEF Told
    <3>3. ASSUME Success(now), Changes(now.ask.request)
          PROVE  Wrote(answer) /\ answer.left
      BY <2>2, <3>2, <3>3 DEF Success, JobMatches, Wrote
    <3>. QED
      BY <1>2, <1>3, <1>4, <2>1, <3>1, <3>2, <3>3, CallMoves
  <2>. QED
    BY <2>3, <2>4
<1>. QED
  BY <1>6, <1>7

LEMMA AuthorizeMatches ==
  ASSUME MInv, NEW c \in Client, NEW i \in Try, Authorize(c, i)
  PROVE  Matching'
<1>1. PICK wire, ask, error :
        wire = job[c][i].wire /\ ask = client[c].ask /\ error = Guard(wire, config)
  OBVIOUS
<1>2. job[c][i].pc = "arrived" /\ Running(job[c][i])
  BY DEF Authorize, Running
<1>3. wire \in OnTheWay(ask)
  BY <1>1, <1>2 DEF MInv, Matching, CallMatches, JobMatches
<1>4. PICK j : /\ j = IF error = "None" THEN Handling(wire)
                      ELSE Refused(wire, GuardStatus(error), config)
               /\ job' = [job EXCEPT ![c][i] = j]
  BY <1>1 DEF Authorize
<1>5. JobMatches(j, ask, config)
  <2>1. GuardStatus(error) # 200
    BY Statuses
  <2>2. CASE error = "None"
    BY <1>1, <1>3, <1>4, <2>2 DEF JobMatches, Handling
  <2>3. CASE error # "None"
    <3>1. PICK status : status = GuardStatus(error)
      OBVIOUS
    <3>2. /\ j.pc = "refused" /\ j.wire = wire /\ j.status = status
          /\ j.under = config
      BY <1>4, <2>3, <3>1 DEF Refused
    <3>. QED
      BY <1>1, <1>3, <2>1, <2>3, <3>1, <3>2 DEF JobMatches
  <2>. QED
    BY <2>2, <2>3
<1>. QED
  BY <1>1, <1>2, <1>4, <1>5, JobMoves DEF Authorize

LEMMA HandleMatches ==
  ASSUME MInv, NEW c \in Client, NEW i \in Try, Handle(c, i)
  PROVE  Matching'
<1>1. PICK wire, ask, answer, status, left :
        /\ wire = job[c][i].wire /\ ask = client[c].ask
        /\ answer = Handler(wire, store) /\ status = StatusFor(wire, answer.error)
        /\ left = AsWanted(ask.request, answer.store)
  OBVIOUS
<1>2. job[c][i].pc = "handling" /\ Running(job[c][i])
  BY DEF Handle, Running
<1>3. /\ CallMatches(client[c], job[c], config) /\ client[c] \in Clients
      /\ wire \in OnTheWay(ask) /\ Guard(wire, config) = "None"
  BY <1>1, <1>2, Types DEF MInv, IInv, Matching, CallMatches, JobMatches
<1>4. ask \in Ask /\ store \in Store /\ config \in File
  BY <1>1, <1>2, <1>3, Types, Fields, NoJobs DEF CallMatches, MInv, IInv, JobOK
<1>5. PICK j : /\ j = Answered(status, answer.wrote, left)
               /\ job' = [job EXCEPT ![c][i] = j]
  BY <1>1 DEF Handle
<1>6. /\ j.pc = "answered" /\ j.status = status /\ j.wrote = answer.wrote
      /\ j.left = left
  BY <1>5 DEF Answered
<1>7. status = 200 /\ Changes(ask.request) => answer.wrote /\ left
  <2>1. SUFFICES ASSUME status = 200, Changes(ask.request)
                 PROVE  answer.wrote /\ left
    OBVIOUS
  <2>2. answer.error = "None"
    <3>1. StatusFor(wire, answer.error) = 200
      BY <1>1, <2>1
    <3>. QED
      BY <3>1, ErrorsAreTold
  <2>3. ~HasPassword(ask)
    BY <1>1, <2>1 DEF Changes, HasPassword
  <2>4. RouteOf(wire).guard # "none"
    <3>1. SUFFICES ASSUME RouteOf(wire).guard = "none" PROVE FALSE
      OBVIOUS
    <3>2. answer = Refuse("NotFound", store)
      BY <1>1, <3>1, Guards DEF Handler
    <3>. QED
      BY <2>2, <3>2 DEF Refuse, Answer
  <2>5. RouteOf(wire).guard # "basic"
    BY <1>3, <1>4, <2>3, <2>4, Handled DEF Guarded
  <2>6. ByTarget(ask.request) => "x-amz-target" \in ask.request.auth.listed
    BY <2>1, Guards DEF Changes, ByTarget, Edits
  <2>7. answer = Handler(ask.request, store)
    BY <1>1, <1>3, <1>4, <2>4, <2>5, <2>6, Handled DEF Guarded
  <2>. QED
    BY <1>1, <1>4, <2>1, <2>2, <2>7, HandlerDone DEF Done
<1>8. JobMatches(j, ask, config)
  BY <1>6, <1>7 DEF JobMatches
<1>. QED
  BY <1>1, <1>2, <1>5, <1>8, JobMoves DEF Handle

LEMMA MatchSteps == MInv /\ [Next]_vars => MInv'
<1>. SUFFICES ASSUME MInv, [Next]_vars PROVE MInv'
  OBVIOUS
<1>1. IInv'
  BY Steps DEF MInv
<1>2. CASE Elsewhere \/ UNCHANGED vars
  BY <1>1, <1>2 DEF MInv, Elsewhere, vars, Matching
<1>. QED
  BY <1>1, <1>2, RestartMatches, AsksMatch, AnswersMatch, AuthorizeMatches,
     HandleMatches DEF MInv, Next

LEMMA MatchingInvariance == Spec => []MInv
<1>1. Init => MInv
  BY Inits, InitMatches DEF MInv
<1>. QED
  BY <1>1, MatchSteps, PTL DEF Spec

(* The client of an attempt asks for something.                            *)
LEMMA Asked ==
  ASSUME MInv, NEW c \in Client, NEW i \in Try,
         job[c][i].pc \in {"handling", "refused"}
  PROVE  /\ client[c].ask \in Ask
         /\ job[c][i].wire \in OnTheWay(client[c].ask)
         /\ job[c][i] \in Jobs
         /\ JobMatches(job[c][i], client[c].ask, config)
<1>1. CallMatches(client[c], job[c], config) /\ client[c] \in Clients
  BY Types DEF MInv, IInv, Matching
<1>2. job[c][i] \in Jobs
  BY Types DEF MInv, IInv
<1>3. job[c][i] # NoJob
  BY DEF NoJob
<1>4. client[c].ask \in Ask
  BY <1>1, <1>3, Fields DEF CallMatches
<1>. QED
  BY <1>1, <1>2, <1>4 DEF CallMatches, JobMatches

(* What a handler behind a guard is given comes from a client that has the *)
(* secret the running server knows, whatever it is started with between    *)
(* two attempts and whatever is changed on the way.  If it was signed, the *)
(* method, the path, the body, the listed headers and the query of a GET   *)
(* are as they were sent, and the handler does what it would have done     *)
(* with the request as it was sent, provided that a target is listed.      *)
THEOREM GuardsHold == Spec => []HandledAsSigned
<1>1. MInv => HandledAsSigned
  <2>. SUFFICES ASSUME MInv, NEW c \in Client, NEW i \in Try,
                       job[c][i].pc = "handling", Guarded(job[c][i].wire)
                PROVE  LET ask == client[c].ask
                           wire == job[c][i].wire
                           sent == Arrived(Prepared(ask))
                           listed == sent.auth.listed
                       IN /\ config # Down
                          /\ Knows(config, ask.request.auth.key, ask.secret)
                          /\ RouteOf(wire).guard # "basic" =>
                               /\ wire.method = sent.method /\ wire.path = sent.path
                               /\ wire.body = sent.body
                               /\ \A h \in listed :
                                    Sees(wire, h) = ask.request.headers[h]
                               /\ wire.method = "GET" => wire.query = sent.query
                               /\ (ByTarget(sent) => "x-amz-target" \in listed)
                                    => \A now \in Store :
                                         Handler(wire, now) = Handler(sent, now)
    BY DEF HandledAsSigned
  <2>1. PICK ask, wire, sent :
          /\ ask = client[c].ask /\ wire = job[c][i].wire
          /\ sent = Arrived(Prepared(ask))
    OBVIOUS
  <2>2. ask \in Ask /\ wire \in OnTheWay(ask) /\ Guard(wire, config) = "None"
    BY <2>1, Asked DEF JobMatches
  <2>3. config \in File /\ config # Down
    BY Types DEF MInv, IInv, JobOK, Running
  <2>4. Guarded(wire)
    BY <2>1
  <2>5. PICK r : r = ask.request
    OBVIOUS
  <2>6. /\ sent.method = r.method /\ sent.path = r.path
        /\ sent.body = r.body /\ sent.query = r.query
        /\ ~HasPassword(ask) => sent.auth.listed = r.auth.listed
        /\ ByTarget(sent) = ByTarget(r)
        /\ \A now : Handler(sent, now) = Handler(r, now)
    BY <2>1, <2>2, <2>5, SentHandled
  <2>7. Knows(config, r.auth.key, ask.secret)
    BY <2>2, <2>3, <2>4, <2>5, Handled
  <2>8. ASSUME RouteOf(wire).guard # "basic"
        PROVE  /\ ~HasPassword(ask)
               /\ wire.method = r.method /\ wire.path = r.path
               /\ wire.body = r.body
               /\ wire.method = "GET" => wire.query = r.query
               /\ \A h \in r.auth.listed : Sees(wire, h) = r.headers[h]
               /\ (ByTarget(r) => "x-amz-target" \in r.auth.listed)
                    => \A now : Handler(wire, now) = Handler(r, now)
    BY <2>2, <2>3, <2>4, <2>5, <2>8, Handled
  <2>. QED
    BY <2>1, <2>3, <2>5, <2>6, <2>7, <2>8
<1>. QED
  BY <1>1, MatchingInvariance, PTL

(* A request is refused for a reason: it was damaged, is not meant for     *)
(* this server or service, is one no signature can be checked of, or its   *)
(* client does not have the secret, or signs where a password is asked for *)
(* or the other way round.                                                 *)
THEOREM RefusedForAReason == Spec => []GoodIsAccepted
<1>1. MInv => GoodIsAccepted
  <2>. SUFFICES ASSUME MInv, NEW c \in Client, NEW i \in Try,
                       job[c][i].pc = "refused"
                PROVE  LET ask == client[c].ask
                           wire == job[c][i].wire
                           under == job[c][i].under
                           guard == RouteOf(wire).guard
                       IN \/ ~Knows(under, ask.request.auth.key, ask.secret)
                          \/ (guard = "basic") # HasPassword(ask)
                          \/ guard = "basic" /\ wire.auth.flaws # {}
                          \/ guard # "basic"
                               /\ \/ wire # Arrived(Prepared(ask))
                                  \/ ask.request.auth.service # guard
                                  \/ ask.request.auth.region # under.region
                                  \/ Unreadable(ask)
    BY DEF GoodIsAccepted, HasPassword
  <2>1. PICK ask, wire, under :
          ask = client[c].ask /\ wire = job[c][i].wire /\ under = job[c][i].under
    OBVIOUS
  <2>2. ask \in Ask /\ wire \in OnTheWay(ask) /\ Guard(wire, under) # "None"
    BY <2>1, Asked DEF JobMatches
  <2>3. under \in File
    BY <2>1, Asked, Fields
  <2>. QED
    BY <2>1, <2>2, <2>3, Refuses
<1>. QED
  BY <1>1, MatchingInvariance, PTL

(* A client that is told of success has been served by one of its          *)
(* attempts: it wrote, and left the parameter or the zone as its request   *)
(* wants it, whatever else was changed on the way.  That goes for every    *)
(* edit whose target is listed, but the tag edits by a name without its    *)
(* slash and the deletion of a list with a name that cannot be read.       *)
THEOREM SuccessMeansDone == Spec => []SuccessIsDone
<1>1. MInv => SuccessIsDone
  BY DEF MInv, Matching, CallMatches, Success, SuccessIsDone, Did, Wrote
<1>. QED
  BY <1>1, MatchingInvariance, PTL

=============================================================================
