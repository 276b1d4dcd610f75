------------------------------- MODULE Server -------------------------------
(***************************************************************************)
(* Clients and the running server.  A client signs a request, sends it,    *)
(* and sends it again when the answer is lost or is a 5xx.  The server     *)
(* starts a goroutine for each request that arrives: it checks who asks,   *)
(* handles the request and answers, whether or not its client still waits. *)
(* Requests may arrive damaged or changed, connections break, and the      *)
(* server is started again with an edited configuration, or fails to.      *)
(*                                                                         *)
(* Bounds: a client makes MaxTries attempts, and its next call when the    *)
(* server is done with the last one.  What other clients do is one step.   *)
(***************************************************************************)
EXTENDS Api

CONSTANTS
  File,       \* the configuration files the server is started with
  Down,       \* no process is running
  Ask,        \* what clients want: [request, secret]
  Flaw,       \* what may be wrong with an Authorization header
  Stray,      \* other pieces a request may arrive with, its headers apart
  StrayHeader, \* other headers it may arrive with
  LostHeader, \* headers it may arrive without
  Client,
  MaxTries

ASSUME ServerAssumption ==
  /\ Down \notin File
  /\ MaxTries \in Nat \ {0}
  /\ \A file \in File : file.credentials \in Seq([key : DOMAIN KeyLength,
                                                  secret : {a.secret : a \in Ask}])
  /\ \A stray \in Stray :
       DOMAIN stray \subseteq {"method", "path", "query", "host", "encoding",
                              "length", "body"}

(* A client sends a password, or signs as the SDKs do: some of the headers *)
(* it has, the host among them, and a date.                                *)
ASSUME AskAssumption ==
  \A ask \in Ask :
    LET r == ask.request
        body == r.body
        auth == r.auth
    IN /\ r = [method |-> r.method, path |-> r.path, query |-> r.query,
               host |-> r.host, headers |-> r.headers, encoding |-> r.encoding,
               length |-> r.length, body |-> body, auth |-> auth]
       /\ body = [readable |-> body.readable, valid |-> body.valid,
                  kind |-> body.kind, action |-> body.action,
                  overwrite |-> body.overwrite, bare |-> body.bare]
       /\ auth.key \in DOMAIN KeyLength
       /\ \/ auth = [flaws |-> {}, key |-> auth.key, password |-> ask.secret]
          \/ /\ auth = [flaws |-> {}, key |-> auth.key, day |-> auth.day,
                        region |-> auth.region, service |-> auth.service,
                        listed |-> auth.listed, signature |-> auth.signature]
             /\ "host" \in auth.listed /\ auth.listed \subseteq DOMAIN r.headers
             /\ \A h \in DOMAIN r.headers \cap Stripped : r.headers[h] = Fallback(r)[h]
             /\ DateOf(r) # NoDate /\ DateOf(r).format = "iso8601"

VARIABLES
  config,   \* what the process read when it started
  store,    \* the parameter and the zone
  client,   \* the call each client makes
  job       \* each attempt at it, in the server

vars == <<config, store, client, job>>

Idle == [pc |-> "idle"]
(* The client is about to make its n-th attempt, or waits for the answer   *)
(* to it; lost attempts have no answer.                                    *)
Calling(pc, ask, n, lost) == [pc |-> pc, ask |-> ask, n |-> n, lost |-> lost]
Told(ask, lost, status) ==
  [pc |-> "told", ask |-> ask, lost |-> lost, status |-> status]
Unknown == 0   \* the status of no answer

NoJob == [pc |-> "none"]
Arriving(wire) == [pc |-> "arrived", wire |-> wire]
Handling(wire) == [pc |-> "handling", wire |-> wire]
(* Refused by the guard or answered by the handler; a killed job has done  *)
(* nothing.  left: when it was done, the store was as its client wants it. *)
Refused(wire, status, under) ==
  [pc |-> "refused", wire |-> wire, status |-> status, under |-> under]
Answered(status, wrote, left) ==
  [pc |-> "answered", status |-> status, wrote |-> wrote, left |-> left]
Killed == [pc |-> "killed"]

Try == 1..MaxTries
Status == {200, 400, 401, 403, 404, 409, 500}

-----------------------------------------------------------------------------
(* What a client sends and what may arrive of it.                          *)

Prepared(ask) == IF "password" \in DOMAIN ask.request.auth THEN ask.request
                 ELSE Signed(ask.request, ask.secret)

(* The same, but for these of its pieces.                                  *)
But(request, pieces) ==
  [x \in DOMAIN request |-> IF x \in DOMAIN pieces THEN pieces[x] ELSE request[x]]

With(headers, others) ==
  [h \in DOMAIN headers \cup DOMAIN others |->
     IF h \in DOMAIN others THEN others[h] ELSE headers[h]]
Without(headers, lost) == [h \in DOMAIN headers \ {lost} |-> headers[h]]

(* The Authorization header cannot be read, another piece is not what was  *)
(* sent, or a header was put in, replaced or lost.                         *)
Damaged(request) ==
  {[request EXCEPT !.auth.flaws = {flaw}] : flaw \in Flaw}
    \cup {But(request, stray) : stray \in Stray}
    \cup {[request EXCEPT !.headers = With(@, stray)] : stray \in StrayHeader}
    \cup {[request EXCEPT !.headers = Without(@, lost)] : lost \in LostHeader}

OnTheWay(ask) ==
  LET sent == Prepared(ask)
  IN {Arrived(request) : request \in {sent} \cup Damaged(sent)}

Wire == UNION {OnTheWay(ask) : ask \in Ask}

(* Imports are in DbFunctions.                                             *)
ASSUME WireAssumption == \A wire \in Wire : RouteOf(wire).handler # "Import"

TypeOK ==
  /\ config \in File \cup {Down}
  /\ store \in Store
  /\ client \in [Client ->
       {Idle} \cup [pc : {"asking", "waiting"}, ask : Ask, n : Try, lost : 0..MaxTries]
         \cup [pc : {"told"}, ask : Ask, lost : 0..MaxTries,
               status : Status \cup {Unknown}]]
  /\ job \in [Client -> [Try ->
       {NoJob, Killed} \cup [pc : {"arrived", "handling"}, wire : Wire]
         \cup [pc : {"refused"}, wire : Wire, status : Status, under : File]
         \cup [pc : {"answered"}, status : Status, wrote : BOOLEAN,
               left : BOOLEAN]]]

-----------------------------------------------------------------------------
(* readAuthCredsOrDie: a server with less does not start.                  *)
Started(file) ==
  IF file.region # "" /\ file.credentials # <<>> /\ file.complete THEN file
  ELSE Down

Init ==
  /\ config = Down
  /\ store = [param |-> "none", zone |-> "none"]
  /\ client = [c \in Client |-> Idle]
  /\ job = [c \in Client |-> [i \in Try |-> NoJob]]

(* What the requests did is in the database; the requests are gone.        *)
Restart(file) ==
  /\ config' = Started(file)
  /\ job' = [c \in Client |-> [i \in Try |->
       IF job[c][i].pc \in {"arrived", "handling"} THEN Killed ELSE job[c][i]]]
  /\ UNCHANGED <<store, client>>

(* Other clients.                                                          *)
Elsewhere ==
  /\ config # Down
  /\ store' \in Store
  /\ UNCHANGED <<config, client, job>>

-----------------------------------------------------------------------------
(* The clients.                                                            *)

Call(c, ask) ==
  /\ client[c].pc \in {"idle", "told"}
  /\ \A i \in Try : job[c][i].pc \notin {"arrived", "handling"}
  /\ client' = [client EXCEPT ![c] = Calling("asking", ask, 1, 0)]
  /\ job' = [job EXCEPT ![c] = [i \in Try |-> NoJob]]
  /\ UNCHANGED <<config, store>>

Send(c) ==
  /\ client[c].pc = "asking"
  /\ config # Down
  /\ \E wire \in OnTheWay(client[c].ask) :
       job' = [job EXCEPT ![c][client[c].n] = Arriving(wire)]
  /\ client' = [client EXCEPT ![c].pc = "waiting"]
  /\ UNCHANGED <<config, store>>

(* Another attempt, or the client makes do with what it was told.          *)
Again(c, lost, status) ==
  client' = [client EXCEPT ![c] =
    IF client[c].n < MaxTries
    THEN Calling("asking", client[c].ask, client[c].n + 1, lost)
    ELSE Told(client[c].ask, lost, status)]

NotConnected(c) ==
  /\ client[c].pc = "asking"
  /\ config = Down
  /\ Again(c, client[c].lost, Unknown)
  /\ UNCHANGED <<config, store, job>>

(* The answer arrives, or the connection breaks before.                    *)
Receive(c) ==
  /\ client[c].pc = "waiting"
  /\ LET answer == job[c][client[c].n]
     IN /\ answer.pc \in {"refused", "answered"}
        /\ IF answer.status >= 500
           THEN Again(c, client[c].lost, answer.status)
           ELSE client' = [client EXCEPT ![c] =
                  Told(client[c].ask, client[c].lost, answer.status)]
  /\ UNCHANGED <<config, store, job>>

Lose(c) ==
  /\ client[c].pc = "waiting"
  /\ Again(c, client[c].lost + 1, Unknown)
  /\ UNCHANGED <<config, store, job>>

-----------------------------------------------------------------------------
(* The server.                                                             *)

(* The router finds the handler and the guard around it.                   *)
Authorize(c, i) ==
  /\ job[c][i].pc = "arrived"
  /\ LET wire == job[c][i].wire
         error == Guard(wire, config)
     IN job' = [job EXCEPT ![c][i] =
          IF error = "None" THEN Handling(wire)
          ELSE Refused(wire, GuardStatus(error), config)]
  /\ UNCHANGED <<config, store, client>>

(* The store is as the request of a client wants it.                       *)
AsWanted(request, now) ==
  LET target == Header(request, "x-amz-target")
      handler == RouteOf(request).handler
  IN /\ handler = "Ssm" =>
          now.param \in (CASE target = "PutParameter" -> {"plain", "tagged"}
                           [] target = "AddTagsToResource" -> {"tagged"}
                           [] target = "RemoveTagsFromResource" -> {"plain"}
                           [] OTHER -> {"none"})
     /\ handler = "ChangeResourceRecordSets" =>
          now.zone = IF request.body.action = "DELETE" THEN "apex" ELSE "full"
     /\ handler = "DeleteHostedZone" => now.zone = "none"
     /\ handler \notin {"Ssm", "ChangeResourceRecordSets", "DeleteHostedZone"} =>
          now.zone # "none"

Handle(c, i) ==
  /\ job[c][i].pc = "handling"
  /\ LET wire == job[c][i].wire
         answer == Handler(wire, store)
     IN /\ store' = answer.store
        /\ job' = [job EXCEPT ![c][i] =
             Answered(StatusFor(wire, answer.error), answer.wrote,
                      AsWanted(client[c].ask.request, answer.store))]
  /\ UNCHANGED <<config, client>>

Next ==
  \/ \E file \in File : Restart(file)
  \/ Elsewhere
  \/ \E c \in Client :
       \/ \E ask \in Ask : Call(c, ask)
       \/ Send(c)
       \/ NotConnected(c)
       \/ Receive(c)
       \/ Lose(c)
       \/ \E i \in Try : Authorize(c, i) \/ Handle(c, i)

Spec == Init /\ [][Next]_vars

-----------------------------------------------------------------------------
Guarded(request) == RouteOf(request).guard # "none"

(* The configuration gives the key of a request this secret, in the last   *)
(* of its entries for it.                                                  *)
Knows(file, key, secret) ==
  LET entries == file.credentials
      of == {i \in DOMAIN entries : entries[i].key = key}
  IN of # {} /\ \A i \in of : (\A j \in of : j <= i) => entries[i].secret = secret

(* The value the server takes for a header.                                *)
Sees(request, h) ==
  IF h \in DOMAIN request.headers THEN request.headers[h] ELSE Fallback(request)[h]

(* It is the target that says what is to be done.                          *)
ByTarget(request) == RouteOf(request).guard \in {"ssm", "kms"}

(* A handler behind a guard is called for no one but a client that has the *)
(* secret the running server knows, however the keys are edited between    *)
(* two starts.  Of what is signed it is given the method, the path, the    *)
(* body, the headers the client has listed and the query of a GET as they  *)
(* were sent, whatever else was changed on the way: the query of another   *)
(* method and the headers that are not listed are not looked at.  That     *)
(* makes no difference to what is done, provided that the target is listed.*)
HandledAsSigned ==
  \A c \in Client, i \in Try : job[c][i].pc = "handling" =>
    LET ask == client[c].ask
        wire == job[c][i].wire
        sent == Arrived(Prepared(ask))
        listed == sent.auth.listed
    IN Guarded(wire) =>
         /\ config # Down
         /\ Knows(config, ask.request.auth.key, ask.secret)
         /\ RouteOf(wire).guard # "basic" =>
              /\ wire.method = sent.method /\ wire.path = sent.path
              /\ wire.body = sent.body
              /\ \A h \in listed : Sees(wire, h) = ask.request.headers[h]
              /\ wire.method = "GET" => wire.query = sent.query
              /\ (ByTarget(sent) => "x-amz-target" \in listed)
                   => \A now \in Store : Handler(wire, now) = Handler(sent, now)

(* The requests the check cannot accept whoever signed them: what is       *)
(* hashed of them is not what was sent.                                    *)
Unreadable(ask) ==
  \/ KeyLength[ask.request.auth.key] < 4
  \/ ask.request.method # "GET" /\ ask.request.query # NoQuery
  \/ ask.request.body \in Long

(* The guard refuses a request only if it was damaged or is not meant for  *)
(* this server and service, its client does not have the secret, signs     *)
(* where a password is asked for or the other way round, or it is one of   *)
(* those the check cannot accept.                                          *)
GoodIsAccepted ==
  \A c \in Client, i \in Try : job[c][i].pc = "refused" =>
    LET ask == client[c].ask
        wire == job[c][i].wire
        guard == RouteOf(wire).guard
    IN \/ ~Knows(job[c][i].under, ask.request.auth.key, ask.secret)
       \/ (guard = "basic") # ("password" \in DOMAIN ask.request.auth)
       \/ guard = "basic" /\ wire.auth.flaws # {}
       \/ guard # "basic"
            /\ \/ wire # Arrived(Prepared(ask))
               \/ ask.request.auth.service # guard
               \/ ask.request.auth.region # job[c][i].under.region
               \/ Unreadable(ask)

Did(c) == {i \in Try : job[c][i].pc = "answered" /\ job[c][i].wrote}

(* A client that wants something changed.  One that does not list its      *)
(* target may be taken for another; a tag edit by a name without its slash *)
(* goes to another key; of the names DeleteParameters cannot read the      *)
(* answer says so.                                                         *)
Changes(request) ==
  /\ "password" \notin DOMAIN request.auth
  /\ \/ /\ RouteOf(request).handler = "Ssm"
        /\ "x-amz-target" \in request.auth.listed
        /\ LET target == Header(request, "x-amz-target")
           IN \/ target \in {"PutParameter", "DeleteParameter"}
              \/ target = "DeleteParameters" /\ request.body.valid
              \/ /\ target \in {"AddTagsToResource", "RemoveTagsFromResource"}
                 /\ request.body.kind = "Parameter" /\ ~request.body.bare
     \/ RouteOf(request).handler \in
          {"ChangeResourceRecordSets", "ChangeTagsForResource",
           "CreateHostedZone", "DeleteHostedZone", "UpdateHostedZoneComment"}

(* A client that was told of success has been served by one of its         *)
(* attempts: it wrote, and left the parameter or the zone as the client    *)
(* wants it, whatever was changed on the way.  Others may have changed it  *)
(* since, and that there was nothing to delete is a success too.           *)
SuccessIsDone ==
  \A c \in Client :
    (client[c].pc = "told" /\ client[c].status = 200 /\ Changes(client[c].ask.request))
      => \E i \in Did(c) : job[c][i].left

(* However often a client asks again, its change is made once, or not at   *)
(* all if it is told of an error; and once more for each answer that was   *)
(* lost.                                                                   *)
DoneOnce ==
  \A c \in Client : client[c].pc # "idle" =>
    Cardinality(Did(c)) <= client[c].lost +
      IF client[c].pc = "told" /\ client[c].status >= 400 THEN 0 ELSE 1
=============================================================================
