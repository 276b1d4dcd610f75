-------------------------------- MODULE Api --------------------------------
(***************************************************************************)
(* What the server does with one request: the routes of cmd/home-fern, the *)
(* checks in front of the handlers (V4Sig, internal/core/auth.go), the     *)
(* handlers of internal/ssm, internal/kms and internal/route53 and the     *)
(* status each answers with.                                               *)
(*                                                                         *)
(* A path is [pattern, id, kind], the last two being what the router takes *)
(* out of it.  A body is [readable, valid, kind, action, overwrite, bare]: *)
(* whether it can be decoded, whether the service finds nothing wrong with *)
(* the names, filters, keys and types in it, and whether the parameter's   *)
(* name in it lacks the slash.                                             *)
(*                                                                         *)
(* The requests are about one parameter, one tag of it and one hosted      *)
(* zone; the store is what there is of them.  Ssm and Route53 have the     *)
(* services in full: here a request is one step.  The handlers behind a    *)
(* password are in TfState and DbFunctions.                                *)
(*                                                                         *)
(* Definitions whose name starts with Broken are faulty variants of the    *)
(* definition after them, used by no specification: each shows that a      *)
(* property would fail if the code had that fault.                         *)
(***************************************************************************)
EXTENDS V4Sig

Store == [param : {"none", "plain", "tagged"}, zone : {"none", "apex", "full"}]

Answer(error, now, wrote) == [error |-> error, store |-> now, wrote |-> wrote]
Refuse(error, store) == Answer(error, store, FALSE)
Reply(store) == Answer("None", store, FALSE)
Write(now) == Answer("None", now, TRUE)

Decoded(body, store, answer) ==
  IF body.readable THEN answer ELSE Refuse("BadRequest", store)

-----------------------------------------------------------------------------
(* internal/ssm.                                                           *)

(* getParameterByName comes first.                                         *)
Named(body, store, answer) ==
  CASE ~body.valid -> Refuse("ErrInvalidName", store)
    [] body.valid /\ store.param = "none" -> Refuse("core.ErrNotFound", store)
    [] OTHER -> answer

(* Tags of anything but parameters are an empty success.                   *)
Tagged(body, store, answer) ==
  IF body.kind = "Parameter" THEN Named(body, store, answer) ELSE Reply(store)

(* What is read under the path is written back under the name the request  *)
(* has: without the slash it is another key, and the parameter stays as it *)
(* is.                                                                     *)
Retagged(body, store, param) ==
  Tagged(body, store,
         Write(IF body.bare THEN store ELSE [store EXCEPT !.param = param]))

(* A put keeps the tags of the parameter it overwrites.                    *)
Put(store) ==
  [store EXCEPT !.param = IF store.param = "none" THEN "plain" ELSE store.param]

BrokenPutParameter(body, store) ==   \* refused only when it is written
  CASE ~body.valid -> Refuse("ErrInvalidDataType", store)
    [] body.valid /\ store.param # "none" /\ ~body.overwrite ->
         Answer("core.ErrAlreadyExists", store, TRUE)
    [] OTHER -> Write(Put(store))

putParameter(body, store) ==
  CASE ~body.valid -> Refuse("ErrInvalidDataType", store)
    [] body.valid /\ store.param # "none" /\ ~body.overwrite ->
         Refuse("core.ErrAlreadyExists", store)
    [] OTHER -> Write(Put(store))

(* Nothing to delete is a success.                                         *)
deleteParameter(body, store) ==
  IF body.valid THEN Write([store EXCEPT !.param = "none"])
                ELSE Refuse("ErrInvalidName", store)

(* An invalid name is listed in the answer, which is a success.            *)
deleteParameters(body, store) ==
  IF body.valid THEN Write([store EXCEPT !.param = "none"]) ELSE Reply(store)

(* What each target's handler does with a body it could read.              *)
SsmHandlers(body, store) ==
  [DeleteParameter |-> deleteParameter(body, store),
   DeleteParameters |-> deleteParameters(body, store),
   DescribeParameters |-> IF body.valid THEN Reply(store)
                          ELSE Refuse("ErrInvalidFilterKey", store),
   GetParameter |-> Named(body, store, Reply(store)),
   GetParameters |-> Reply(store),
   GetParametersByPath |-> IF body.valid THEN Reply(store)
                           ELSE Refuse("ErrInvalidPath", store),
   PutParameter |-> putParameter(body, store),
   ListTagsForResource |-> Tagged(body, store, Reply(store)),
   AddTagsToResource |-> Retagged(body, store, "tagged"),
   RemoveTagsFromResource |-> Retagged(body, store, "plain")]

SsmHandle(request, store) ==
  LET body == request.body
      handlers == SsmHandlers(body, store)
      target == Header(request, "x-amz-target")
  IN IF target \notin DOMAIN handlers THEN Refuse("ValidationException", store)
     ELSE Decoded(body, store, handlers[target])

(* Errors that were meant for it are answered 400; the store's own are not *)
(* among them.                                                             *)
SsmStatus(error) ==
  IF error \in {"BadRequest", "ValidationException",
                "ErrParameterNotFound", "ErrParameterAlreadyExists",
                "ErrUnsupportedParameterType", "ErrInvalidKeyId",
                "ErrInvalidName", "ErrInvalidDataType", "ErrInvalidTier",
                "ErrInvalidFilterKey", "ErrInvalidFilterOption",
                "ErrInvalidFilterValue", "ErrInvalidPath"}
  THEN 400 ELSE 500

-----------------------------------------------------------------------------
(* internal/kms.                                                           *)

Encrypt(body, store) ==
  IF body.valid THEN Reply(store) ELSE Refuse("ErrInvalidKeyId", store)

(* The ciphertext is not one of the key, or the key is not there: the same *)
(* status.                                                                 *)
Decrypt(body, store) ==
  IF body.valid THEN Reply(store)
                ELSE Refuse("ErrInvalidCiphertextException", store)

(* Another target is answered with nothing, which is a success.            *)
KmsHandle(request, store) ==
  LET target == Header(request, "x-amz-target")
  IN CASE target = "Encrypt" ->
            Decoded(request.body, store, Encrypt(request.body, store))
       [] target = "Decrypt" ->
            Decoded(request.body, store, Decrypt(request.body, store))
       [] OTHER -> Reply(store)

KmsStatus(error) ==
  IF error \in {"BadRequest", "ErrInvalidKeyId", "ErrInvalidCiphertextException"}
  THEN 400 ELSE 500

-----------------------------------------------------------------------------
(* internal/route53.                                                       *)

BrokenInZone(request, store, answer) ==   \* its error is dropped
  IF request.path.id = "here" /\ store.zone # "none" THEN answer ELSE Reply(store)

(* getHostedZone comes first.                                              *)
InZone(request, store, answer) ==
  IF request.path.id = "here" /\ store.zone # "none" THEN answer
  ELSE Refuse("ErrNoSuchHostedZone", store)

(* Nothing but hosted zones has tags.                                      *)
TaggedZone(request, store, answer) ==
  IF request.path.kind = "hostedzone" THEN InZone(request, store, answer)
  ELSE Refuse("ErrInvalidInput", store)

(* The zone has one record set of its own, or none.                        *)
Change(body, store) ==
  CASE ~body.valid -> Refuse("ErrInvalidChangeBatch", store)
    [] body.valid /\ body.action = "CREATE" /\ store.zone = "full" ->
         Refuse("ErrInvalidInput", store)
    [] OTHER -> Write([store EXCEPT
         !.zone = IF body.action = "DELETE" THEN "apex" ELSE "full"])

ChangeResourceRecordSets(request, store) ==
  Decoded(request.body, store,
          InZone(request, store, Change(request.body, store)))

ChangeTagsForResource(request, store) ==
  Decoded(request.body, store, TaggedZone(request, store, Write(store)))

BrokenCreateHostedZone(request, store) ==   \* without SOA and NS record sets
  Decoded(request.body, store,
    IF store.zone # "none" THEN Refuse("ErrHostedZoneAlreadyExists", store)
    ELSE Write([store EXCEPT !.zone = "bare"]))

CreateHostedZone(request, store) ==
  Decoded(request.body, store,
    IF store.zone # "none" THEN Refuse("ErrHostedZoneAlreadyExists", store)
    ELSE Write([store EXCEPT !.zone = "apex"]))

DeleteHostedZone(request, store) ==
  InZone(request, store,
    IF store.zone = "full" THEN Refuse("ErrHostedZoneNotEmpty", store)
    ELSE Write([store EXCEPT !.zone = "none"]))

(* A change that is not known is said to have expired.                     *)
GetChange(request, store) == Reply(store)
GetHostedZone(request, store) == InZone(request, store, Reply(store))
GetHostedZoneCount(request, store) == Reply(store)
ListHostedZones(request, store) == Reply(store)

(* A query with a zone's id but without its name is refused.               *)
ListHostedZonesByName(request, store) ==
  IF request.query = "hostedzoneid" THEN Refuse("ErrInvalidInput", store)
                                    ELSE Reply(store)

ListResourceRecordSets(request, store) == InZone(request, store, Reply(store))
ListTagsForResource(request, store) == TaggedZone(request, store, Reply(store))

UpdateHostedZoneComment(request, store) ==
  Decoded(request.body, store, InZone(request, store, Write(store)))

Route53Status(error) ==
  CASE error = "ErrHostedZoneAlreadyExists" -> 409
    [] error \in {"ErrNoSuchHostedZone", "core.ErrNotFound"} -> 404
    [] error \in {"BadRequest", "ErrHostedZoneNotEmpty",
                  "ErrInvalidChangeBatch", "ErrInvalidInput"} -> 400
    [] OTHER -> 500

-----------------------------------------------------------------------------
(* The routes: what they match, who may use them, and what handles them.   *)

On(methods, patterns) == [methods |-> methods, patterns |-> patterns]

Zone == "hostedzone/{id}"
RrSets == "hostedzone/{id}/rrset"
TagsOf == "tags/{resourceType}/{resourceId}"

(* A handler has one route.                                                *)
PasswordRoutes ==
  [Keys |-> On({"GET"}, {"db/keys/{service}"}),
   Export |-> On({"GET"}, {"db/export/{service}"}),
   Import |-> On({"POST", "PUT"}, {"db/import/{service}"}),
   GetState |-> On({"GET"}, {"tfstate/{project}"}),
   SaveState |-> On({"POST"}, {"tfstate/{project}"}),
   DeleteState |-> On({"DELETE"}, {"tfstate/{project}"}),
   LockState |-> On({"LOCK"}, {"tfstate/{project}/lock"}),
   UnlockState |-> On({"UNLOCK"}, {"tfstate/{project}/unlock"})]

KmsRoutes == [Kms |-> On({"POST"}, {"kms", "kms/"})]
SsmRoutes == [Ssm |-> On({"POST"}, {"ssm", "ssm/"})]

Route53Routes ==
  [ListHostedZonesByName |-> On({"GET"}, {"hostedzonesbyname"}),
   ListResourceRecordSets |-> On({"GET"}, {RrSets}),
   ChangeResourceRecordSets |-> On({"POST"}, {RrSets, "hostedzone/{id}/rrset/"}),
   UpdateHostedZoneComment |-> On({"POST"}, {Zone}),
   DeleteHostedZone |-> On({"DELETE"}, {Zone}),
   GetHostedZone |-> On({"GET"}, {Zone}),
   CreateHostedZone |-> On({"POST"}, {"hostedzone", "hostedzone/"}),
   ListHostedZones |-> On({"GET"}, {"hostedzone"}),
   GetHostedZoneCount |-> On({"GET"}, {"hostedzonecount"}),
   GetChange |-> On({"GET"}, {"change/{id}"}),
   ListTagsForResource |-> On({"GET"}, {TagsOf}),
   ChangeTagsForResource |-> On({"POST"}, {TagsOf})]

Route(guard, handler, on) == [guard |-> guard, handler |-> handler, on |-> on]

Behind(guard, routes) == {Route(guard, h, routes[h]) : h \in DOMAIN routes}

Routes == Behind("basic", PasswordRoutes) \cup Behind("kms", KmsRoutes)
            \cup Behind("ssm", SsmRoutes) \cup Behind("route53", Route53Routes)

(* Whatever no route matches is a file to be served to anyone.  Nobody     *)
(* asks here for one that is there.                                        *)
Files == Route("none", "Files", On({}, {}))

RouteOf(request) ==
  LET found == {r \in Routes : /\ request.path.pattern \in r.on.patterns
                               /\ request.method \in r.on.methods}
  IN IF found = {} THEN Files ELSE CHOOSE r \in found : TRUE

(* The user is looked up like an access key; a request that is signed      *)
(* instead has no user.                                                    *)
WithBasicAuth(request, config) ==
  IF /\ "password" \in DOMAIN request.auth /\ request.auth.flaws = {}
     /\ request.auth.password \in
          FindCredentials(config.credentials, request.auth.key)
  THEN "None" ELSE "Unauthorized"

(* "None" if the handler may be called.                                    *)
Guard(request, config) ==
  LET guard == RouteOf(request).guard
  IN CASE guard = "none" -> "None"
       [] guard = "basic" -> WithBasicAuth(request, config)
       [] OTHER -> checkV4Sig(request, config, guard)

GuardStatus(error) == IF error = "Unauthorized" THEN 401 ELSE StatusOf(error)

Route53Handlers(request, store) ==
  [ChangeResourceRecordSets |-> ChangeResourceRecordSets(request, store),
   ChangeTagsForResource |-> ChangeTagsForResource(request, store),
   CreateHostedZone |-> CreateHostedZone(request, store),
   DeleteHostedZone |-> DeleteHostedZone(request, store),
   GetChange |-> GetChange(request, store),
   GetHostedZone |-> GetHostedZone(request, store),
   GetHostedZoneCount |-> GetHostedZoneCount(request, store),
   ListHostedZones |-> ListHostedZones(request, store),
   ListHostedZonesByName |-> ListHostedZonesByName(request, store),
   ListResourceRecordSets |-> ListResourceRecordSets(request, store),
   ListTagsForResource |-> ListTagsForResource(request, store),
   UpdateHostedZoneComment |-> UpdateHostedZoneComment(request, store)]

(* Behind a password nothing is done to parameters and zones but by an     *)
(* import.                                                                 *)
Handler(request, store) ==
  LET route == RouteOf(request)
  IN CASE route.guard = "route53" -> Route53Handlers(request, store)[route.handler]
       [] route.handler = "Ssm" -> SsmHandle(request, store)
       [] route.handler = "Kms" -> KmsHandle(request, store)
       [] route.handler = "Files" -> Refuse("NotFound", store)
       [] OTHER -> Reply(store)

StatusFor(request, error) ==
  LET guard == RouteOf(request).guard
  IN CASE error = "None" -> 200
       [] error # "None" /\ guard = "route53" -> Route53Status(error)
       [] error # "None" /\ guard = "ssm" -> SsmStatus(error)
       [] error # "None" /\ guard = "kms" -> KmsStatus(error)
       [] OTHER -> 404
=============================================================================
