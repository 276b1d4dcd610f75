------------------------------- MODULE V4Sig -------------------------------
(***************************************************************************)
(* The signature check of internal/awslib/v4sig.go.  A request is          *)
(*   [method, path, query, headers, host, encoding, length, body, auth]    *)
(* where headers is a function of some header names, in lower case, and    *)
(* auth the Authorization header:                                          *)
(*   [flaws, key, day, region, service, listed, signature]                 *)
(* or, of a client that sends a password, [flaws, key, password].  flaws   *)
(* holds the pieces of it that cannot be read, listed the names of the     *)
(* headers the signature is about.  A date header is [format, time].       *)
(*                                                                         *)
(* Hashes and MACs are the records of what they are made from: two are     *)
(* equal only if they are made from the same.  Sorting, escaping and       *)
(* trimming make one text of what a client signs and what the server       *)
(* reads, so the model has neither.                                        *)
(*                                                                         *)
(* Definitions whose name starts with Broken are faulty variants of the    *)
(* definition after them, used by no specification: each shows that a      *)
(* property would fail if the code had that fault.                         *)
(***************************************************************************)
EXTENDS Integers, Sequences, FiniteSets

CONSTANTS
  KeyLength,    \* the length of each access key id
  Long,         \* the bodies of more than 10 MiB
  NoQuery,      \* the query string of a request that has none
  NoDate,       \* a request without the date header asked for
  Stripped      \* the headers net/http takes out of a request

ASSUME V4SigAssumption ==
  /\ KeyLength \in [DOMAIN KeyLength -> Nat]
  /\ Stripped \subseteq {"expect", "host", "transfer-encoding", "content-length"}

(* The first check that fails names the error.                             *)
FirstError(checks) ==
  LET failed == {i \in DOMAIN checks : checks[i][1]}
  IN IF failed = {} THEN "None"
     ELSE checks[CHOOSE i \in failed : \A j \in failed : i <= j][2]

-----------------------------------------------------------------------------
(* The credentials of the configuration: a list of [key, secret].          *)

BrokenFindCredentials(credentials, key) ==   \* the first entry wins
  LET found == {i \in DOMAIN credentials : credentials[i].key = key}
  IN IF found = {} THEN {}
     ELSE {credentials[CHOOSE i \in found : \A j \in found : i <= j].secret}

(* They are put into a map one after the other: of two entries with the    *)
(* same key the last one counts.  The secret, if there is one.             *)
FindCredentials(credentials, key) ==
  LET found == {i \in DOMAIN credentials : credentials[i].key = key}
  IN IF found = {} THEN {}
     ELSE {credentials[CHOOSE i \in found : \A j \in found : j <= i].secret}

-----------------------------------------------------------------------------
(* Reading the Authorization header.                                       *)

parseCredentialHeader(auth, region, service) ==
  << <<"credential" \in auth.flaws, "MissingFields">>,
     <<"credentialTag" \in auth.flaws, "MissingCredTag">>,
     <<"scope" \in auth.flaws, "CredMalformed">>,
     <<KeyLength[auth.key] < 4, "InvalidAccessKeyID">>,
     <<"scopeDate" \in auth.flaws, "MalformedCredentialDate">>,
     <<auth.region # region, "AuthorizationHeaderMalformed">>,
     <<auth.service # service, "InvalidService">>,
     <<"aws4_request" \in auth.flaws, "InvalidRequestVersion">> >>

parseSignedHeader(auth) ==
  << <<"headers" \in auth.flaws, "MissingFields">>,
     <<"headersTag" \in auth.flaws, "MissingSignHeadersTag">> >>

parseSignature(auth) ==
  << <<"signatureTag" \in auth.flaws, "MissingSignTag">>,
     <<"signature" \in auth.flaws, "MissingFields">> >>

parseSignV4(auth, region, service) ==
  IF "password" \in DOMAIN auth
  THEN IF "empty" \in auth.flaws THEN "AuthHeaderEmpty"
                                 ELSE "SignatureVersionNotSupported"
  ELSE FirstError(
    << <<"empty" \in auth.flaws, "AuthHeaderEmpty">>,
       <<"algorithm" \in auth.flaws, "SignatureVersionNotSupported">>,
       <<"fields" \in auth.flaws, "MissingFields">> >>
    \o parseCredentialHeader(auth, region, service)
    \o parseSignedHeader(auth) \o parseSignature(auth))

-----------------------------------------------------------------------------
(* What the server makes its own signature from.                           *)

(* At most 10 MiB of the body are read; what follows never sees the rest.  *)
ReadPayload(body) == IF body \in Long THEN [cut |-> body] ELSE body

(* net/http keeps these apart from the other headers.                      *)
Fallback(request) ==
  [h \in {"expect", "host", "transfer-encoding", "content-length"} |->
    CASE h = "expect" -> "100-continue"
      [] h = "host" -> request.host
      [] h = "transfer-encoding" -> request.encoding
      [] h = "content-length" -> request.length]

Unsigned == [unsigned |-> TRUE]

BrokenExtractSignedHeaders(listed, request) ==   \* only what is in the map
  IF "host" \notin listed \/ ~(listed \subseteq DOMAIN request.headers)
  THEN Unsigned
  ELSE [h \in listed |-> request.headers[h]]

(* The value of each listed header, or ErrUnsignedHeaders.                 *)
extractSignedHeaders(listed, request) ==
  IF \/ "host" \notin listed
     \/ \E h \in listed : h \notin DOMAIN request.headers \cup DOMAIN Fallback(request)
  THEN Unsigned
  ELSE [h \in listed |-> IF h \in DOMAIN request.headers
                         THEN request.headers[h] ELSE Fallback(request)[h]]

(* X-Amz-Date, or else Date.                                               *)
Header(request, name) ==
  IF name \in DOMAIN request.headers THEN request.headers[name] ELSE NoDate
DateOf(request) ==
  IF Header(request, "x-amz-date") # NoDate THEN Header(request, "x-amz-date")
                                            ELSE Header(request, "date")

(* r.Form is empty, for nobody parses it: only a GET has a query here.     *)
QueryOf(request) == IF request.method = "GET" THEN request.query ELSE NoQuery

getCanonicalRequest(headers, payload, query, request) ==
  [method |-> request.method, path |-> request.path, query |-> query,
   headers |-> headers, payload |-> payload]

getSignature(secret, auth, service, time, canonical) ==
  [secret |-> secret, day |-> auth.day, region |-> auth.region,
   service |-> service, time |-> time, request |-> canonical]

(* "None" if the request may go on.                                        *)
checkV4Sig(request, config, service) ==
  LET auth == request.auth
      malformed == parseSignV4(auth, config.region, service)
      headers == extractSignedHeaders(auth.listed, request)
      date == DateOf(request)
      canonical == getCanonicalRequest(
        headers, ReadPayload(request.body), QueryOf(request), request)
      signatures ==
        {getSignature(secret, auth, service, date.time, canonical) :
           secret \in FindCredentials(config.credentials, auth.key)}
  IN IF malformed # "None" THEN malformed
     ELSE FirstError(
       << <<headers = Unsigned, "UnsignedHeaders">>,
          <<FindCredentials(config.credentials, auth.key) = {},
            "InvalidAccessKeyID">>,
          <<date = NoDate, "MissingDateHeader">>,
          <<date # NoDate /\ date.format # "iso8601", "MalformedDate">>,
          <<date # NoDate /\ auth.signature \notin signatures,
            "SignatureDoesNotMatch">> >>)

(* The status of each error in the table of errors.go.                     *)
StatusOf(error) ==
  IF error \in {"InvalidAccessKeyID", "SignatureDoesNotMatch"} THEN 403 ELSE 400

-----------------------------------------------------------------------------
(* The client's side: the AWS SDK signs what it is about to send, and      *)
(* net/http takes the request apart when it arrives.                       *)

Signed(request, secret) ==
  LET auth == request.auth
      canonical ==
        [method |-> request.method, path |-> request.path,
         query |-> request.query,
         headers |-> [h \in auth.listed \cap DOMAIN request.headers |->
                        request.headers[h]],
         payload |-> request.body]
      signature ==
        [secret |-> secret, day |-> auth.day, region |-> auth.region,
         service |-> auth.service, time |-> DateOf(request).time,
         request |-> canonical]
  IN [request EXCEPT !.auth.signature = signature]

Arrived(request) ==
  [request EXCEPT !.headers =
     [h \in DOMAIN request.headers \ Stripped |-> request.headers[h]]]
=============================================================================
