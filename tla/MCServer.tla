------------------------------ MODULE MCServer ------------------------------
(* One client at a time makes each kind of call, with two attempts, while  *)
(* others change what there is; a configuration with one entry for its     *)
(* key, one with two, and one the server does not start with.              *)
EXTENDS Server, TLC

CONSTANTS c1, s1, s2, r1, r2, today

Key == "AKIA"
Short == "ab"
MCKeyLength == Key :> 4 @@ Short :> 2

Entry(key, secret) == [key |-> key, secret |-> secret]
Configured(region, credentials, complete) ==
  [region |-> region, credentials |-> credentials, complete |-> complete]
MCFile == { Configured(r1, <<Entry(Key, s1), Entry(Short, s1)>>, TRUE),
            Configured(r1, <<Entry(Key, s1), Entry(Key, s2)>>, TRUE),
            Configured(r1, <<>>, TRUE),
            Configured("", <<Entry(Key, s1)>>, TRUE) }

Body(valid, kind, action, overwrite) ==
  [readable |-> TRUE, valid |-> valid, kind |-> kind, action |-> action,
   overwrite |-> overwrite, bare |-> FALSE]
Good == Body(TRUE, "Parameter", "CREATE", FALSE)
Bad == [Good EXCEPT !.valid = FALSE]
Huge == [Good EXCEPT !.kind = "huge"]
MCLong == {Huge}

Date == [format |-> "iso8601", time |-> today]
Auth(key, region, service, listed) ==
  [flaws |-> {}, key |-> key, day |-> today, region |-> region,
   service |-> service, listed |-> listed, signature |-> "none"]
Request(method, path, query, headers, body, auth) ==
  [method |-> method, path |-> path, query |-> query, host |-> "fern",
   headers |-> headers @@ "host" :> "fern", encoding |-> "chunked",
   length |-> 7, body |-> body, auth |-> auth]
Path(pattern, id) == [pattern |-> pattern, id |-> id, kind |-> "hostedzone"]

Asking(request, secret) == [request |-> request, secret |-> secret]

(* The SDKs sign a target, a date, the host and the length.                *)
Targeted(service, key, region, target, body, secret) ==
  Asking(Request("POST", Path(service, "none"), NoQuery,
                 "x-amz-target" :> target @@ "x-amz-date" :> Date
                   @@ "content-length" :> 7 @@ "expect" :> "100-continue",
                 body,
                 Auth(key, region, service,
                      {"host", "x-amz-date", "x-amz-target", "content-length",
                       "expect"})),
         secret)
Ssm(target, body) == Targeted("ssm", Key, r1, target, body, s1)
Kms(target, body) == Targeted("kms", Key, r1, target, body, s1)

Zones(method, path, query, body) ==
  Asking(Request(method, path, query,
                 "date" :> Date @@ "transfer-encoding" :> "chunked", body,
                 Auth(Key, r1, "route53", {"host", "date", "transfer-encoding"})),
         s1)
One(method, pattern, body) == Zones(method, Path(pattern, "here"), NoQuery, body)

State(method, password) ==
  Asking(Request(method, Path("tfstate/{project}", "p"), NoQuery, <<>>, Good,
                 [flaws |-> {}, key |-> Key, password |-> password]),
         password)

OtherService == [Ssm("PutParameter", Good) EXCEPT !.request.auth.service = "kms"]

(* No SDK leaves the target out of what it signs.                          *)
Unlisted == [Ssm("PutParameter", Good) EXCEPT !.request.auth.listed =
               @ \ {"x-amz-target"}]

MCAsk ==
  { Ssm("PutParameter", Good), Ssm("PutParameter", [Good EXCEPT !.overwrite = TRUE]),
    Ssm("PutParameter", Huge),
    Ssm("DeleteParameter", Good), Ssm("DeleteParameters", Bad),
    Ssm("AddTagsToResource", Good),
    Ssm("RemoveTagsFromResource", [Good EXCEPT !.bare = TRUE]),
    Targeted("ssm", Key, r1, "PutParameter", Good, s2),
    Targeted("ssm", Key, r2, "PutParameter", Good, s1),
    Targeted("ssm", Short, r1, "PutParameter", Good, s1),
    OtherService, Unlisted,
    Kms("Encrypt", [Good EXCEPT !.readable = FALSE]),
    One("POST", "hostedzone", Good), One("DELETE", Zone, Good),
    One("POST", RrSets, [Good EXCEPT !.action = "DELETE"]),
    One("POST", TagsOf, Good),
    Zones("GET", Path("hostedzonesbyname", "none"), "hostedzoneid", Good),
    Zones("DELETE", Path(Zone, "here"), "x-id", Good),
    Zones("GET", Path("tfstate/{project}", "p"), NoQuery, Good),
    State("POST", s2) }

MCFlaw == {"scope"}
MCStray == {"query" :> "x-id", "path" :> Path("hostedzonecount", "none")}
MCStrayHeader == {"x-amz-target" :> "DeleteParameter"}
MCLostHeader == {"x-amz-date"}
MCStripped == {"host", "expect", "transfer-encoding", "content-length"}
=============================================================================
