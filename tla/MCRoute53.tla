----------------------------- MODULE MCRoute53 -----------------------------
(* Two ids for zones and two for changes; beside the record sets of the    *)
(* apex one of another type.  Of the names, plain is "b."; odd is "a+b.",  *)
(* whose expression finds "ab." but not itself; star is "*.b.", which is   *)
(* no expression at all.                                                   *)
EXTENDS Route53, TLC

CONSTANTS z1, z2, c1, c2, plain, odd, star, soa, ns, www, c, t, h1, h2

MCZoneId == {z1, z2}
MCChangeId == {c1, c2}
MCHandler == {h1, h2}
HandlerSymmetry == Permutations(MCHandler) \cup Permutations(MCChangeId)

MCZoneName == {plain, odd, star}
MCOccurs == {<<plain, plain>>, <<plain, odd>>, <<plain, star>>}
MCMalformed == {star}

MCRr == {soa, ns, www}
MCRrType == soa :> "SOA" @@ ns :> "NS" @@ www :> "other"

MCComment == {NoComment, c}
MCTags == {NoTags, t}
OneTags == {NoTags}

Change(action, r) == [action |-> action, rr |-> r]

(* Adding and removing; a batch whose second change finds its key taken,   *)
(* and one that reaches outside the zone.                                  *)
MCChangeBatch ==
  { <<Change("CREATE", www)>>,
    <<Change("DELETE", www), Change("DELETE", ns)>>,
    <<Change("UPSERT", www), Change("CREATE", soa)>>,
    <<Change("CREATE", www), Change("UPSERT", Outside)>> }

Zone(n) == [name |-> n, comment |-> NoComment, tags |-> NoTags]
Export(i, n, records) == [id |-> i, zone |-> Zone(n), records |-> records]

MCImportList == { <<Export(z1, plain, <<soa, www>>)>> }
=============================================================================
