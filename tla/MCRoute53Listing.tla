------------------------- MODULE MCRoute53Listing -------------------------
(* Zone h. with the names h., h.h., m.h. and mh.h., of which all but m.h.  *)
(* repeat the zone's name or share a key with one that does; three zones,  *)
(* one with a name before "."; pages of none, one and three.               *)
EXTENDS Route53Listing, TLC

CONSTANTS c1, z1, z2, z3

MCLower == "h" :> "h" @@ "m" :> "m" @@ "M" :> "m" @@ "." :> "." @@ "@" :> "@"
MCApexKey == <<"@">>
MCHomeName == <<"h", ".">>

Twice == <<"h", ".", "h">>
Big == <<"M", ".", "h", ".">>
Small == <<"m", ".", "h">>
Longer == <<"m", "h", ".", "h", ".">>
Other == <<"m", "h">>
MCRrName == {MCHomeName, Twice, Big, Small, Longer, Other}
MCRrType == {"A", "NS", "SOA"}

Set(action, name) == [action |-> action, name |-> name, type |-> "A"]
MCChangeBatch ==
  { <<Set("CREATE", Big)>>, <<Set("UPSERT", Small)>>, <<Set("DELETE", Big)>>,
    <<Set("CREATE", Longer), Set("UPSERT", MCHomeName)>>,
    <<Set("DELETE", Small), Set("CREATE", Other)>>,
    <<Set("DELETE", MCHomeName), Set("CREATE", Small)>>,
    <<Set("DELETE", Longer), Set("UPSERT", Twice)>>,
    <<Set("DELETE", Twice)>> }

RrRank == <<MCHomeName, "A">> :> 1 @@ <<MCHomeName, "NS">> :> 2
            @@ <<MCHomeName, "SOA">> :> 3
            @@ <<Spelled(Twice), "A">> :> 4 @@ <<Spelled(Twice), "NS">> :> 5
            @@ <<Spelled(Twice), "SOA">> :> 6
            @@ <<Spelled(Small), "A">> :> 7 @@ <<Spelled(Small), "NS">> :> 8
            @@ <<Spelled(Small), "SOA">> :> 9
            @@ <<Spelled(Longer), "A">> :> 10 @@ <<Spelled(Longer), "NS">> :> 11
            @@ <<Spelled(Longer), "SOA">> :> 12

RankTable ==
  "records" :> (RrRank @@ z1 :> 13 @@ z2 :> 14 @@ z3 :> 15)
    @@ "zones" :> (z1 :> 1 @@ z2 :> 2 @@ z3 :> 3
         @@ [r \in DOMAIN RrRank |-> 3 + RrRank[r]])
    @@ "byname" :> (z1 :> 2 @@ z2 :> 3 @@ z3 :> 0
         @@ [r \in DOMAIN RrRank |-> 3 + RrRank[r]])
MCRank == RankTable
MCStart == "records" :> {0, 3} @@ "zones" :> {0} @@ "byname" :> {1, 4}
MCMaxItems == {-1, 0, 1, 2, 4, 5}
=============================================================================
