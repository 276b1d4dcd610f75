---------------------------- MODULE RecordNames ----------------------------
(***************************************************************************)
(* The keys internal/route53 files record sets under.  A name is a         *)
(* sequence of characters, "." the one between labels: which names share a *)
(* key depends on how the zone's name is taken out of them.                *)
(***************************************************************************)
EXTENDS Integers, Sequences

CONSTANTS Lower,     \* the lower case of every character
          ApexKey,   \* "@", what the zone's own name is filed under
          Invalid    \* ErrInvalidChangeBatch

Dot == "."

(* The spelling a name is compared and stored in: lower case, a dot last.  *)
Spelled(name) ==
  LET lwr == [i \in DOMAIN name |-> Lower[name[i]]]
  IN IF Len(lwr) > 0 /\ lwr[Len(lwr)] = Dot THEN lwr ELSE Append(lwr, Dot)

(* text begins at place i of name.                                         *)
FoundAt(text, name, i) ==
  /\ i \in 1..(Len(name) - Len(text) + 1)
  /\ SubSeq(name, i, i + Len(text) - 1) = text

HasSuffix(name, text) == FoundAt(text, name, Len(name) - Len(text) + 1)

(* name without text, which is taken out wherever it occurs, from the left.*)
Remove(text, name) ==
  LET from[i \in 1..(Len(name) + 1)] ==
        IF i > Len(name) THEN <<>>
        ELSE IF FoundAt(text, name, i) THEN from[i + Len(text)]
        ELSE <<name[i]>> \o from[i + 1]
  IN from[1]

TrimDot(text) ==
  IF HasSuffix(text, <<Dot>>) THEN SubSeq(text, 1, Len(text) - 1) ELSE text

BrokenConvertToKey(zone, name) ==   \* a key for each way to write a name
  IF Spelled(name) # zone /\ ~HasSuffix(Spelled(name), <<Dot>> \o zone)
  THEN Invalid
  ELSE LET rrkey == Remove(zone, name)
       IN TrimDot(IF rrkey = <<>> THEN ApexKey ELSE rrkey)

(* The part of the key of a record set that is made of its name; its type  *)
(* follows.                                                                *)
convertToKey(zone, name) ==
  LET lwrname == Spelled(name)
      rrkey == Remove(zone, lwrname)
  IN IF lwrname # zone /\ ~HasSuffix(lwrname, <<Dot>> \o zone)
     THEN Invalid
     ELSE TrimDot(IF rrkey = <<>> THEN ApexKey ELSE rrkey)

(* Nothing but the end of the name reads like the zone's name.             *)
IsPlain(zone, name) ==
  LET n == Spelled(name)
  IN /\ \A i \in 1..(Len(n) - Len(zone)) : ~FoundAt(zone, n, i)
     /\ n # ApexKey \o <<Dot>> \o zone
=============================================================================
