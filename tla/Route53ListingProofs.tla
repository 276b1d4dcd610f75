------------------------ MODULE Route53ListingProofs ------------------------
(***************************************************************************)
(* For every zone, whatever names and batches requests bring and however   *)
(* pages are cut: where record sets are kept, and what a listing lists.    *)
(***************************************************************************)
EXTENDS Route53Listing, DatastoreProofs, SequenceTheorems, FiniteSetTheorems,
        WellFoundedInduction, TLAPS

-----------------------------------------------------------------------------
(* Names and keys.  Taking the zone's name out of a plain name leaves what *)
(* comes before it.                                                        *)

(* What Remove does at place i of the name, given what it does later on.   *)
Removing(zone, n, f, i) ==
  IF i > Len(n) THEN <<>>
  ELSE IF FoundAt(zone, n, i) THEN f[i + Len(zone)]
  ELSE <<n[i]>> \o f[i + 1]

LEMMA RemoveIs ==
  ASSUME NEW zone, NEW n, NEW g,
         g = [i \in 1..(Len(n) + 1) |-> Removing(zone, n, g, i)]
  PROVE  \E f : /\ f = [i \in 1..(Len(n) + 1) |-> Removing(zone, n, f, i)]
                /\ Remove(zone, n) = f[1]
<1>. DEFINE f == CHOOSE from :
              from = [i \in 1..(Len(n) + 1) |-> Removing(zone, n, from, i)]
<1>1. f = [i \in 1..(Len(n) + 1) |-> Removing(zone, n, f, i)]
  OBVIOUS
<1>2. Remove(zone, n) = f[1]
  BY DEF Remove, Removing
<1>. QED
  BY <1>1, <1>2

(* n ends with the zone's name, which begins at place p and nowhere before.*)
EndsWith(zone, n, p) ==
  /\ p = Len(n) - Len(zone) + 1 /\ p \in 1..Len(n)
  /\ \A i \in 1..Len(n) : FoundAt(zone, n, i) <=> i = p

LEMMA RemoveSuffix ==
  ASSUME NEW T, NEW zone \in Seq(T), NEW n \in Seq(T), NEW p,
         EndsWith(zone, n, p)
  PROVE  Remove(zone, n) = SubSeq(n, 1, p - 1)
<1>. DEFINE Dom == 1..(Len(n) + 1)
            End(i) == IF i <= p THEN p - 1 ELSE Len(n)
            g == [i \in Dom |-> SubSeq(n, i, End(i))]
<1>1. Len(n) \in Nat /\ p \in 1..Len(n) /\ p + Len(zone) = Len(n) + 1
  BY DEF EndsWith
<1>2. \A i \in 1..Len(n) : FoundAt(zone, n, i) <=> i = p
  BY DEF EndsWith
<1>3. ASSUME NEW f, NEW i \in Dom,
             i \in 1..Len(n) => f[Len(n) + 1] = <<>>,
             i \in 1..Len(n) /\ i # p => f[i + 1] = SubSeq(n, i + 1, End(i + 1))
      PROVE  Removing(zone, n, f, i) = SubSeq(n, i, End(i))
  <2>1. CASE i = Len(n) + 1
    <3>1. SubSeq(n, i, End(i)) = <<>>
      BY <1>1, <2>1, SubSeqEmpty
    <3>. QED
      BY <1>1, <2>1, <3>1 DEF Removing
  <2>2. CASE i = p
    <3>1. SubSeq(n, i, End(i)) = <<>>
      BY <1>1, <2>2, SubSeqEmpty
    <3>. QED
      BY <1>1, <1>2, <1>3, <2>2, <3>1 DEF Removing
  <2>3. CASE i \in 1..Len(n) /\ i # p
    <3>1. End(i) = End(i + 1) /\ End(i) \in i..Len(n)
      BY <1>1, <2>3
    <3>. HIDE DEF End
    <3>2. f[i + 1] = SubSeq(n, i + 1, End(i))
      BY <1>3, <2>3, <3>1
    <3>3. Removing(zone, n, f, i) = <<n[i]>> \o f[i + 1]
      BY <1>1, <1>2, <2>3 DEF Removing
    <3>. QED
      BY <2>3, <3>1, <3>2, <3>3, SubSeqRecursiveFirst
  <2>. QED
    BY <1>1, <2>1, <2>2, <2>3
<1>4. g[Len(n) + 1] = <<>>
  BY <1>1, SubSeqEmpty
<1>5. g = [i \in Dom |-> Removing(zone, n, g, i)]
  <2>1. ASSUME NEW i \in Dom
        PROVE  Removing(zone, n, g, i) = SubSeq(n, i, End(i))
    <3>1. i \in 1..Len(n) => g[i + 1] = SubSeq(n, i + 1, End(i + 1))
      BY <1>1
    <3>. HIDE DEF g, End
    <3>. QED
      BY <1>3, <1>4, <3>1
  <2>. QED
    BY <2>1
<1>6. PICK f : /\ f = [i \in Dom |-> Removing(zone, n, f, i)]
               /\ Remove(zone, n) = f[1]
  <2>. HIDE DEF g
  <2>. QED
    BY <1>5, RemoveIs
<1>7. \A i \in Dom : g[i] = SubSeq(n, i, End(i))
  OBVIOUS
(* f is g: there is no last place where they differ.                       *)
<1>8. f[1] = g[1]
  <2>. DEFINE At(x) == Len(n) + 1 - x
              Off == {x \in 0..Len(n) : f[At(x)] # g[At(x)]}
              less == {ss \in Nat \X Nat : ss[1] < ss[2]}
  <2>. HIDE DEF g, End
  <2>1. SUFFICES ASSUME Off # {} PROVE FALSE
    <3>1. Len(n) \in 0..Len(n) /\ At(Len(n)) = 1
      BY <1>1
    <3>. QED
      BY <3>1
  <2>2. Off \subseteq Nat
    BY <1>1
  <2>3. IsWellFoundedOn(less, Nat)
    BY NatLessThanWellFounded DEF OpToRel
  <2>4. PICK x \in Off : \A y \in Off : <<y, x>> \notin less
    <3>. HIDE DEF Off, less
    <3>. QED
      BY <2>1, <2>2, <2>3, WFMin
  <2>5. PICK i \in Dom : i = At(x) /\ x \in Nat /\ f[i] # g[i]
    BY <1>1
  <2>6. ASSUME NEW j \in Dom, j > i PROVE f[j] = g[j]
    <3>1. PICK y \in 0..Len(n) : j = At(y) /\ y < x
      <4>1. PICK y : y = Len(n) + 1 - j
        OBVIOUS
      <4>2. y \in 0..Len(n) /\ j = At(y)
        BY <1>1, <4>1
      <4>3. y < x
        BY <1>1, <2>5, <2>6, <4>1
      <4>. QED
        BY <4>2, <4>3
    <3>2. y \notin Off
      BY <2>2, <2>4, <2>5, <3>1
    <3>. QED
      BY <3>1, <3>2
  <2>7. i \in 1..Len(n) => f[i + 1] = g[i + 1] /\ f[Len(n) + 1] = g[Len(n) + 1]
    <3>1. i \in 1..Len(n) => /\ i + 1 \in Dom /\ i + 1 > i
                             /\ Len(n) + 1 \in Dom /\ Len(n) + 1 > i
      BY <1>1
    <3>. HIDE DEF Dom, Off, At
    <3>. QED
      BY <2>6, <3>1
  <2>8. i \in 1..Len(n) => g[i + 1] = SubSeq(n, i + 1, End(i + 1))
    BY <1>1, <1>7
  <2>9. g[i] = SubSeq(n, i, End(i)) /\ f[i] = Removing(zone, n, f, i)
    BY <1>6, <1>7
  <2>10. Removing(zone, n, f, i) = SubSeq(n, i, End(i))
    <3>. HIDE DEF g, End
    <3>. QED
      BY <1>3, <1>4, <2>7, <2>8
  <2>. QED
    BY <2>5, <2>9, <2>10
<1>9. g[1] = SubSeq(n, 1, p - 1)
  BY <1>1
<1>. QED
  BY <1>6, <1>8, <1>9

(* What names, keys and zones are made of.                                 *)
Char == {Lower[ch] : ch \in DOMAIN Lower} \cup DOMAIN Lower \cup {Dot}

LEMMA SpelledType ==
  ASSUME NEW name \in Seq(DOMAIN Lower)
  PROVE  Spelled(name) \in Seq(Char) /\ Len(Spelled(name)) > 0
<1>. DEFINE lwr == [i \in DOMAIN name |-> Lower[name[i]]]
<1>1. lwr \in Seq(Char) /\ Dot \in Char
  <2>1. DOMAIN name = 1..Len(name) /\ Len(name) \in Nat
    OBVIOUS
  <2>2. \A i \in 1..Len(name) : lwr[i] \in Char
    BY <2>1 DEF Char
  <2>3. lwr \in [1..Len(name) -> Char]
    BY <2>1, <2>2
  <2>. HIDE DEF lwr
  <2>. QED
    BY <2>1, <2>3, IsASeq DEF Char
<1>2. Spelled(name) =
        IF Len(lwr) > 0 /\ lwr[Len(lwr)] = Dot THEN lwr ELSE Append(lwr, Dot)
  BY DEF Spelled
<1>3. Append(lwr, Dot) \in Seq(Char) /\ Len(Append(lwr, Dot)) > 0
  <2>. HIDE DEF lwr
  <2>. QED
    BY <1>1, AppendProperties
<1>. HIDE DEF lwr
<1>. QED
  BY <1>1, <1>2, <1>3

LEMMA SuffixCut ==
  ASSUME NEW zone \in Seq(Char), NEW n \in Seq(Char),
         HasSuffix(n, <<Dot>> \o zone)
  PROVE  /\ Len(n) - Len(zone) \in 1..Len(n)
         /\ n[Len(n) - Len(zone)] = Dot
         /\ SubSeq(n, Len(n) - Len(zone) + 1, Len(n)) = zone
<1>. DEFINE i == Len(n) - Len(zone)
<1>1. Dot \in Char
  BY DEF Char
<1>2. /\ <<Dot>> \o zone \in Seq(Char) /\ Len(<<Dot>> \o zone) = Len(zone) + 1
      /\ (<<Dot>> \o zone)[1] = Dot
      /\ \A j \in 1..Len(zone) : (<<Dot>> \o zone)[j + 1] = zone[j]
  <2>1. <<Dot>> \in Seq(Char) /\ Len(<<Dot>>) = 1 /\ <<Dot>>[1] = Dot
    BY <1>1
  <2>. QED
    BY <2>1, ConcatProperties
<1>3. FoundAt(<<Dot>> \o zone, n, i)
  BY <1>2 DEF HasSuffix
<1>4. i \in 1..Len(n) /\ SubSeq(n, i, Len(n)) = <<Dot>> \o zone
  BY <1>2, <1>3 DEF FoundAt
<1>5. \A j \in 1..(Len(zone) + 1) : n[i + j - 1] = (<<Dot>> \o zone)[j]
  <2>1. \A j \in i..Len(n) : n[j] \in Char
    BY <1>4
  <2>2. \A j \in 1..(Len(n) - i + 1) : SubSeq(n, i, Len(n))[j] = n[i + j - 1]
    BY <1>4, <2>1, SubSeqProperties
  <2>. QED
    BY <1>4, <2>2
<1>6. n[i] = Dot
  BY <1>2, <1>4, <1>5
<1>7. \A j \in 1..Len(zone) : n[i + j] = zone[j]
  <2>. TAKE j \in 1..Len(zone)
  <2>1. n[i + (j + 1) - 1] = (<<Dot>> \o zone)[j + 1]
    BY <1>4, <1>5
  <2>. QED
    BY <1>2, <1>4, <2>1
<1>8. SubSeq(n, i + 1, Len(n)) = zone
  <2>. DEFINE rest == SubSeq(n, i + 1, Len(n))
  <2>1. \A j \in (i + 1)..Len(n) : n[j] \in Char
    BY <1>4
  <2>2. /\ rest \in Seq(Char)
        /\ Len(rest) = Len(zone)
        /\ \A j \in 1..Len(zone) : rest[j] = n[i + j]
    <3>1. i + 1 \in Int /\ Len(n) \in Int
          /\ Len(n) - (i + 1) + 1 = Len(zone)
      BY <1>4
    <3>2. /\ rest \in Seq(Char)
          /\ Len(rest) = IF i + 1 <= Len(n) THEN Len(n) - (i + 1) + 1 ELSE 0
          /\ \A j \in 1..(Len(n) - (i + 1) + 1) : rest[j] = n[(i + 1) + j - 1]
      BY <2>1, <3>1, SubSeqProperties
    <3>3. \A j \in 1..Len(zone) : (i + 1) + j - 1 = i + j
      BY <1>4
    <3>. HIDE DEF rest
    <3>. QED
      BY <1>4, <3>1, <3>2, <3>3
  <2>. HIDE DEF rest
  <2>3. rest = zone
    BY <1>7, <2>2, SeqEqual
  <2>. QED
    BY <2>3 DEF rest
<1>. QED
  BY <1>4, <1>6, <1>8

(* A plain name ends with the zone's name and has it nowhere else.         *)
LEMMA PlainEnds ==
  ASSUME NEW zone \in Seq(Char), zone # <<>>,
         NEW name, Spelled(name) \in Seq(Char), IsPlain(zone, name),
         Len(Spelled(name)) >= Len(zone),
         SubSeq(Spelled(name), Len(Spelled(name)) - Len(zone) + 1,
                Len(Spelled(name))) = zone
  PROVE  EndsWith(zone, Spelled(name), Len(Spelled(name)) - Len(zone) + 1)
<1>. DEFINE n == Spelled(name)
            p == Len(n) - Len(zone) + 1
<1>1. Len(zone) > 0 /\ Len(n) \in Nat /\ p \in 1..Len(n)
  BY EmptySeq
<1>2. p + Len(zone) - 1 = Len(n)
  BY <1>1
<1>3. \A i \in 1..(Len(n) - Len(zone)) : ~FoundAt(zone, n, i)
  BY DEF IsPlain
<1>4. FoundAt(zone, n, p)
  BY <1>1, <1>2 DEF FoundAt
<1>5. \A i \in 1..Len(n) : FoundAt(zone, n, i) => i \in 1..p
  BY <1>1 DEF FoundAt
<1>6. \A i \in 1..Len(n) : FoundAt(zone, n, i) <=> i = p
  <2>1. \A i \in 1..p : i # p => i \in 1..(Len(n) - Len(zone))
    BY <1>1
  <2>. HIDE DEF n, p
  <2>. QED
    BY <1>3, <1>4, <1>5, <2>1
<1>. QED
  BY <1>1, <1>6 DEF EndsWith

LEMMA TrimLast ==
  ASSUME NEW text \in Seq(Char), Len(text) > 0
  PROVE  TrimDot(text) = IF text[Len(text)] = Dot
                         THEN SubSeq(text, 1, Len(text) - 1) ELSE text
<1>. DEFINE l == Len(text)
<1>1. l \in 1..l /\ \A i \in 1..l : text[i] \in Char
  OBVIOUS
<1>2. /\ SubSeq(text, l, l) \in Seq(Char) /\ Len(SubSeq(text, l, l)) = 1
      /\ SubSeq(text, l, l)[1] = text[l]
  <2>1. \A i \in l..l : text[i] \in Char
    BY <1>1
  <2>. QED
    BY <1>1, <2>1, SubSeqProperties
<1>3. SubSeq(text, l, l) = <<Dot>> <=> text[l] = Dot
  <2>1. <<Dot>> \in Seq(Char) /\ Len(<<Dot>>) = 1 /\ <<Dot>>[1] = Dot
    <3>1. Dot \in Char
      BY DEF Char
    <3>. QED
      BY <3>1
  <2>2. ASSUME text[l] = Dot PROVE SubSeq(text, l, l) = <<Dot>>
    <3>1. PICK one : one = SubSeq(text, l, l)
      OBVIOUS
    <3>2. PICK dot : dot = <<Dot>>
      OBVIOUS
    <3>3. /\ one \in Seq(Char) /\ dot \in Seq(Char)
          /\ Len(one) = Len(dot) /\ \A i \in 1..Len(one) : one[i] = dot[i]
      BY <1>2, <2>1, <2>2, <3>1, <3>2
    <3>4. one = dot
      BY <3>3, SeqEqual
    <3>. QED
      BY <3>1, <3>2, <3>4
  <2>. QED
    BY <1>2, <2>1, <2>2
<1>4. HasSuffix(text, <<Dot>>) <=> text[l] = Dot
  <2>1. Len(<<Dot>>) = 1 /\ l - 1 + 1 = l /\ l + 1 - 1 = l
    BY <1>1
  <2>2. l \in 1..(l - 1 + 1)
    BY <1>1
  <2>. HIDE DEF l
  <2>. QED
    BY <1>3, <2>1, <2>2 DEF HasSuffix, FoundAt, l
<1>. QED
  BY <1>4 DEF TrimDot

(* The key of a plain name below the zone, with its dot and the zone's     *)
(* name after it, is the name.                                             *)
LEMMA PlainKey ==
  ASSUME NEW zone \in Seq(Char), zone # <<>>,
         ApexKey \in Seq(Char), ~HasSuffix(ApexKey, <<Dot>>),
         NEW name, Spelled(name) \in Seq(Char), IsPlain(zone, name),
         convertToKey(zone, name) # Invalid
  PROVE  \/ /\ Spelled(name) = zone
            /\ convertToKey(zone, name) = ApexKey
         \/ /\ convertToKey(zone, name) # ApexKey
            /\ convertToKey(zone, name) \in Seq(Char)
            /\ Spelled(name) = convertToKey(zone, name) \o <<Dot>> \o zone
<1>. DEFINE n == Spelled(name)
            p == Len(n) - Len(zone) + 1
            key == convertToKey(zone, name)
<1>1. n = zone \/ HasSuffix(n, <<Dot>> \o zone)
  BY DEF convertToKey
<1>2. key = TrimDot(IF Remove(zone, n) = <<>> THEN ApexKey ELSE Remove(zone, n))
  BY <1>1 DEF convertToKey
<1>3. Len(zone) > 0 /\ Len(zone) \in Nat /\ Len(n) \in Nat
  BY EmptySeq
<1>4. CASE n = zone
  <2>1. p = 1 /\ Len(n) = Len(zone)
    BY <1>3, <1>4
  <2>2. SubSeq(n, p, Len(n)) = zone
    BY <1>4, <2>1, SubSeqFull
  <2>3. EndsWith(zone, n, p)
    <3>1. Len(n) >= Len(zone)
      BY <1>3, <2>1
    <3>. QED
      BY <2>2, <3>1, PlainEnds
  <2>4. Remove(zone, n) = SubSeq(n, 1, 0)
    BY <2>1, <2>3, RemoveSuffix
  <2>5. SubSeq(n, 1, 0) = <<>>
    BY SubSeqEmpty
  <2>6. TrimDot(ApexKey) = ApexKey
    BY DEF TrimDot
  <2>. QED
    BY <1>2, <1>4, <2>4, <2>5, <2>6
<1>5. CASE HasSuffix(n, <<Dot>> \o zone)
  <2>1. /\ p - 1 \in 1..Len(n) /\ n[p - 1] = Dot
        /\ SubSeq(n, p, Len(n)) = zone
    <3>1. p - 1 = Len(n) - Len(zone)
      BY <1>3
    <3>2. /\ Len(n) - Len(zone) \in 1..Len(n)
          /\ n[Len(n) - Len(zone)] = Dot
          /\ SubSeq(n, Len(n) - Len(zone) + 1, Len(n)) = zone
      BY <1>5, SuffixCut
    <3>. QED
      BY <3>1, <3>2
  <2>2. EndsWith(zone, n, p)
    <3>1. Len(n) >= Len(zone)
      BY <1>3, <2>1
    <3>. QED
      BY <2>1, <3>1, PlainEnds
  <2>. DEFINE text == SubSeq(n, 1, p - 1)
              k == SubSeq(n, 1, p - 2)
  <2>3. Remove(zone, n) = text
    BY <2>2, RemoveSuffix
  <2>4. /\ text \in Seq(Char) /\ Len(text) = p - 1
        /\ \A i \in 1..(p - 1) : text[i] = n[i]
    <3>1. \A i \in 1..(p - 1) : n[i] \in Char
      BY <1>3, <2>1
    <3>2. 1 \in Int /\ p - 1 \in Int /\ 1 <= p - 1
      BY <1>3, <2>1
    <3>3. /\ text \in Seq(Char)
          /\ Len(text) = IF 1 <= p - 1 THEN (p - 1) - 1 + 1 ELSE 0
          /\ \A i \in 1..((p - 1) - 1 + 1) : text[i] = n[1 + i - 1]
      BY <3>1, <3>2, SubSeqProperties
    <3>. HIDE DEF text, p, n
    <3>. QED
      BY <3>2, <3>3
  <2>5. text # <<>> /\ Len(text) > 0 /\ text[Len(text)] = Dot
    <3>. HIDE DEF text, n
    <3>. QED
      BY <1>3, <2>1, <2>4, EmptySeq
  <2>6. key = SubSeq(text, 1, Len(text) - 1)
    <3>. HIDE DEF text
    <3>. QED
      BY <1>2, <2>3, <2>4, <2>5, TrimLast
  <2>7. text = k \o <<Dot>>
    <3>1. p - 1 \in 1..Len(n) /\ p - 1 - 1 = p - 2 /\ 1 \in 1..Len(n)
      BY <1>3, <2>1
    <3>. QED
      BY <2>1, <3>1, SubSeqRecursiveSecond
  <2>8. k \in Seq(Char)
    <3>1. \A i \in 1..(p - 2) : n[i] \in Char
      BY <1>3, <2>1
    <3>2. p - 2 \in Int
      BY <1>3
    <3>. HIDE DEF n, p
    <3>. QED
      BY <3>1, <3>2, SubSeqProperties
  <2>9. key = k
    <3>1. /\ k \in Seq(Char) /\ <<Dot>> \in Seq(Char) /\ Len(<<Dot>>) = 1
          /\ Len(k) \in Nat
      BY <2>8 DEF Char
    <3>2. /\ Len(text) = Len(k) + 1
          /\ \A i \in 1..Len(k) : text[i] = k[i]
      <4>. HIDE DEF k, text
      <4>. QED
        BY <2>7, <3>1, ConcatProperties
    <3>3. /\ SubSeq(text, 1, Len(k)) \in Seq(Char)
          /\ Len(SubSeq(text, 1, Len(k))) = Len(k)
          /\ \A i \in 1..Len(k) : SubSeq(text, 1, Len(k))[i] = text[i]
      <4>. HIDE DEF k, text
      <4>1. \A i \in 1..Len(k) : text[i] \in Char
        BY <3>1, <3>2
      <4>2. 1 \in Int /\ Len(k) \in Int
        BY <3>1
      <4>3. /\ SubSeq(text, 1, Len(k)) \in Seq(Char)
            /\ Len(SubSeq(text, 1, Len(k)))
                 = IF 1 <= Len(k) THEN Len(k) - 1 + 1 ELSE 0
            /\ \A i \in 1..(Len(k) - 1 + 1) :
                 SubSeq(text, 1, Len(k))[i] = text[1 + i - 1]
        BY <4>1, <4>2, SubSeqProperties
      <4>. QED
        BY <3>1, <4>3
    <3>4. SubSeq(text, 1, Len(k)) = k
      <4>. HIDE DEF k, text
      <4>. QED
        BY <3>1, <3>2, <3>3, SeqEqual
    <3>. HIDE DEF k, text
    <3>. QED
      BY <2>6, <3>1, <3>2, <3>4
  <2>10. n = k \o <<Dot>> \o zone
    <3>1. 1 \in 1..(Len(n) + 1) /\ p - 1 \in 0..Len(n) /\ Len(n) \in (p - 1)..Len(n)
          /\ (p - 1) + 1 = p /\ 1 - 1 = 0
      BY <1>3, <2>1
    <3>2. SubSeq(n, 1, p - 1) \o SubSeq(n, p, Len(n)) = SubSeq(n, 1, Len(n))
      BY <3>1, ConcatAdjacentSubSeq
    <3>3. SubSeq(n, 1, Len(n)) = n
      BY SubSeqFull
    <3>. QED
      BY <2>1, <2>7, <3>2, <3>3
  <2>11. k # ApexKey
    BY <2>10 DEF IsPlain
  <2>. QED
    BY <2>8, <2>9, <2>10, <2>11
<1>. QED
  BY <1>1, <1>4, <1>5

-----------------------------------------------------------------------------
(* The record sets of the zone.                                            *)

LEMMA Names ==
  /\ HomeName \in Seq(Char) /\ HomeName # <<>>
  /\ ApexKey \in Seq(Char)
  /\ \A n \in RrName : rrname[n] = Spelled(n) /\ rrname[n] \in Seq(Char)
  /\ \A n \in RrName : rrkey[n] = convertToKey(HomeName, n)
<1>1. \A n \in RrName : Spelled(n) \in Seq(Char) /\ Len(Spelled(n)) > 0
  BY SpelledType, Route53ListingAssumption
<1>2. HomeName \in Seq(Char) /\ HomeName # <<>>
  BY <1>1, Route53ListingAssumption, EmptySeq
<1>3. ApexKey \in Seq(Char)
  BY Route53ListingAssumption, SeqMonotonic DEF Char
<1>. QED
  BY <1>1, <1>2, <1>3 DEF rrname, rrkey

(* The names that are written when no name repeats the zone's.             *)
Safe == Inside \cap Plain

LEMMA PlainKeysDiffer ==
  ASSUME NEW m \in Safe, NEW n \in Safe
  PROVE  rrkey[m] = rrkey[n] <=> rrname[m] = rrname[n]
<1>1. /\ m \in RrName /\ rrkey[m] # Invalid /\ IsPlain(HomeName, m)
      /\ n \in RrName /\ rrkey[n] # Invalid /\ IsPlain(HomeName, n)
  BY DEF Safe, Inside, Plain
<1>2. ASSUME NEW k \in RrName, rrkey[k] # Invalid, IsPlain(HomeName, k)
      PROVE  \/ rrname[k] = HomeName /\ rrkey[k] = ApexKey
             \/ /\ rrkey[k] # ApexKey
                /\ rrname[k] = rrkey[k] \o <<Dot>> \o HomeName
  <2>1. /\ rrname[k] = Spelled(k) /\ rrkey[k] = convertToKey(HomeName, k)
        /\ Spelled(k) \in Seq(Char)
    BY <1>2, Names
  <2>2. HomeName \in Seq(Char) /\ HomeName # <<>> /\ ApexKey \in Seq(Char)
    BY Names
  <2>3. ~HasSuffix(ApexKey, <<Dot>>)
    BY Route53ListingAssumption
  <2>4. convertToKey(HomeName, k) # Invalid
    BY <1>2, <2>1
  <2>. QED
    BY <1>2, <2>1, <2>2, <2>3, <2>4, PlainKey
<1>3. rrkey[m] = rrkey[n] => rrname[m] = rrname[n]
  BY <1>1, <1>2
<1>4. ASSUME rrname[m] = rrname[n] PROVE rrkey[m] = rrkey[n]
  <2>1. Spelled(m) = Spelled(n)
    BY <1>1, <1>4, Names
  <2>2. convertToKey(HomeName, m) = convertToKey(HomeName, n)
    BY <2>1 DEF convertToKey
  <2>. QED
    BY <1>1, <2>2, Names
<1>. QED
  BY <1>3, <1>4

(* Two buckets and batches that are the same as far as two keys go.        *)
LEMMA SameAfter ==
  ASSUME NEW b, NEW batch, NEW k, NEW c, NEW other, NEW l, NEW n \in Nat,
         b[k] = c[l],
         \A j \in 1..n : /\ batch[j].key = k <=> other[j].key = l
                         /\ Outcome(batch[j]) = Outcome(other[j])
  PROVE  After(b, batch, n, k) = After(c, other, n, l)
<1>1. \A j : LastTouch(batch, n, k, j) <=> LastTouch(other, n, l, j)
  BY DEF LastTouch
<1>2. CASE \E j : LastTouch(batch, n, k, j)
  <2>1. PICK j : LastTouch(batch, n, k, j)
    BY <1>2
  <2>2. LastTouch(other, n, l, j) /\ j \in 1..n
    BY <1>1, <2>1 DEF LastTouch
  <2>3. /\ After(b, batch, n, k) = Outcome(batch[j])
        /\ After(c, other, n, l) = Outcome(other[j])
    BY <2>1, <2>2, AfterIs
  <2>. QED
    BY <2>2, <2>3
<1>3. CASE ~ \E j : LastTouch(batch, n, k, j)
  BY <1>1, <1>3 DEF After
<1>. QED
  BY <1>2, <1>3

(* What a batch does to the keys and what it means about the names.        *)
LEMMA BatchIs ==
  ASSUME NEW changes \in Seq(ChangeData),
         \A j \in DOMAIN changes : changes[j].name \in Inside
  PROVE  LET batch == convertToPutData(changes)
             meant == Meant(batch)
         IN /\ Len(batch) = Len(changes) /\ Len(changes) \in Nat
            /\ DOMAIN changes = 1..Len(changes)
            /\ \A j \in 1..Len(changes) :
                 /\ changes[j].name \in Inside /\ changes[j].type \in RrType
                 /\ batch[j].key = <<rrkey[changes[j].name], changes[j].type>>
                 /\ batch[j].data = <<rrname[changes[j].name], changes[j].type>>
                 /\ meant[j].key = batch[j].data
                 /\ Outcome(meant[j]) = Outcome(batch[j])
                 /\ Outcome(batch[j]) \in {Absent, batch[j].data}
                 /\ batch[j].data \in RrSet
<1>. DEFINE batch == convertToPutData(changes)
            meant == Meant(batch)
            opOf(j) == ItemOpOf[changes[j].action]
            keyOf(j) == <<rrkey[changes[j].name], changes[j].type>>
            dataOf(j) == <<rrname[changes[j].name], changes[j].type>>
<1>1. DOMAIN changes = 1..Len(changes) /\ Len(changes) \in Nat
  OBVIOUS
<1>2. batch = [j \in 1..Len(changes) |->
                 [op |-> opOf(j), key |-> keyOf(j), data |-> dataOf(j)]]
  BY <1>1 DEF convertToPutData
<1>3. Len(batch) = Len(changes)
  BY <1>1, <1>2
<1>4. meant = [j \in 1..Len(changes) |-> [batch[j] EXCEPT !.key = batch[j].data]]
  <2>1. DOMAIN batch = 1..Len(changes)
    BY <1>2
  <2>. HIDE DEF batch
  <2>. QED
    BY <2>1 DEF Meant
<1>5. ASSUME NEW j \in 1..Len(changes)
      PROVE  /\ changes[j].name \in Inside /\ changes[j].type \in RrType
             /\ batch[j].key = keyOf(j) /\ batch[j].data = dataOf(j)
             /\ meant[j].key = batch[j].data
             /\ Outcome(meant[j]) = Outcome(batch[j])
             /\ Outcome(batch[j]) \in {Absent, batch[j].data}
             /\ batch[j].data \in RrSet
  <2>1. changes[j].name \in Inside /\ changes[j].type \in RrType
    <3>1. changes[j] \in ChangeData
      BY <1>1
    <3>. QED
      BY <1>1, <3>1 DEF ChangeData
  <2>2. batch[j] = [op |-> opOf(j), key |-> keyOf(j), data |-> dataOf(j)]
    BY <1>2
  <2>3. meant[j] = [batch[j] EXCEPT !.key = batch[j].data]
    BY <1>4
  <2>. HIDE DEF batch, meant, opOf
  <2>4. /\ meant[j].key = dataOf(j) /\ meant[j].op = opOf(j)
        /\ meant[j].data = dataOf(j)
    BY <2>2, <2>3
  <2>5. batch[j].op = opOf(j) /\ batch[j].key = keyOf(j) /\ batch[j].data = dataOf(j)
    BY <2>2
  <2>6. dataOf(j) \in RrSet
    BY <2>1 DEF RrSet
  <2>. HIDE DEF keyOf, dataOf
  <2>. QED
    BY <2>1, <2>4, <2>5, <2>6 DEF Outcome, keyOf, dataOf
<1>. QED
  BY <1>1, <1>3, <1>5

StoreOK ==
  /\ rrsets \in [Slot -> RrSet \cup {Absent}]
  /\ acked \in [RrSet -> RrSet \cup {Absent}]
  /\ plain \in BOOLEAN

(* As long as all names were safe a record set is under the key of its     *)
(* name, and there is nothing but those.                                   *)
KeptInv ==
  plain =>
    /\ \A n \in Safe, t \in RrType :
         rrsets[<<rrkey[n], t>>] = acked[<<rrname[n], t>>]
    /\ \A s \in Slot : rrsets[s] # Absent =>
         \E n \in Safe, t \in RrType : s = <<rrkey[n], t>>
    /\ \A r \in RrSet : acked[r] # Absent =>
         \E n \in Safe, t \in RrType : r = <<rrname[n], t>>

LEMMA SafeSlots ==
  \A n \in Safe, t \in RrType :
    <<rrkey[n], t>> \in Slot /\ <<rrname[n], t>> \in RrSet
BY DEF Safe, Slot, RrSet

LEMMA KeptIsKept == StoreOK /\ KeptInv => PlainNamesAreKept
<1>. SUFFICES ASSUME StoreOK, KeptInv, plain PROVE In(rrsets) = In(acked)
  BY DEF PlainNamesAreKept
<1>1. DOMAIN rrsets = Slot /\ DOMAIN acked = RrSet
  BY DEF StoreOK
<1>2. ASSUME NEW x \in In(rrsets) PROVE x \in In(acked)
  <2>1. PICK s \in Slot : x = rrsets[s] /\ x # Absent
    BY <1>1 DEF In
  <2>2. PICK n \in Safe, t \in RrType : s = <<rrkey[n], t>>
    BY <2>1 DEF KeptInv
  <2>3. x = acked[<<rrname[n], t>>] /\ <<rrname[n], t>> \in RrSet
    BY <2>1, <2>2, SafeSlots DEF KeptInv
  <2>. QED
    BY <1>1, <2>1, <2>3 DEF In
<1>3. ASSUME NEW x \in In(acked) PROVE x \in In(rrsets)
  <2>1. PICK r \in RrSet : x = acked[r] /\ x # Absent
    BY <1>1 DEF In
  <2>2. PICK n \in Safe, t \in RrType : r = <<rrname[n], t>>
    BY <2>1 DEF KeptInv
  <2>3. x = rrsets[<<rrkey[n], t>>] /\ <<rrkey[n], t>> \in Slot
    BY <2>1, <2>2, SafeSlots DEF KeptInv
  <2>. QED
    BY <1>1, <2>1, <2>3 DEF In
<1>. QED
  BY <1>2, <1>3

LEMMA ApplyInv ==
  ASSUME StoreOK, KeptInv, NEW changes \in Seq(ChangeData), Apply(changes)
  PROVE  StoreOK' /\ KeptInv'
<1>. DEFINE batch == convertToPutData(changes)
            meant == Meant(batch)
            N == Len(changes)
<1>1. /\ \A j \in DOMAIN changes : changes[j].name \in Inside
      /\ rrsets' = PutKeys(rrsets, batch) /\ ~Clashes(rrsets, batch)
      /\ plain' = (plain /\ \A j \in DOMAIN changes : changes[j].name \in Plain)
      /\ acked' = [n \in RrSet |->
           IF plain' THEN After(acked, meant, Len(batch), n) ELSE Absent]
  BY DEF Apply
<1>2. /\ Len(batch) = N /\ N \in Nat /\ DOMAIN changes = 1..N
      /\ \A j \in 1..N :
           /\ changes[j].name \in Inside /\ changes[j].type \in RrType
           /\ batch[j].key = <<rrkey[changes[j].name], changes[j].type>>
           /\ batch[j].data = <<rrname[changes[j].name], changes[j].type>>
           /\ meant[j].key = batch[j].data
           /\ Outcome(meant[j]) = Outcome(batch[j])
           /\ Outcome(batch[j]) \in {Absent, batch[j].data}
           /\ batch[j].data \in RrSet
  BY <1>1, BatchIs
<1>. HIDE DEF batch, meant, N
<1>3. rrsets' = [s \in Slot |-> After(rrsets, batch, N, s)]
  <2>1. DOMAIN rrsets = Slot
    BY DEF StoreOK
  <2>. QED
    BY <1>1, <1>2, <2>1, Zenon DEF PutKeys
<1>4. ASSUME NEW s
      PROVE  \/ After(rrsets, batch, N, s) = rrsets[s]
             \/ \E j \in 1..N : /\ batch[j].key = s
                                /\ After(rrsets, batch, N, s) = Outcome(batch[j])
  <2>1. N \in Nat
    BY <1>2
  <2>. QED
    BY <2>1, AfterCases
<1>5. ASSUME NEW r
      PROVE  \/ After(acked, meant, N, r) = acked[r]
             \/ \E j \in 1..N : /\ meant[j].key = r
                                /\ After(acked, meant, N, r) = Outcome(meant[j])
  <2>1. N \in Nat
    BY <1>2
  <2>. QED
    BY <2>1, AfterCases
<1>6. StoreOK'
  <2>1. ASSUME NEW s \in Slot
        PROVE  After(rrsets, batch, N, s) \in RrSet \cup {Absent}
    BY <1>2, <1>4 DEF StoreOK
  <2>2. ASSUME NEW r \in RrSet
        PROVE  After(acked, meant, N, r) \in RrSet \cup {Absent}
    BY <1>2, <1>5 DEF StoreOK
  <2>3. rrsets' \in [Slot -> RrSet \cup {Absent}]
    BY <1>3, <2>1
  <2>4. acked' \in [RrSet -> RrSet \cup {Absent}]
    BY <1>1, <1>2, <2>2
  <2>5. plain' \in BOOLEAN
    BY <1>1
  <2>. QED
    BY <2>3, <2>4, <2>5 DEF StoreOK
<1>7. ASSUME plain' PROVE KeptInv'
  <2>1. plain /\ \A j \in 1..N : changes[j].name \in Safe
    BY <1>1, <1>2, <1>7 DEF Safe
  <2>2. acked' = [r \in RrSet |-> After(acked, meant, N, r)]
    BY <1>1, <1>2, <1>7
  <2>3. ASSUME NEW n \in Safe, NEW t \in RrType
        PROVE  rrsets'[<<rrkey[n], t>>] = acked'[<<rrname[n], t>>]
    <3>1. \A j \in 1..N : batch[j].key = <<rrkey[n], t>>
                            <=> meant[j].key = <<rrname[n], t>>
      BY <1>2, <2>1, PlainKeysDiffer
    <3>2. rrsets[<<rrkey[n], t>>] = acked[<<rrname[n], t>>]
      BY <2>1 DEF KeptInv
    <3>3. PICK k, l : k = <<rrkey[n], t>> /\ l = <<rrname[n], t>>
      OBVIOUS
    <3>4. /\ N \in Nat /\ rrsets[k] = acked[l]
          /\ \A j \in 1..N : /\ batch[j].key = k <=> meant[j].key = l
                            /\ Outcome(batch[j]) = Outcome(meant[j])
      BY <1>2, <3>1, <3>2, <3>3
    <3>5. After(rrsets, batch, N, k) = After(acked, meant, N, l)
      BY <3>4, SameAfter
    <3>. QED
      BY <1>3, <2>2, <3>3, <3>5, SafeSlots
  <2>4. ASSUME NEW s \in Slot, rrsets'[s] # Absent
        PROVE  \E n \in Safe, t \in RrType : s = <<rrkey[n], t>>
    <3>1. After(rrsets, batch, N, s) # Absent
      BY <1>3, <2>4
    <3>2. CASE rrsets[s] # Absent
      BY <2>1, <3>2 DEF KeptInv
    <3>3. CASE \E j \in 1..N : batch[j].key = s
      BY <1>2, <2>1, <3>3
    <3>. QED
      BY <1>4, <3>1, <3>2, <3>3
  <2>5. ASSUME NEW r \in RrSet, acked'[r] # Absent
        PROVE  \E n \in Safe, t \in RrType : r = <<rrname[n], t>>
    <3>1. After(acked, meant, N, r) # Absent
      BY <2>2, <2>5
    <3>2. CASE acked[r] # Absent
      BY <2>1, <3>2 DEF KeptInv
    <3>3. CASE \E j \in 1..N : meant[j].key = r
      <4>1. PICK j \in 1..N : meant[j].key = r
        BY <3>3
      <4>2. r = <<rrname[changes[j].name], changes[j].type>>
        BY <1>2, <4>1
      <4>3. changes[j].name \in Safe /\ changes[j].type \in RrType
        BY <1>2, <2>1, <4>1
      <4>. QED
        BY <4>2, <4>3
    <3>. QED
      BY <1>5, <3>1, <3>2, <3>3
  <2>. QED
    BY <2>3, <2>4, <2>5 DEF KeptInv, Slot, RrSet, rrkey, rrname, Safe, Inside, Plain
<1>. QED
  BY <1>6, <1>7 DEF KeptInv

LEMMA ApexIsChange == ApexRecords \in Seq(ChangeData)
BY Route53ListingAssumption DEF ApexRecords, ChangeData

LEMMA ClearedInv ==
  ASSUME StoreOK, Cleared
  PROVE  StoreOK' /\ KeptInv' /\ In(rrsets') = {}
<1>1. rrsets' = [s \in Slot |-> Absent] /\ acked' = [r \in RrSet |-> Absent]
      /\ plain' = TRUE
  BY DEF Cleared, StoreOK, DeleteBucket
<1>2. StoreOK' /\ In(rrsets') = {}
  BY <1>1 DEF StoreOK, In
<1>3. KeptInv'
  BY <1>1, SafeSlots DEF KeptInv
<1>. QED
  BY <1>2, <1>3

-----------------------------------------------------------------------------
(* Pages.  Each listing has an order of its own.                           *)

LEMMA Orders ==
  /\ IsFiniteSet(Listable)
  /\ \A op \in Op : \A k \in Listable : Rank[op][k] \in Nat
  /\ \A op \in Op : \A j, k \in Listable : Rank[op][j] = Rank[op][k] => j = k
BY Route53ListingAssumption

(* A set of numbers has a least one.                                       *)
LEMMA LeastNumber ==
  ASSUME NEW N \in SUBSET Nat, N # {}
  PROVE  \E m \in N : \A n \in N : m <= n
<1>. DEFINE less == {ss \in Nat \X Nat : ss[1] < ss[2]}
<1>1. IsWellFoundedOn(less, Nat)
  BY NatLessThanWellFounded DEF OpToRel
<1>2. PICK m \in N : \A n \in N : <<n, m>> \notin less
  <2>. HIDE DEF less
  <2>. QED
    BY <1>1, WFMin
<1>3. ASSUME NEW n \in N PROVE m <= n
  <2>1. n \in Nat /\ m \in Nat /\ ~(<<n, m>> \in less)
    BY <1>2
  <2>2. ~(n < m)
    BY <2>1
  <2>. QED
    BY <2>1, <2>2
<1>. QED
  BY <1>3

LEMMA LeastIsLeast ==
  ASSUME NEW op \in Op, NEW items \in SUBSET Listable, items # {}
  PROVE  /\ Least(op, items) \in items
         /\ \A j \in items : Rank[op][Least(op, items)] <= Rank[op][j]
<1>. DEFINE places == {Rank[op][k] : k \in items}
<1>1. places \subseteq Nat /\ places # {}
  BY Orders
<1>2. PICK m \in places : \A n \in places : m <= n
  <2>. HIDE DEF places
  <2>. QED
    BY <1>1, LeastNumber
<1>3. PICK k \in items : Rank[op][k] = m
  OBVIOUS
<1>4. \A j \in items : Rank[op][k] <= Rank[op][j]
  BY <1>2, <1>3
<1>. QED
  BY <1>4 DEF Least

(* The items that come before one.                                         *)
Before(op, items, k) == {j \in items : Rank[op][j] < Rank[op][k]}

LEMMA BeforeIsFinite ==
  ASSUME NEW op \in Op, NEW items \in SUBSET Listable, NEW k
  PROVE  /\ IsFiniteSet(Before(op, items, k))
         /\ Cardinality(Before(op, items, k)) \in Nat
<1>1. Before(op, items, k) \in SUBSET Listable
  BY DEF Before
<1>. QED
  BY <1>1, Orders, FS_Subset, FS_CardinalityType

(* All others are before the last of some items.                           *)
LEMMA LastIsLast ==
  ASSUME NEW op \in Op, NEW items \in SUBSET Listable, items # {}
  PROVE  \E k \in items : Before(op, items, k) = items \ {k}
<1>. DEFINE Behind(k) == {j \in items : Rank[op][k] < Rank[op][j]}
            counts == {Cardinality(Behind(k)) : k \in items}
<1>1. ASSUME NEW k
      PROVE  IsFiniteSet(Behind(k)) /\ Cardinality(Behind(k)) \in Nat
  <2>1. Behind(k) \in SUBSET Listable
    OBVIOUS
  <2>. HIDE DEF Behind
  <2>. QED
    BY <2>1, Orders, FS_Subset, FS_CardinalityType
<1>2. PICK k \in items : \A j \in items :
        Cardinality(Behind(k)) <= Cardinality(Behind(j))
  <2>. HIDE DEF Behind
  <2>1. counts \in SUBSET Nat /\ counts # {}
    BY <1>1
  <2>2. PICK m \in counts : \A n \in counts : m <= n
    <3>. HIDE DEF counts
    <3>. QED
      BY <2>1, LeastNumber
  <2>. QED
    BY <2>2
<1>3. ASSUME NEW j \in items, j # k PROVE Rank[op][j] < Rank[op][k]
  <2>1. /\ Rank[op][j] \in Nat /\ Rank[op][k] \in Nat
        /\ Rank[op][j] # Rank[op][k] /\ \A i \in items : Rank[op][i] \in Nat
    BY <1>3, Orders
  <2>2. SUFFICES ASSUME Rank[op][k] < Rank[op][j] PROVE FALSE
    BY <2>1
  <2>3. /\ Behind(j) \subseteq Behind(k)
        /\ j \in Behind(k) /\ j \notin Behind(j)
    BY <2>1, <2>2
  <2>4. Cardinality(Behind(k)) <= Cardinality(Behind(j))
    BY <1>2
  <2>. HIDE DEF Behind
  <2>5. Cardinality(Behind(j)) <= Cardinality(Behind(k))
        /\ (Cardinality(Behind(k)) = Cardinality(Behind(j))
              => Behind(k) = Behind(j))
    BY <1>1, <2>3, FS_Subset
  <2>. QED
    BY <1>1, <2>3, <2>4, <2>5
<1>4. Before(op, items, k) = items \ {k}
  BY <1>3, Orders DEF Before
<1>. QED
  BY <1>4

(* A page is what comes first, and if there is more than its limit         *)
(* something is left.                                                      *)
LEMMA FirstIsFirst ==
  ASSUME NEW op \in Op, NEW items \in SUBSET Listable, NEW limit \in Int
  PROVE  LET page == FirstOf(op, items, limit)
         IN /\ page \subseteq items
            /\ \A j \in page, k \in items \ page : Rank[op][j] < Rank[op][k]
            /\ limit >= 0 /\ ~(Cardinality(items) <= limit) => items \ page # {}
<1>. DEFINE page == FirstOf(op, items, limit)
<1>1. page = {k \in items : Cardinality(Before(op, items, k)) < limit}
  BY DEF FirstOf, Before
<1>2. ASSUME NEW j \in page, NEW k \in items \ page
      PROVE  Rank[op][j] < Rank[op][k]
  <2>1. /\ j \in items /\ k \in items
        /\ Cardinality(Before(op, items, j)) < limit
        /\ ~(Cardinality(Before(op, items, k)) < limit)
    BY <1>1
  <2>2. Rank[op][j] \in Nat /\ Rank[op][k] \in Nat
        /\ \A i \in items : Rank[op][i] \in Nat
    BY <2>1, Orders
  <2>3. SUFFICES ASSUME Rank[op][k] <= Rank[op][j] PROVE FALSE
    BY <2>2
  <2>4. Before(op, items, k) \subseteq Before(op, items, j)
    BY <2>2, <2>3 DEF Before
  <2>5. Cardinality(Before(op, items, k)) <= Cardinality(Before(op, items, j))
    BY <2>4, BeforeIsFinite, FS_Subset
  <2>. QED
    BY <2>1, <2>5, BeforeIsFinite
<1>3. ASSUME limit >= 0, ~(Cardinality(items) <= limit)
      PROVE  items \ page # {}
  <2>1. IsFiniteSet(items) /\ Cardinality(items) \in Nat
    BY Orders, FS_Subset, FS_CardinalityType
  <2>2. items # {}
    BY <1>3, FS_EmptySet
  <2>3. PICK k \in items : Before(op, items, k) = items \ {k}
    BY <2>2, LastIsLast
  <2>4. Cardinality(Before(op, items, k)) = Cardinality(items) - 1
    BY <2>1, <2>3, FS_RemoveElement
  <2>5. ~(Cardinality(Before(op, items, k)) < limit)
    BY <1>3, <2>1, <2>4
  <2>. QED
    BY <1>1, <2>5
<1>. QED
  BY <1>1, <1>2, <1>3

(* How a page cuts what is ahead: all of the page comes before the place   *)
(* the next one begins at, all that is left out at or after it.            *)
Cut(op, items, page, place) ==
  /\ page \subseteq items
  /\ \E k \in items : place = Rank[op][k]
  /\ \A k \in page : Rank[op][k] < place
  /\ \A k \in items \ page : Rank[op][k] >= place

LEMMA PageIs ==
  ASSUME NEW op \in Op, NEW items \in SUBSET Listable, NEW limit \in Int
  PROVE  \/ paginate(op, items, limit) = Page(items)
         \/ limit < 0 /\ paginate(op, items, limit) = Panic
         \/ \E page, place : /\ Cut(op, items, page, place)
                             /\ paginate(op, items, limit) = PageBefore(page, place)
<1>1. CASE Cardinality(items) <= limit
  BY <1>1 DEF paginate
<1>2. CASE ~(Cardinality(items) <= limit) /\ limit < 0
  BY <1>2 DEF paginate
<1>3. CASE ~(Cardinality(items) <= limit) /\ ~(limit < 0)
  <2>. DEFINE page == FirstOf(op, items, limit)
              k == Least(op, items \ page)
  <2>1. paginate(op, items, limit) = PageBefore(page, Rank[op][k])
    BY <1>3 DEF paginate
  <2>2. /\ page \subseteq items /\ items \ page # {}
        /\ \A j \in page, m \in items \ page : Rank[op][j] < Rank[op][m]
    BY <1>3, FirstIsFirst
  <2>. HIDE DEF page
  <2>3. /\ k \in items \ page
        /\ \A j \in items \ page : Rank[op][k] <= Rank[op][j]
    <3>1. items \ page \in SUBSET Listable
      OBVIOUS
    <3>. QED
      BY <2>2, <3>1, LeastIsLeast
  <2>. HIDE DEF k
  <2>4. \A j \in items \ page : Rank[op][j] >= Rank[op][k]
    BY <2>3, Orders
  <2>5. Cut(op, items, page, Rank[op][k])
    BY <2>2, <2>3, <2>4 DEF Cut
  <2>. QED
    BY <2>1, <2>5
<1>. QED
  BY <1>1, <1>2, <1>3

(* What is left over when a number is divided is given by its range.       *)
LEMMA Remainder ==
  ASSUME NEW m \in Nat \ {0}, NEW q \in Int, NEW r \in 0..(m - 1)
  PROVE  (m * q + r) % m = r
<1>. DEFINE a == m * q + r
            p == a \div m
            s == a % m
<1>1. a \in Int /\ p \in Int /\ s \in 0..(m - 1) /\ a = m * p + s
  OBVIOUS
<1>. HIDE DEF p, s
<1>2. m * (q - p) = s - r
  BY <1>1
<1>3. CASE q - p >= 1
  <2>1. m * (q - p) >= m
    BY <1>1, <1>3
  <2>. QED
    BY <1>1, <1>2, <2>1
<1>4. CASE p - q >= 1
  <2>1. m * (q - p) <= -m
    BY <1>1, <1>4
  <2>. QED
    BY <1>1, <1>2, <2>1
<1>5. CASE p = q
  <2>1. s = r
    BY <1>1, <1>5
  <2>. QED
    BY <2>1 DEF s
<1>. QED
  BY <1>1, <1>3, <1>4, <1>5

(* 32 bits make a number negative if its low half is in the upper half.    *)
LEMMA NegativeLimit ==
  ASSUME NEW max \in MaxItems \cup {NoMax}
  PROVE  /\ Limit(max) \in Int
         /\ Limit(max) < 0 =>
              max # NoMax /\ max % (2 * HalfWidth) >= HalfWidth
<1>1. HalfWidth \in Nat \ {0} /\ DefaultMax \in Nat \ {0}
  BY Route53ListingAssumption
<1>2. CASE max = NoMax
  BY <1>1, <1>2 DEF Limit
<1>3. CASE max # NoMax
  <2>. DEFINE w == 2 * HalfWidth
              q == (max + HalfWidth) \div w
              r == (max + HalfWidth) % w
  <2>1. max \in Int /\ w \in Nat \ {0}
    BY <1>1, <1>3, Route53ListingAssumption
  <2>2. q \in Int /\ r \in 0..(w - 1) /\ max + HalfWidth = w * q + r
    <3>. HIDE DEF w
    <3>. QED
      BY <1>1, <2>1
  <2>3. Limit(max) = r - HalfWidth
    BY <1>3 DEF Limit, Int32
  <2>. HIDE DEF q, r
  <2>4. ASSUME r < HalfWidth PROVE max % w >= HalfWidth
    <3>1. /\ max = w * (q - 1) + (r + HalfWidth)
          /\ r + HalfWidth \in 0..(w - 1) /\ q - 1 \in Int
      BY <1>1, <2>1, <2>2, <2>4
    <3>2. max % w = r + HalfWidth
      <4>. HIDE DEF w
      <4>. QED
        BY <2>1, <3>1, Remainder
    <3>. QED
      BY <1>1, <2>2, <3>2
  <2>. QED
    BY <1>1, <1>3, <2>2, <2>3, <2>4
<1>. QED
  BY <1>2, <1>3

-----------------------------------------------------------------------------
(* The inductive invariant.                                                *)

OpenOnes ==
  [pc : {"asking", "reading"}, op : Op, max : MaxItems \cup {NoMax},
   from : Place, got : SUBSET Listable, page : SUBSET Listable,
   steady : SUBSET Listable]
ListedOnes ==
  [pc : {"listed"}, op : Op, got : SUBSET Listable, page : SUBSET Listable,
   steady : SUBSET Listable]
CutOnes == {CutOff(max) : max \in MaxItems}

(* What a listing is about and has been there all along is there, and was  *)
(* listed or comes at or after the place the next page begins at; and a    *)
(* listing that is cut off asked for too much.                             *)
ListingInv(s, there) ==
  /\ s.pc \in {"asking", "reading"} =>
       \A k \in s.steady :
         /\ k \in there \cap About(s.op)
         /\ k \in s.got \cup s.page \/ Rank[s.op][k] >= s.from
  /\ s.pc = "listed" => s.steady \subseteq s.got \cup s.page
  /\ s.pc = "cutoff" => s.max # NoMax /\ s.max % (2 * HalfWidth) >= HalfWidth

ListersOK ==
  /\ lister \in [Client -> {Idle} \cup CutOnes \cup OpenOnes \cup ListedOnes]
  /\ \A c \in Client : ListingInv(lister[c], stored)

IInv == zones \in SUBSET ZoneId /\ StoreOK /\ KeptInv /\ ListersOK

LEMMA TypeIs ==
  TypeOK <=> /\ zones \in SUBSET ZoneId /\ StoreOK
             /\ lister \in [Client -> {Idle} \cup CutOnes \cup OpenOnes \cup ListedOnes]
BY DEF TypeOK, StoreOK, OpenOnes, ListedOnes, CutOnes

LEMMA ListingFacts ==
  ASSUME NEW s \in {Idle} \cup CutOnes \cup OpenOnes \cup ListedOnes
  PROVE  /\ s.pc \in {"idle", "cutoff", "asking", "reading", "listed"}
         /\ s.pc = "idle" => s = Idle
         /\ s.pc \in {"asking", "reading"} =>
              /\ s \in OpenOnes
              /\ s.op \in Op /\ s.max \in MaxItems \cup {NoMax}
              /\ s.from \in Place /\ s.got \subseteq Listable
              /\ s.page \subseteq Listable /\ s.steady \subseteq Listable
         /\ s.pc = "listed" =>
              /\ s \in ListedOnes
              /\ s.op \in Op /\ s.got \subseteq Listable
              /\ s.page \subseteq Listable /\ s.steady \subseteq Listable
<1>1. CASE s = Idle
  BY <1>1 DEF Idle
<1>2. CASE s \in CutOnes
  BY <1>2 DEF CutOnes, CutOff
<1>3. CASE s \in OpenOnes
  BY <1>3 DEF OpenOnes
<1>4. CASE s \in ListedOnes
  BY <1>4 DEF ListedOnes
<1>. QED
  BY <1>1, <1>2, <1>3, <1>4

LEMMA Places ==
  /\ Place \subseteq Nat
  /\ \A op \in Op : Start[op] \subseteq Place
  /\ \A op \in Op, k \in Listable : Rank[op][k] \in Place
<1>1. \A op \in Op : Start[op] \subseteq Nat
  BY Route53ListingAssumption
<1>2. ASSUME NEW x
      PROVE  x \in Place <=>
               \/ \E op \in Op : x \in Start[op]
               \/ \E op \in Op, k \in Listable : x = Rank[op][k]
  BY DEF Place
<1>3. ASSUME NEW x \in Place PROVE x \in Nat
  BY <1>1, <1>2, <1>3, Orders
<1>. QED
  BY <1>2, <1>3

LEMMA StoredType ==
  ASSUME zones \in SUBSET ZoneId, StoreOK
  PROVE  stored \subseteq Listable
BY DEF StoreOK, stored, In, Listable

(* A step of one listing, to an entry n, while nothing else changes.       *)
LEMMA StepInv ==
  ASSUME IInv, NEW c \in Client, NEW n,
         lister' = [lister EXCEPT ![c] = n],
         UNCHANGED <<zones, rrsets, acked, plain>>,
         n \in {Idle} \cup CutOnes \cup OpenOnes \cup ListedOnes,
         ListingInv(n, stored)
  PROVE  IInv'
<1>1. /\ lister'[c] = n
      /\ \A d \in Client \ {c} : lister'[d] = lister[d]
  BY DEF IInv, ListersOK
<1>2. stored' = stored
  BY DEF stored
<1>3. ListersOK'
  BY <1>1, <1>2 DEF IInv, ListersOK
<1>. QED
  BY <1>3 DEF IInv, StoreOK, KeptInv

LEMMA IdleInv == \A there : ListingInv(Idle, there)
BY DEF Idle, ListingInv

LEMMA BeginInv ==
  ASSUME IInv, NEW c \in Client, NEW op \in Op, NEW place \in Start[op],
         NEW max \in MaxItems \cup {NoMax}, Begin(c, op, place, max)
  PROVE  IInv'
<1>1. PICK steady : steady = From(op, stored \cap About(op), place)
  OBVIOUS
<1>2. PICK n : n = Paging("asking", op, max, place, {}, {}, steady)
  OBVIOUS
<1>3. lister' = [lister EXCEPT ![c] = n] /\ UNCHANGED <<zones, rrsets, acked, plain>>
  BY <1>1, <1>2 DEF Begin
<1>4. steady \subseteq Listable
  BY <1>1, StoredType DEF From, IInv
<1>5. n \in OpenOnes
  BY <1>2, <1>4, Places DEF Paging, OpenOnes
<1>6. n.pc = "asking" /\ n.op = op /\ n.from = place /\ n.steady = steady
  BY <1>2 DEF Paging
<1>7. ListingInv(n, stored)
  BY <1>1, <1>6 DEF ListingInv, From
<1>. QED
  BY <1>3, <1>5, <1>7, StepInv

LEMMA FindZoneIs ==
  ASSUME IInv, NEW c \in Client, FindZone(c)
  PROVE  /\ UNCHANGED <<zones, rrsets, acked, plain>>
         /\ \/ lister' = [lister EXCEPT ![c] = Idle]
            \/ /\ lister[c].pc = "asking" /\ lister[c] \in OpenOnes
               /\ lister' = [lister EXCEPT ![c] =
                    Paging("reading", lister[c].op, lister[c].max, lister[c].from,
                           lister[c].got, lister[c].page, lister[c].steady)]
<1>1. lister[c].pc = "asking" /\ UNCHANGED <<zones, rrsets, acked, plain>>
  BY DEF FindZone
<1>2. lister[c] \in OpenOnes
  BY <1>1, ListingFacts DEF IInv, ListersOK
<1>3. CASE Home \notin zones
  BY <1>1, <1>3 DEF FindZone
<1>4. CASE Home \in zones
  <2>1. lister' = [lister EXCEPT ![c] = [lister[c] EXCEPT !.pc = "reading"]]
    BY <1>4 DEF FindZone, IInv, ListersOK
  <2>2. PICK s : s = lister[c]
    OBVIOUS
  <2>3. [s EXCEPT !.pc = "reading"] =
          Paging("reading", s.op, s.max, s.from, s.got, s.page, s.steady)
    BY <1>2, <2>2 DEF OpenOnes, Paging
  <2>. QED
    BY <1>1, <1>2, <2>1, <2>2, <2>3
<1>. QED
  BY <1>3, <1>4

LEMMA FindZoneInv ==
  ASSUME IInv, NEW c \in Client, FindZone(c)
  PROVE  IInv'
<1>1. UNCHANGED <<zones, rrsets, acked, plain>>
  BY FindZoneIs
<1>2. CASE lister' = [lister EXCEPT ![c] = Idle]
  BY <1>1, <1>2, IdleInv, StepInv
<1>3. CASE /\ lister[c].pc = "asking" /\ lister[c] \in OpenOnes
           /\ lister' = [lister EXCEPT ![c] =
                Paging("reading", lister[c].op, lister[c].max, lister[c].from,
                       lister[c].got, lister[c].page, lister[c].steady)]
  <2>1. PICK s : s = lister[c]
    OBVIOUS
  <2>2. PICK n : n = Paging("reading", s.op, s.max, s.from, s.got, s.page, s.steady)
    OBVIOUS
  <2>3. n \in OpenOnes
    BY <1>3, <2>1, <2>2 DEF OpenOnes, Paging
  <2>4. /\ n.pc = "reading" /\ n.op = s.op /\ n.from = s.from /\ n.got = s.got
        /\ n.page = s.page /\ n.steady = s.steady
    BY <2>2 DEF Paging
  <2>5. ListingInv(s, stored) /\ s.pc = "asking"
    BY <1>3, <2>1 DEF IInv, ListersOK
  <2>6. ListingInv(n, stored)
    BY <2>4, <2>5 DEF ListingInv
  <2>. QED
    BY <1>1, <1>3, <2>1, <2>2, <2>3, <2>6, StepInv
<1>. QED
  BY <1>2, <1>3, FindZoneIs

(* What is ahead of an open listing.                                       *)
AheadOf(s) == From(s.op, stored \cap About(s.op), s.from)

LEMMA NextPageIs ==
  ASSUME IInv, NEW c \in Client, NextPage(c)
  PROVE  /\ UNCHANGED <<zones, rrsets, acked, plain>>
         /\ lister[c].pc \in {"asking", "reading"} /\ lister[c] \in OpenOnes
         /\ AheadOf(lister[c]) \subseteq Listable
         /\ \/ /\ lister[c].max \in MaxItems
               /\ lister[c].max % (2 * HalfWidth) >= HalfWidth
               /\ lister' = [lister EXCEPT ![c] = CutOff(lister[c].max)]
            \/ lister' = [lister EXCEPT ![c] =
                 Listed(lister[c].op, lister[c].got \cup lister[c].page,
                        AheadOf(lister[c]), lister[c].steady)]
            \/ \E page, place :
                 /\ Cut(lister[c].op, AheadOf(lister[c]), page, place)
                 /\ lister' = [lister EXCEPT ![c] =
                      Paging("asking", lister[c].op, lister[c].max, place,
                             lister[c].got \cup lister[c].page, page,
                             lister[c].steady)]
<1>. DEFINE s == lister[c]
            items == AheadOf(s)
            limit == Limit(s.max)
            answer == paginate(s.op, items, limit)
            got == s.got \cup s.page
<1>1. s.pc \in {"asking", "reading"} /\ UNCHANGED <<zones, rrsets, acked, plain>>
  BY DEF NextPage
<1>2. s \in OpenOnes /\ s.op \in Op /\ s.max \in MaxItems \cup {NoMax}
  BY <1>1, ListingFacts DEF IInv, ListersOK
<1>3. items \subseteq Listable
  BY StoredType DEF AheadOf, From, IInv
<1>4. limit \in Int /\ (limit < 0 => /\ s.max # NoMax
                                     /\ s.max % (2 * HalfWidth) >= HalfWidth)
  BY <1>2, NegativeLimit
<1>5. lister' = [lister EXCEPT ![c] =
        IF answer.panics THEN CutOff(s.max)
        ELSE IF answer.more
        THEN Paging("asking", s.op, s.max, answer.next, got, answer.items, s.steady)
        ELSE Listed(s.op, got, answer.items, s.steady)]
  BY DEF NextPage, AheadOf
<1>. HIDE DEF s, items, limit
<1>6. \/ answer = Page(items)
      \/ limit < 0 /\ answer = Panic
      \/ \E page, place : /\ Cut(s.op, items, page, place)
                          /\ answer = PageBefore(page, place)
  BY <1>2, <1>3, <1>4, PageIs
<1>. HIDE DEF answer
<1>7. CASE answer = Page(items)
  <2>1. ~answer.panics /\ ~answer.more /\ answer.items = items
    BY <1>7 DEF Page
  <2>2. lister' = [lister EXCEPT ![c] = Listed(s.op, got, items, s.steady)]
    BY <1>5, <2>1
  <2>. QED
    BY <1>1, <1>2, <1>3, <2>2 DEF s, items
<1>8. CASE limit < 0 /\ answer = Panic
  <2>1. answer.panics
    BY <1>8 DEF Panic
  <2>2. lister' = [lister EXCEPT ![c] = CutOff(s.max)]
    BY <1>5, <2>1
  <2>3. s.max \in MaxItems /\ s.max % (2 * HalfWidth) >= HalfWidth
    BY <1>2, <1>4, <1>8
  <2>. QED
    BY <1>1, <1>2, <1>3, <2>2, <2>3 DEF s, items
<1>9. CASE \E page, place : /\ Cut(s.op, items, page, place)
                           /\ answer = PageBefore(page, place)
  <2>1. PICK page, place : /\ Cut(s.op, items, page, place)
                           /\ answer = PageBefore(page, place)
    BY <1>9
  <2>2. /\ ~answer.panics /\ answer.more /\ answer.items = page
        /\ answer.next = place
    BY <2>1 DEF PageBefore
  <2>3. lister' = [lister EXCEPT ![c] =
          Paging("asking", s.op, s.max, place, got, page, s.steady)]
    BY <1>5, <2>2
  <2>. QED
    BY <1>1, <1>2, <1>3, <2>1, <2>3 DEF s, items
<1>. QED
  BY <1>6, <1>7, <1>8, <1>9

LEMMA NextPageInv ==
  ASSUME IInv, NEW c \in Client, NextPage(c)
  PROVE  IInv'
<1>. DEFINE s == lister[c]
            items == AheadOf(s)
            got == s.got \cup s.page
<1>1. /\ UNCHANGED <<zones, rrsets, acked, plain>>
      /\ s.pc \in {"asking", "reading"} /\ s \in OpenOnes
      /\ items \subseteq Listable
  BY NextPageIs
<1>2. /\ s.op \in Op /\ s.max \in MaxItems \cup {NoMax}
      /\ s.steady \subseteq Listable /\ got \subseteq Listable
      /\ s.from \in Place
  BY <1>1 DEF OpenOnes
<1>3. ASSUME NEW k \in s.steady
      PROVE  k \in stored \cap About(s.op) /\ (k \in got \/ k \in items)
  <2>1. ListingInv(s, stored)
    BY DEF IInv, ListersOK
  <2>. QED
    BY <1>1, <2>1 DEF ListingInv, AheadOf, From
<1>. HIDE DEF items
<1>4. CASE /\ s.max \in MaxItems
           /\ s.max % (2 * HalfWidth) >= HalfWidth
           /\ lister' = [lister EXCEPT ![c] = CutOff(s.max)]
  <2>1. PICK n : n = CutOff(s.max)
    OBVIOUS
  <2>2. n \in CutOnes /\ n.pc = "cutoff" /\ n.max = s.max
    BY <1>4, <2>1 DEF CutOff, CutOnes
  <2>3. s.max # NoMax
    BY <1>4, Route53ListingAssumption
  <2>4. ListingInv(n, stored)
    BY <1>4, <2>2, <2>3 DEF ListingInv
  <2>. QED
    BY <1>1, <1>4, <2>1, <2>2, <2>4, StepInv
<1>5. CASE lister' = [lister EXCEPT ![c] = Listed(s.op, got, items, s.steady)]
  <2>1. PICK n : n = Listed(s.op, got, items, s.steady)
    OBVIOUS
  <2>2. n \in ListedOnes
    BY <1>1, <1>2, <2>1 DEF Listed, ListedOnes
  <2>3. /\ n.pc = "listed" /\ n.got = got /\ n.page = items
        /\ n.steady = s.steady
    BY <2>1 DEF Listed
  <2>4. ListingInv(n, stored)
    BY <1>3, <2>3 DEF ListingInv
  <2>. QED
    BY <1>1, <1>5, <2>1, <2>2, <2>4, StepInv
<1>6. ASSUME NEW page, NEW place, Cut(s.op, items, page, place),
             lister' = [lister EXCEPT ![c] =
               Paging("asking", s.op, s.max, place, got, page, s.steady)]
      PROVE  IInv'
  <2>1. PICK n : n = Paging("asking", s.op, s.max, place, got, page, s.steady)
    OBVIOUS
  <2>2. place \in Place /\ page \subseteq Listable
    BY <1>1, <1>2, <1>6, Places DEF Cut
  <2>3. n \in OpenOnes
    BY <1>2, <2>1, <2>2 DEF Paging, OpenOnes
  <2>4. /\ n.pc = "asking" /\ n.op = s.op /\ n.from = place /\ n.got = got
        /\ n.page = page /\ n.steady = s.steady
    BY <2>1 DEF Paging
  <2>5. \A k \in s.steady : k \in got \cup page \/ Rank[s.op][k] >= place
    BY <1>3, <1>6 DEF Cut
  <2>6. ListingInv(n, stored)
    BY <1>3, <2>4, <2>5 DEF ListingInv
  <2>. QED
    BY <1>1, <1>6, <2>1, <2>3, <2>6, StepInv
<1>. QED
  BY <1>4, <1>5, <1>6, NextPageIs DEF items

(* Listings are as they were, or are forgotten.                            *)
LEMMA ForgetInv ==
  ASSUME IInv, UNCHANGED <<zones, rrsets, acked, plain>>,
         lister' = [c \in Client |-> lister'[c]],
         \A c \in Client : lister'[c] = Idle \/ lister'[c] = lister[c]
  PROVE  IInv'
<1>1. stored' = stored
  BY DEF stored
<1>2. ASSUME NEW c \in Client
      PROVE  /\ lister'[c] \in {Idle} \cup CutOnes \cup OpenOnes \cup ListedOnes
             /\ ListingInv(lister'[c], stored)
  BY IdleInv DEF IInv, ListersOK
<1>3. ListersOK'
  BY <1>1, <1>2 DEF ListersOK
<1>. QED
  BY <1>3 DEF IInv, StoreOK, KeptInv

(* Whatever changes what is stored robs the open listings of what is gone. *)
LEMMA RobbedIs ==
  ASSUME IInv, NEW now, StillThere(now), NEW c \in Client
  PROVE  \/ /\ lister[c].pc \in {"asking", "reading"} /\ lister[c] \in OpenOnes
            /\ lister'[c] =
                 Paging(lister[c].pc, lister[c].op, lister[c].max, lister[c].from,
                        lister[c].got, lister[c].page, lister[c].steady \cap now)
         \/ /\ lister[c].pc \notin {"asking", "reading"}
            /\ lister'[c] = lister[c]
<1>1. CASE lister[c].pc \notin {"asking", "reading"}
  BY <1>1 DEF StillThere
<1>2. CASE lister[c].pc \in {"asking", "reading"}
  <2>1. lister[c] \in OpenOnes
    BY <1>2, ListingFacts DEF IInv, ListersOK
  <2>2. PICK s, steady : s = lister[c] /\ steady = s.steady \cap now
    OBVIOUS
  <2>3. lister'[c] = [s EXCEPT !.steady = steady]
    BY <1>2, <2>2 DEF StillThere
  <2>4. [s EXCEPT !.steady = steady] =
          Paging(s.pc, s.op, s.max, s.from, s.got, s.page, steady)
    <3>1. PICK pc, op, max, from, got, page, was :
            s = Paging(pc, op, max, from, got, page, was)
      <4>1. \E pc \in {"asking", "reading"}, op \in Op, max \in MaxItems \cup {NoMax},
                from \in Place, got, page, was \in SUBSET Listable :
              s = Paging(pc, op, max, from, got, page, was)
        BY <2>1, <2>2 DEF OpenOnes, Paging
      <4>. QED
        BY <4>1
    <3>2. /\ s.pc = pc /\ s.op = op /\ s.max = max /\ s.from = from
          /\ s.got = got /\ s.page = page
      BY <3>1 DEF Paging
    <3>3. [s EXCEPT !.steady = steady] =
            Paging(pc, op, max, from, got, page, steady)
      BY <3>1 DEF Paging
    <3>. QED
      BY <3>2, <3>3
  <2>. QED
    BY <1>2, <2>1, <2>2, <2>3, <2>4
<1>. QED
  BY <1>1, <1>2

LEMMA ChangeInv ==
  ASSUME IInv, zones' \in SUBSET ZoneId, StoreOK', KeptInv', StillThere(stored')
  PROVE  IInv'
<1>1. ASSUME NEW c \in Client
      PROVE  /\ lister'[c] \in {Idle} \cup CutOnes \cup OpenOnes \cup ListedOnes
             /\ ListingInv(lister'[c], stored')
  <2>1. CASE /\ lister[c].pc \in {"asking", "reading"} /\ lister[c] \in OpenOnes
             /\ lister'[c] =
                  Paging(lister[c].pc, lister[c].op, lister[c].max,
                         lister[c].from, lister[c].got, lister[c].page,
                         lister[c].steady \cap stored')
    <3>1. PICK s, n : s = lister[c] /\ n = lister'[c]
      OBVIOUS
    <3>2. PICK now : now = stored'
      OBVIOUS
    <3>3. /\ n.pc = s.pc /\ n.op = s.op /\ n.from = s.from /\ n.got = s.got
          /\ n.page = s.page /\ n.steady = s.steady \cap now
      BY <2>1, <3>1, <3>2 DEF Paging
    <3>4. n \in OpenOnes
      BY <2>1, <3>1, <3>2 DEF Paging, OpenOnes
    <3>5. ListingInv(s, stored) /\ s.pc \in {"asking", "reading"}
      BY <2>1, <3>1 DEF IInv, ListersOK
    <3>6. ListingInv(n, now)
      BY <3>3, <3>5 DEF ListingInv
    <3>. QED
      BY <3>1, <3>2, <3>4, <3>6
  <2>2. CASE /\ lister[c].pc \notin {"asking", "reading"}
             /\ lister'[c] = lister[c]
    <3>1. /\ lister[c] \in {Idle} \cup CutOnes \cup OpenOnes \cup ListedOnes
          /\ ListingInv(lister[c], stored)
      BY DEF IInv, ListersOK
    <3>. QED
      BY <2>2, <3>1 DEF ListingInv
  <2>. QED
    BY <2>1, <2>2, RobbedIs
<1>2. ListersOK'
  BY <1>1 DEF ListersOK, StillThere
<1>. QED
  BY <1>2 DEF IInv

-----------------------------------------------------------------------------
(* What the requests that change zones and record sets leave.              *)

LEMMA SameStoreInv ==
  ASSUME StoreOK, KeptInv, UNCHANGED <<rrsets, acked, plain>>
  PROVE  StoreOK' /\ KeptInv'
BY DEF StoreOK, KeptInv

LEMMA ChangesAreSteps ==
  ASSUME IInv
  PROVE  /\ \A changes \in ChangeBatch :
              ChangeResourceRecordSets(changes) =>
                zones' \in SUBSET ZoneId /\ StoreOK' /\ KeptInv' /\ StillThere(stored')
         /\ \A i \in ZoneId : CreateHostedZone(i) \/ DeleteHostedZone(i) =>
              zones' \in SUBSET ZoneId /\ StoreOK' /\ KeptInv' /\ StillThere(stored')
         /\ DeleteAllData =>
              zones' \in SUBSET ZoneId /\ StoreOK' /\ KeptInv' /\ StillThere(stored')
<1>. zones \in SUBSET ZoneId /\ StoreOK /\ KeptInv
  BY DEF IInv
<1>1. ASSUME NEW changes \in ChangeBatch, ChangeResourceRecordSets(changes)
      PROVE  zones' \in SUBSET ZoneId /\ StoreOK' /\ KeptInv' /\ StillThere(stored')
  <2>1. changes \in Seq(ChangeData)
    BY Route53ListingAssumption
  <2>2. Apply(changes) /\ zones' = zones /\ StillThere(stored')
    BY <1>1 DEF ChangeResourceRecordSets
  <2>. QED
    BY <2>1, <2>2, ApplyInv
<1>2. ASSUME NEW i \in ZoneId, CreateHostedZone(i)
      PROVE  zones' \in SUBSET ZoneId /\ StoreOK' /\ KeptInv' /\ StillThere(stored')
  <2>1. zones' = zones \cup {i} /\ StillThere(stored')
    BY <1>2 DEF CreateHostedZone
  <2>2. CASE i = Home
    <3>1. Apply(ApexRecords)
      BY <1>2, <2>2 DEF CreateHostedZone
    <3>. QED
      BY <2>1, <3>1, ApexIsChange, ApplyInv
  <2>3. CASE i # Home
    <3>1. UNCHANGED <<rrsets, acked, plain>>
      BY <1>2, <2>3 DEF CreateHostedZone
    <3>. QED
      BY <2>1, <3>1, SameStoreInv
  <2>. QED
    BY <2>2, <2>3
<1>3. ASSUME NEW i \in ZoneId, DeleteHostedZone(i)
      PROVE  zones' \in SUBSET ZoneId /\ StoreOK' /\ KeptInv' /\ StillThere(stored')
  <2>1. zones' = zones \ {i} /\ StillThere(stored')
    BY <1>3 DEF DeleteHostedZone
  <2>2. CASE i = Home
    <3>1. Cleared
      BY <1>3, <2>2 DEF DeleteHostedZone
    <3>. QED
      BY <2>1, <3>1, ClearedInv
  <2>3. CASE i # Home
    <3>1. UNCHANGED <<rrsets, acked, plain>>
      BY <1>3, <2>3 DEF DeleteHostedZone
    <3>. QED
      BY <2>1, <3>1, SameStoreInv
  <2>. QED
    BY <2>2, <2>3
<1>4. ASSUME DeleteAllData
      PROVE  zones' \in SUBSET ZoneId /\ StoreOK' /\ KeptInv' /\ StillThere(stored')
  <2>1. zones' = {} /\ Cleared /\ StillThere({})
    BY <1>4 DEF DeleteAllData
  <2>2. StoreOK' /\ KeptInv' /\ In(rrsets') = {}
    BY <2>1, ClearedInv
  <2>3. In(rrsets)' = In(rrsets')
    BY DEF In
  <2>4. stored' = {}
    BY <2>1, <2>2, <2>3 DEF stored
  <2>. QED
    BY <2>1, <2>2, <2>4
<1>. QED
  BY <1>1, <1>2, <1>3, <1>4

LEMMA NextInv == IInv /\ [Next]_vars => IInv'
<1>. SUFFICES ASSUME IInv, [Next]_vars PROVE IInv'
  OBVIOUS
<1>1. ASSUME NEW c \in Client, NEW op \in Op, NEW place \in Start[op],
             NEW max \in MaxItems \cup {NoMax}, Begin(c, op, place, max)
      PROVE  IInv'
  BY <1>1, BeginInv
<1>2. ASSUME NEW c \in Client, FindZone(c) PROVE IInv'
  BY <1>2, FindZoneInv
<1>3. ASSUME NEW c \in Client, NextPage(c) PROVE IInv'
  BY <1>3, NextPageInv
<1>4. ASSUME NEW c \in Client, Leave(c) PROVE IInv'
  <2>1. /\ lister' = [lister EXCEPT ![c] = Idle]
        /\ UNCHANGED <<zones, rrsets, acked, plain>>
    BY <1>4 DEF Leave
  <2>. QED
    BY <2>1, IdleInv, StepInv
<1>5. ASSUME Restart PROVE IInv'
  <2>1. /\ lister' = [c \in Client |-> lister'[c]]
        /\ \A c \in Client : lister'[c] = Idle \/ lister'[c] = lister[c]
        /\ UNCHANGED <<zones, rrsets, acked, plain>>
    BY <1>5 DEF Restart
  <2>. QED
    BY <2>1, ForgetInv
<1>6. ASSUME \/ \E changes \in ChangeBatch : ChangeResourceRecordSets(changes)
             \/ \E i \in ZoneId : CreateHostedZone(i) \/ DeleteHostedZone(i)
             \/ DeleteAllData
      PROVE  IInv'
  BY <1>6, ChangesAreSteps, ChangeInv
<1>7. CASE UNCHANGED vars
  BY <1>7 DEF vars, IInv, StoreOK, KeptInv, ListersOK, stored
<1>. QED
  BY <1>1, <1>2, <1>3, <1>4, <1>5, <1>6, <1>7 DEF Next

LEMMA Invariance == Spec => []IInv
<1>1. Init => IInv
  <2>. SUFFICES ASSUME Init PROVE IInv
    OBVIOUS
  <2>1. rrsets = [s \in Slot |-> Absent] /\ acked = [r \in RrSet |-> Absent]
        /\ plain = TRUE /\ zones = {}
    BY DEF Init, EmptyBucket
  <2>2. StoreOK /\ KeptInv
    BY <2>1, SafeSlots DEF StoreOK, KeptInv
  <2>3. ListersOK
    BY IdleInv DEF Init, ListersOK
  <2>. QED
    BY <2>1, <2>2, <2>3 DEF IInv
<1>. QED
  BY <1>1, NextInv, PTL DEF Spec

-----------------------------------------------------------------------------
(* TypeOK, for every zone, all names and every number of clients.          *)
THEOREM TypeCorrect == Spec => []TypeOK
<1>1. IInv => TypeOK
  BY TypeIs DEF IInv, ListersOK
<1>. QED
  BY <1>1, Invariance, PTL

(* paginate cuts a request off for no other number than one that 32 bits   *)
(* read as negative.                                                       *)
THEOREM CutOffIsNegative == Spec => []OnlyNegativeIsCutOff
<1>1. IInv => OnlyNegativeIsCutOff
  BY DEF IInv, ListersOK, ListingInv, OnlyNegativeIsCutOff
<1>. QED
  BY <1>1, Invariance, PTL

(* Record sets whose names do not repeat the zone's are kept under keys of *)
(* their own: convertToKey tells such names apart, whatever they are, and  *)
(* a change to one never goes to another.                                  *)
THEOREM PlainIsKept == Spec => []PlainNamesAreKept
<1>1. IInv => PlainNamesAreKept
  BY KeptIsKept DEF IInv
<1>. QED
  BY <1>1, Invariance, PTL

-----------------------------------------------------------------------------
(* The refinement.                                                         *)

scanNow == [c \in Client |-> Scanned(lister[c])]

LEMMA ScannedIs ==
  /\ \A s : s.pc \in {"idle", "cutoff"} => Scanned(s) = Scan!Idle
  /\ \A s : s.pc \in {"asking", "reading"} =>
       Scanned(s) = Scan!Open(s.op, About(s.op), s.from, s.got \cup s.page, s.steady)
  /\ \A s : s.pc = "listed" => Scanned(s) = Scan!Done(s.got \cup s.page, s.steady)
BY DEF Scanned, Scan!Idle, Scan!Open, Scan!Done

LEMMA OpenIs ==
  \A order, about, at, seen, steady :
    LET open == Scan!Open(order, about, at, seen, steady)
    IN /\ open.pc = "open" /\ open.order = order /\ open.about = about
       /\ open.at = at /\ open.seen = seen /\ open.steady = steady
BY DEF Scan!Open

(* A step of one listing is a step of its scan.                            *)
LEMMA ScanMoves ==
  ASSUME IInv, NEW c \in Client, NEW n, lister' = [lister EXCEPT ![c] = n]
  PROVE  scanNow' = [scanNow EXCEPT ![c] = Scanned(n)]
<1>1. /\ lister'[c] = n
      /\ \A d \in Client \ {c} : lister'[d] = lister[d]
  BY DEF IInv, ListersOK
<1>2. PICK scan : scan = scanNow
  OBVIOUS
<1>3. scan = [d \in Client |-> Scanned(lister[d])]
  BY <1>2 DEF scanNow
<1>4. \A d \in Client : Scanned(lister'[d]) = [scan EXCEPT ![c] = Scanned(n)][d]
  BY <1>1, <1>3
<1>5. [d \in Client |-> Scanned(lister'[d])] = [scan EXCEPT ![c] = Scanned(n)]
  BY <1>3, <1>4
<1>. QED
  BY <1>2, <1>5 DEF scanNow

LEMMA InitScan == Init => Scan!Init
<1>. SUFFICES ASSUME Init PROVE Scan!Init
  OBVIOUS
<1>1. \A c \in Client : Scanned(lister[c]) = Scan!Idle
  BY ScannedIs DEF Init, Idle
<1>2. stored \in SUBSET Listable
  BY DEF Init, stored, In, EmptyBucket
<1>. QED
  BY <1>1, <1>2 DEF Scan!Init

LEMMA BeginScan ==
  ASSUME IInv, NEW c \in Client, NEW op \in Op, NEW place \in Start[op],
         NEW max \in MaxItems \cup {NoMax}, Begin(c, op, place, max)
  PROVE  Scan!Begin(c)
<1>. DEFINE about == About(op)
            steady == From(op, stored \cap about, place)
            n == Paging("asking", op, max, place, {}, {}, steady)
<1>1. lister[c].pc = "idle" /\ lister' = [lister EXCEPT ![c] = n]
  BY DEF Begin, Idle
<1>2. stored' = stored
  BY DEF Begin, stored
<1>3. scanNow[c] = Scan!Idle
  BY <1>1, ScannedIs DEF scanNow
<1>4. Scanned(n) = Scan!Open(op, about, place, {}, Scan!After(op, stored \cap about, place))
  <2>1. /\ n.pc = "asking" /\ n.op = op /\ n.from = place
        /\ n.got = {} /\ n.page = {} /\ n.steady = steady
    BY DEF Paging
  <2>2. steady = Scan!After(op, stored \cap about, place)
    BY DEF From, Scan!After
  <2>. HIDE DEF n, steady
  <2>. QED
    BY <2>1, <2>2, ScannedIs
<1>5. about \in {About(o) : o \in Op} /\ place \in Place
  BY Places
<1>6. scanNow' = [scanNow EXCEPT ![c] = Scanned(n)]
  <2>. HIDE DEF n
  <2>. QED
    BY <1>1, ScanMoves
<1>7. scanNow' = [scanNow EXCEPT ![c] =
        Scan!Open(op, about, place, {}, Scan!After(op, stored \cap about, place))]
  BY <1>4, <1>6
<1>. HIDE DEF n, about
<1>8. \E o \in Op, a \in {About(x) : x \in Op}, at \in Place :
        scanNow' = [scanNow EXCEPT ![c] =
          Scan!Open(o, a, at, {}, Scan!After(o, stored \cap a, at))]
  BY <1>5, <1>7
<1>. QED
  BY <1>2, <1>3, <1>8 DEF Scan!Begin, scanNow

LEMMA SameScan ==
  ASSUME NEW c \in Client, IInv, FindZone(c), lister' # [lister EXCEPT ![c] = Idle]
  PROVE  UNCHANGED Scan!vars
<1>1. /\ UNCHANGED <<zones, rrsets, acked, plain>>
      /\ lister[c].pc = "asking"
      /\ lister' = [lister EXCEPT ![c] =
           Paging("reading", lister[c].op, lister[c].max, lister[c].from,
                  lister[c].got, lister[c].page, lister[c].steady)]
  BY FindZoneIs
<1>2. PICK s : s = lister[c]
  OBVIOUS
<1>3. PICK n : n = Paging("reading", s.op, s.max, s.from, s.got, s.page, s.steady)
  OBVIOUS
<1>4. /\ n.pc = "reading" /\ n.op = s.op /\ n.from = s.from /\ n.got = s.got
      /\ n.page = s.page /\ n.steady = s.steady
  BY <1>3 DEF Paging
<1>5. Scanned(n) = Scanned(s)
  <2>1. s.pc = "asking"
    BY <1>1, <1>2
  <2>2. Scanned(s) = Scan!Open(s.op, About(s.op), s.from, s.got \cup s.page, s.steady)
    BY <2>1, ScannedIs
  <2>3. Scanned(n) = Scan!Open(n.op, About(n.op), n.from, n.got \cup n.page, n.steady)
    BY <1>4, ScannedIs
  <2>. QED
    BY <1>4, <2>2, <2>3
<1>6. scanNow' = [scanNow EXCEPT ![c] = Scanned(s)]
  <2>1. lister' = [lister EXCEPT ![c] = n]
    BY <1>1, <1>2, <1>3
  <2>2. scanNow' = [scanNow EXCEPT ![c] = Scanned(n)]
    BY <2>1, ScanMoves
  <2>. QED
    BY <1>5, <2>2
<1>7. scanNow' = scanNow
  BY <1>2, <1>6 DEF scanNow
<1>8. stored' = stored
  BY <1>1 DEF stored
<1>. QED
  BY <1>7, <1>8 DEF Scan!vars, scanNow

(* Listings that are forgotten or cut off are closed scans.                *)
LEMMA CloseScan ==
  ASSUME NEW S \in SUBSET Client, UNCHANGED <<zones, rrsets, acked, plain>>,
         \A c \in S : lister'[c].pc \in {"idle", "cutoff"},
         \A c \in Client \ S : lister'[c] = lister[c]
  PROVE  Scan!Close(S)
<1>1. stored' = stored
  BY DEF stored
<1>2. \A c \in Client :
        Scanned(lister'[c]) = IF c \in S THEN Scan!Idle ELSE scanNow[c]
  BY ScannedIs DEF scanNow
<1>3. scanNow' = [c \in Client |-> IF c \in S THEN Scan!Idle ELSE scanNow[c]]
  BY <1>2 DEF scanNow
<1>. QED
  BY <1>1, <1>3 DEF Scan!Close, scanNow

(* A page is a page of the scan, and the last one ends it; a listing that  *)
(* is cut off is closed.                                                   *)
LEMMA NextPageScan ==
  ASSUME IInv, NEW c \in Client, NextPage(c)
  PROVE  \/ Scan!Close({c})
         \/ Scan!LastPage(c)
         \/ \E q \in Place : Scan!NextPage(c, q)
<1>. DEFINE s == lister[c]
            items == AheadOf(s)
            got == s.got \cup s.page
<1>1. /\ UNCHANGED <<zones, rrsets, acked, plain>>
      /\ s.pc \in {"asking", "reading"} /\ s \in OpenOnes
      /\ items \subseteq Listable
  BY NextPageIs
<1>2. stored' = stored
  BY <1>1 DEF stored
<1>3. /\ s.op \in Op /\ s.from \in Place
      /\ lister = [d \in Client |-> lister[d]]
  BY <1>1 DEF OpenOnes, IInv, ListersOK
<1>4. PICK scan : scan = scanNow
  OBVIOUS
<1>5. scan[c] = Scan!Open(s.op, About(s.op), s.from, got, s.steady)
  BY <1>1, <1>4, ScannedIs DEF scanNow
<1>6. /\ scan[c].pc = "open" /\ scan[c].order = s.op /\ scan[c].about = About(s.op)
      /\ scan[c].at = s.from /\ scan[c].seen = got /\ scan[c].steady = s.steady
  BY <1>5, OpenIs
<1>7. Scan!Rest(c) = items
  BY <1>4, <1>6 DEF Scan!Rest, Scan!After, AheadOf, From, scanNow
<1>8. CASE lister' = [lister EXCEPT ![c] = CutOff(s.max)]
  <2>1. lister'[c] = CutOff(s.max) /\ \A d \in Client \ {c} : lister'[d] = lister[d]
    BY <1>3, <1>8
  <2>2. CutOff(s.max).pc = "cutoff"
    BY DEF CutOff
  <2>3. Scan!Close({c})
    BY <1>1, <2>1, <2>2, CloseScan
  <2>. QED
    BY <2>3
<1>9. CASE lister' = [lister EXCEPT ![c] = Listed(s.op, got, items, s.steady)]
  <2>. HIDE DEF items, got, s
  <2>1. PICK n : n = Listed(s.op, got, items, s.steady)
    OBVIOUS
  <2>2. n.pc = "listed" /\ n.got = got /\ n.page = items /\ n.steady = s.steady
    BY <2>1 DEF Listed
  <2>3. Scanned(n) = Scan!Done(got \cup items, s.steady)
    BY <2>2, ScannedIs
  <2>4. scanNow' = [scan EXCEPT ![c] = Scanned(n)]
    BY <1>4, <1>9, <2>1, ScanMoves
  <2>5. scanNow' = [scan EXCEPT ![c] =
          Scan!Done(scan[c].seen \cup Scan!Rest(c), scan[c].steady)]
    BY <1>6, <1>7, <2>3, <2>4
  <2>6. Scan!LastPage(c)
    BY <1>2, <1>4, <1>6, <2>5 DEF Scan!LastPage, scanNow
  <2>. QED
    BY <2>6
<1>10. ASSUME NEW page, NEW place, Cut(s.op, items, page, place),
              lister' = [lister EXCEPT ![c] =
                Paging("asking", s.op, s.max, place, got, page, s.steady)]
       PROVE  \E q \in Place : Scan!NextPage(c, q)
  <2>1. PICK n : n = Paging("asking", s.op, s.max, place, got, page, s.steady)
    OBVIOUS
  <2>2. /\ n.pc = "asking" /\ n.op = s.op /\ n.from = place /\ n.got = got
        /\ n.page = page /\ n.steady = s.steady
    BY <2>1 DEF Paging
  <2>3. Scanned(n) = Scan!Open(s.op, About(s.op), place, got \cup page, s.steady)
    BY <2>2, ScannedIs
  <2>4. place \in Place /\ place >= s.from
    BY <1>1, <1>3, <1>10, Places DEF Cut, AheadOf, From
  <2>5. page = {k \in items : Rank[s.op][k] < place}
    <3>1. page \subseteq items /\ place \in Nat /\ \A k \in items : Rank[s.op][k] \in Nat
      BY <1>1, <1>3, <1>10, <2>4, Places, Orders DEF Cut
    <3>2. \A k \in items : k \in page <=> Rank[s.op][k] < place
      BY <1>10, <3>1 DEF Cut
    <3>. QED
      BY <3>1, <3>2
  <2>6. scanNow' = [scan EXCEPT ![c] = Scanned(n)]
    <3>. HIDE DEF s, got
    <3>. QED
      BY <1>4, <1>10, <2>1, ScanMoves
  <2>. HIDE DEF s, items, got
  <2>7. PICK open, now : open = scan[c] /\ now = got \cup page
    OBVIOUS
  <2>8. [open EXCEPT !.at = place, !.seen = now] = Scanned(n)
    <3>1. PICK mid : mid = [open EXCEPT !.at = place]
      OBVIOUS
    <3>2. mid = Scan!Open(s.op, About(s.op), place, got, s.steady)
      BY <1>5, <2>7, <3>1 DEF Scan!Open
    <3>3. PICK order, about, seen, steady :
            /\ mid = Scan!Open(order, about, place, seen, steady)
            /\ Scanned(n) = Scan!Open(order, about, place, now, steady)
      BY <2>3, <2>7, <3>2
    <3>4. [mid EXCEPT !.seen = now] = Scanned(n)
      BY <3>3 DEF Scan!Open
    <3>. QED
      BY <3>1, <3>4
  <2>9. now = scan[c].seen \cup {k \in Scan!Rest(c) : Rank[scan[c].order][k] < place}
    BY <1>6, <1>7, <2>5, <2>7
  <2>10. scanNow' = [scan EXCEPT ![c].at = place, ![c].seen = now]
    BY <1>4, <2>6, <2>7, <2>8 DEF scanNow
  <2>11. scanNow' =
           [scan EXCEPT ![c].at = place,
              ![c].seen = @ \cup {k \in Scan!Rest(c) : Rank[scan[c].order][k] < place}]
    BY <2>9, <2>10
  <2>12. Scan!NextPage(c, place)
    BY <1>2, <1>4, <1>6, <2>4, <2>11 DEF Scan!NextPage, scanNow
  <2>. QED
    BY <2>4, <2>12
<1>. QED
  BY <1>8, <1>9, <1>10, NextPageIs

(* Whatever changes what is stored robs the scans of what is gone.         *)
LEMMA ChangeScan ==
  ASSUME IInv, IInv', StillThere(stored')
  PROVE  Scan!Change
<1>1. stored' \in SUBSET Listable
  <2>1. zones' \in SUBSET ZoneId /\ StoreOK'
    BY DEF IInv
  <2>. QED
    BY <2>1 DEF StoreOK, stored, In, Listable
<1>2. ASSUME NEW c \in Client
      PROVE  Scanned(lister'[c]) =
               IF scanNow[c].pc = "open"
               THEN [scanNow[c] EXCEPT !.steady = scanNow[c].steady \cap stored']
               ELSE scanNow[c]
  <2>1. PICK s, n, now : s = lister[c] /\ n = lister'[c] /\ now = stored'
    OBVIOUS
  <2>2. PICK scan : scan = scanNow[c]
    OBVIOUS
  <2>3. scan = Scanned(s)
    BY <2>1, <2>2 DEF scanNow
  <2>4. CASE /\ s.pc \in {"asking", "reading"}
             /\ n = Paging(s.pc, s.op, s.max, s.from, s.got, s.page,
                           s.steady \cap now)
    <3>1. /\ n.pc = s.pc /\ n.op = s.op /\ n.from = s.from /\ n.got = s.got
          /\ n.page = s.page /\ n.steady = s.steady \cap now
      BY <2>4 DEF Paging
    <3>2. scan = Scan!Open(s.op, About(s.op), s.from, s.got \cup s.page, s.steady)
      BY <2>3, <2>4, ScannedIs
    <3>3. Scanned(n) =
            Scan!Open(n.op, About(n.op), n.from, n.got \cup n.page, n.steady)
      BY <2>4, <3>1, ScannedIs
    <3>4. PICK about, seen, steady :
            /\ about = About(s.op) /\ seen = s.got \cup s.page
            /\ steady = s.steady \cap now
      OBVIOUS
    <3>5. Scanned(n) = Scan!Open(s.op, about, s.from, seen, steady)
      BY <3>1, <3>3, <3>4
    <3>6. scan = Scan!Open(s.op, about, s.from, seen, s.steady)
      BY <3>2, <3>4
    <3>7. [scan EXCEPT !.steady = steady] = Scanned(n)
      BY <3>5, <3>6 DEF Scan!Open
    <3>8. scan.pc = "open" /\ scan.steady = s.steady
      BY <3>6, OpenIs
    <3>. QED
      BY <2>1, <2>2, <3>4, <3>7, <3>8
  <2>5. CASE s.pc \notin {"asking", "reading"} /\ n = s
    <3>1. s.pc \in {"idle", "cutoff", "listed"}
      BY <2>1, <2>5, ListingFacts DEF IInv, ListersOK
    <3>2. Scanned(s).pc # "open"
      BY <3>1, ScannedIs DEF Scan!Idle, Scan!Done
    <3>. QED
      BY <2>1, <2>2, <2>3, <2>5, <3>2
  <2>. QED
    BY <2>1, <2>4, <2>5, RobbedIs
<1>3. scanNow' = [c \in Client |->
        IF scanNow[c].pc = "open"
        THEN [scanNow[c] EXCEPT !.steady = @ \cap stored'] ELSE scanNow[c]]
  BY <1>2 DEF scanNow
<1>. QED
  BY <1>1, <1>3 DEF Scan!Change, scanNow

LEMMA StepScan == IInv /\ IInv' /\ [Next]_vars => [Scan!Next]_(Scan!vars)
<1>. SUFFICES ASSUME IInv, IInv', [Next]_vars PROVE [Scan!Next]_(Scan!vars)
  OBVIOUS
<1>1. ASSUME NEW c \in Client, NEW op \in Op, NEW place \in Start[op],
             NEW max \in MaxItems \cup {NoMax}, Begin(c, op, place, max)
      PROVE  Scan!Next
  BY <1>1, BeginScan DEF Scan!Next
<1>2. ASSUME NEW c \in Client, lister' = [lister EXCEPT ![c] = Idle],
             UNCHANGED <<zones, rrsets, acked, plain>>
      PROVE  Scan!Next
  <2>1. /\ \A d \in {c} : lister'[d].pc \in {"idle", "cutoff"}
        /\ \A d \in Client \ {c} : lister'[d] = lister[d]
    BY <1>2 DEF IInv, ListersOK, Idle
  <2>2. Scan!Close({c})
    BY <1>2, <2>1, CloseScan
  <2>. QED
    BY <2>2 DEF Scan!Next
<1>3. ASSUME NEW c \in Client, FindZone(c)
      PROVE  Scan!Next \/ UNCHANGED Scan!vars
  BY <1>2, <1>3, SameScan, FindZoneIs
<1>4. ASSUME NEW c \in Client, NextPage(c) PROVE Scan!Next
  BY <1>4, NextPageScan DEF Scan!Next
<1>5. ASSUME NEW c \in Client, Leave(c) PROVE Scan!Next
  BY <1>2, <1>5 DEF Leave
<1>6. ASSUME Restart PROVE Scan!Next
  <2>. DEFINE S == {c \in Client : lister[c].pc = "reading"}
  <2>1. /\ \A c \in S : lister'[c].pc \in {"idle", "cutoff"}
        /\ \A c \in Client \ S : lister'[c] = lister[c]
        /\ UNCHANGED <<zones, rrsets, acked, plain>>
    BY <1>6 DEF Restart, Idle
  <2>2. S \in SUBSET Client
    OBVIOUS
  <2>3. Scan!Close(S)
    <3>. HIDE DEF S
    <3>. QED
      BY <2>1, <2>2, CloseScan
  <2>. QED
    BY <2>2, <2>3 DEF Scan!Next
<1>7. ASSUME \/ \E changes \in ChangeBatch : ChangeResourceRecordSets(changes)
             \/ \E i \in ZoneId : CreateHostedZone(i) \/ DeleteHostedZone(i)
             \/ DeleteAllData
      PROVE  Scan!Next
  BY <1>7, ChangesAreSteps, ChangeScan DEF Scan!Next
<1>8. CASE UNCHANGED vars
  BY <1>8 DEF vars, Scan!vars, stored
<1>. QED
  BY <1>1, <1>3, <1>4, <1>5, <1>6, <1>7, <1>8 DEF Next

(* The three paged lists of internal/route53 are scans: with the places of *)
(* zones and record sets as markers, what Scan allows is all they do.      *)
THEOREM ImplementsScan == Spec => IsAScan
<1>. QED
  BY InitScan, StepScan, Invariance, PTL DEF Spec, IsAScan, Scan!Spec

(* A listing that came to its end has every zone or record set it is about *)
(* that was there all along, at or after the marker it began with, whether *)
(* or not the ones its markers name are still there.                       *)
THEOREM ListingsAreComplete == Spec => []Scan!SteadyAreSeen
<1>1. IInv => Scan!SteadyAreSeen
  <2>. SUFFICES ASSUME IInv, NEW c \in Client, scanNow[c].pc = "done"
                PROVE  scanNow[c].steady \subseteq scanNow[c].seen
    BY DEF Scan!SteadyAreSeen, scanNow
  <2>1. PICK s : s = lister[c]
    OBVIOUS
  <2>2. /\ s.pc \in {"idle", "cutoff", "asking", "reading", "listed"}
        /\ ListingInv(s, stored)
    BY <2>1, ListingFacts DEF IInv, ListersOK
  <2>3. scanNow[c] = Scanned(s)
    BY <2>1 DEF scanNow
  <2>4. s.pc = "listed"
    <3>1. s.pc \in {"idle", "cutoff"} => Scanned(s).pc = "idle"
      BY ScannedIs DEF Scan!Idle
    <3>2. s.pc \in {"asking", "reading"} => Scanned(s).pc = "open"
      <4>. SUFFICES ASSUME s.pc \in {"asking", "reading"}
                    PROVE  Scanned(s).pc = "open"
        OBVIOUS
      <4>1. Scanned(s) =
              Scan!Open(s.op, About(s.op), s.from, s.got \cup s.page, s.steady)
        BY ScannedIs
      <4>. QED
        BY <4>1, OpenIs
    <3>. QED
      BY <2>2, <2>3, <3>1, <3>2
  <2>5. scanNow[c].steady = s.steady /\ scanNow[c].seen = s.got \cup s.page
    BY <2>3, <2>4, ScannedIs DEF Scan!Done
  <2>. QED
    BY <2>2, <2>4, <2>5 DEF ListingInv
<1>. QED
  BY <1>1, Invariance, PTL
=============================================================================
