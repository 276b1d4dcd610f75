----------------------------- MODULE SsmProofs -----------------------------
(***************************************************************************)
(* Theorems about Ssm for every set of names, values, tags, key lists and  *)
(* handlers, and without a bound on versions other than the one of the     *)
(* guards: what is stored is well typed, encrypted, filed under its name   *)
(* and can be opened after any restart, versions count the writes, and a   *)
(* read answers what the acknowledged operations add up to.                *)
(*                                                                         *)
(* Then the same of DbFunctions, which runs an export or an import beside  *)
(* other requests, for every set of zones, projects, record sets and       *)
(* states: an archive is whole, an import that says it is done restores    *)
(* it, and nothing of what was there before outlives the wipe.  The        *)
(* theorems about Ssm alone use no assumption of DbFunctions.              *)
(***************************************************************************)
EXTENDS DbFunctions, TLAPS, FiniteSetTheorems, SequenceTheorems,
        WellFoundedInduction

-----------------------------------------------------------------------------
(* The key list.                                                           *)

(* A set of positions that is not empty has a first one: of the initial    *)
(* segments that end in it, one is smallest.                               *)
LEMMA FirstPosition ==
  ASSUME NEW S \in SUBSET (Nat \ {0}), S # {}
  PROVE  \E i \in S : \A j \in S : i <= j
<1> DEFINE Segments == {1..i : i \in S}
<1>1. Segments \subseteq FiniteSubsetsOf(Nat)
  <2>1. \A i \in S : IsFiniteSet(1..i)
    BY FS_Interval
  <2>2. \A i \in S : 1..i \subseteq Nat
    OBVIOUS
  <2>. QED
    BY <2>1, <2>2 DEF FiniteSubsetsOf
<1>2. Segments # {}
  OBVIOUS
<1>3. \E T \in Segments : \A U \in Segments :
        <<U, T>> \notin StrictSubsetOrdering(Nat)
  <2>. HIDE DEF Segments
  <2>. QED
    BY <1>1, <1>2, FS_StrictSubsetOrderingWellFounded, WFMin
<1>4. PICK i \in S : \A j \in S : <<1..j, 1..i>> \notin StrictSubsetOrdering(Nat)
  BY <1>3
<1>5. ASSUME NEW j \in S, j < i
      PROVE  FALSE
  <2>1. i \in 1..i /\ i \notin 1..j /\ 1..j \subseteq 1..i
    BY <1>5
  <2>2. 1..j \in SUBSET Nat /\ 1..i \in SUBSET Nat
    OBVIOUS
  <2>3. 1..j # 1..i
    BY <2>1
  <2>4. <<1..j, 1..i>> \in StrictSubsetOrdering(Nat)
    BY <2>1, <2>2, <2>3 DEF StrictSubsetOrdering
  <2>. QED
    BY <1>4, <2>4
<1>. QED
  BY <1>5

(* A reference that some key of the list matches finds a key of the list.  *)
LEMMA FindsAKey ==
  ASSUME NEW kr \in Keyrings, NEW ref \in KeyRef,
         NEW i \in DOMAIN kr, Matches(kr[i], ref)
  PROVE  FindKeyId(kr, ref) \in KmsKey /\ FindKeyId(kr, ref) # NoKey
<1> DEFINE hits == {j \in DOMAIN kr : Matches(kr[j], ref)}
<1>1. kr \in Seq(KmsKey) /\ NoKey \notin KmsKey /\ BadArn \notin KeyRef
  BY SsmConstants DEF SsmAssumption
<1>2. hits \in SUBSET (Nat \ {0}) /\ i \in hits
  BY <1>1
<1>3. (CHOOSE h \in hits : \A j \in hits : h <= j) \in hits
  <2>. HIDE DEF hits
  <2>. QED
    BY <1>2, FirstPosition
<1>4. FindKeyId(kr, ref) = kr[CHOOSE h \in hits : \A j \in hits : h <= j]
  BY <1>1, <1>2 DEF FindKeyId
<1>. QED
  BY <1>1, <1>3, <1>4

LEMMA DefaultKeyFound ==
  ASSUME NEW kr \in Keyrings, NEW i \in DOMAIN kr
  PROVE  /\ AliasRef(kr[i].alias) \in KeyRef
         /\ FindKeyId(kr, AliasRef(kr[i].alias)) \in KmsKey
         /\ FindKeyId(kr, AliasRef(kr[i].alias)) # NoKey
<1>1. kr[i] \in KmsKey
  BY SsmConstants DEF SsmAssumption
<1>2. AliasRef(kr[i].alias) \in KeyRef
  BY <1>1 DEF KmsKey, KeyRef
<1>3. Matches(kr[i], AliasRef(kr[i].alias))
  BY DEF Matches
<1>. QED
  BY <1>2, <1>3, FindsAKey

-----------------------------------------------------------------------------
(* The inductive invariant.  Beyond the properties themselves it says that *)
(* the key a stored SecureString names is the one it was encrypted with,   *)
(* and that the copies tag edits hold are as well formed as the store.     *)

Plain(data) ==
  IF data.type = "SecureString" THEN data.value.plain ELSE data.value

WellStored(keys, data) ==
  /\ data.type = "SecureString" =>
       /\ data.value \in Encryption
       /\ \E i \in DOMAIN keys : data.keyId = AliasRef(keys[i].alias)
       /\ FindKeyId(keys, data.keyId).mat = data.value.mat
  /\ data.type = "String" => data.value \in Value

StoreInv ==
  \A k \in Name : Has(params, k) =>
    params[k].name = k /\ WellStored(keyring, params[k])

CopyInv ==
  \A h \in Handler : handler[h].pc = "tagging" =>
    /\ handler[h].copy.name = handler[h].edit.name
    /\ WellStored(keyring, handler[h].copy)

SerialInv ==
  \A b \in Base \ lost :
    acked[b] = IF Readable(PathKey(b))
               THEN [value |-> Plain(params[PathKey(b)]),
                     tags |-> params[PathKey(b)].tags]
               ELSE Gone

IInv == TypeOK /\ StoreInv /\ CopyInv /\ SerialInv

(* What is well stored can be decrypted, and gives what was put in.        *)
LEMMA ReadBack ==
  ASSUME NEW keys \in Keyrings, NEW data \in ParameterData,
         WellStored(keys, data)
  PROVE  /\ ValueWithDecryption(keys, data) = Plain(data)
         /\ Plain(data) \in Value
<1>1. CASE data.type = "SecureString"
  <2>1. PICK i \in DOMAIN keys : data.keyId = AliasRef(keys[i].alias)
    BY <1>1 DEF WellStored
  <2>2. FindKeyId(keys, data.keyId) # NoKey
    BY <2>1, DefaultKeyFound
  <2>3. /\ data.value \in Encryption
        /\ FindKeyId(keys, data.keyId).mat = data.value.mat
    BY <1>1 DEF WellStored
  <2>4. data.value.aad = NoAad /\ data.value.plain \in Value
    BY <2>3 DEF Encryption, Cipher
  <2>. QED
    BY <1>1, <2>2, <2>3, <2>4
       DEF ValueWithDecryption, decrypt, DecryptString, Plain
<1>2. CASE data.type = "String"
  BY <1>2 DEF WellStored, ValueWithDecryption, Plain
<1>. QED
  BY <1>1, <1>2 DEF ParameterData

(* It stays so under a key list that keeps the aliases.                    *)
LEMMA StoredAcrossRestart ==
  ASSUME NEW keys \in Keyrings, NEW old \in Keyrings, Extends(keys, old),
         NEW data \in ParameterData, WellStored(old, data)
  PROVE  WellStored(keys, data)
<1>. SUFFICES ASSUME data.type = "SecureString"
              PROVE  /\ \E i \in DOMAIN keys : data.keyId = AliasRef(keys[i].alias)
                     /\ FindKeyId(keys, data.keyId).mat = data.value.mat
  BY DEF WellStored
<1>1. PICK i \in DOMAIN old : data.keyId = AliasRef(old[i].alias)
  BY DEF WellStored
<1>2. /\ FindKeyId(keys, data.keyId) # NoKey
      /\ FindKeyId(keys, data.keyId).mat = FindKeyId(old, data.keyId).mat
  BY <1>1 DEF Extends
<1>3. \E j \in DOMAIN keys : Matches(keys[j], data.keyId)
  BY <1>2 DEF FindKeyId
<1>4. PICK j \in DOMAIN keys : Matches(keys[j], data.keyId)
  BY <1>3
<1>5. data.keyId = AliasRef(keys[j].alias)
  BY <1>1, <1>4 DEF Matches, AliasRef, IdRef
<1>. QED
  BY <1>2, <1>5 DEF WellStored

-----------------------------------------------------------------------------
(* One put.                                                                *)

Written(key, data, skipTagCopy) ==
  [data EXCEPT !.tags = IF Has(params, key) /\ ~skipTagCopy
                        THEN params[key].tags ELSE @,
               !.version = NewVersion(key)]

LEMMA WrittenWell ==
  ASSUME TypeOK, NEW key \in Name, NEW data \in ParameterData,
         NEW skip \in BOOLEAN, WellStored(keyring, data)
  PROVE  LET w == Written(key, data, skip)
         IN /\ w \in ParameterData
            /\ Has(params, key) => params[key] \in ParameterData
            /\ WellStored(keyring, w)
            /\ Plain(w) = Plain(data)
            /\ w.name = data.name
            /\ w.version = NewVersion(key)
            /\ w.tags = IF Has(params, key) /\ ~skip
                        THEN params[key].tags ELSE data.tags
<1>1. Has(params, key) => params[key] \in ParameterData
  BY DEF TypeOK, Has
<1>2. NewVersion(key) \in Nat
  BY <1>1 DEF NewVersion, ParameterData
<1>3. Has(params, key) => params[key].tags \in Tags
  BY <1>1 DEF ParameterData
<1>. DEFINE w == Written(key, data, skip)
<1>4. /\ w \in ParameterData
      /\ w.type = data.type /\ w.value = data.value
      /\ w.keyId = data.keyId /\ w.name = data.name
      /\ w.version = NewVersion(key)
      /\ w.tags = IF Has(params, key) /\ ~skip
                  THEN params[key].tags ELSE data.tags
  BY <1>2, <1>3 DEF Written, ParameterData
<1>5. WellStored(keyring, w) /\ Plain(w) = Plain(data)
  BY <1>4 DEF WellStored, Plain
<1>. QED
  BY <1>1, <1>4, <1>5

(* With its "/" a name is the key of its base.                             *)
LEMMA NameFacts ==
  ASSUME NEW n \in Name
  PROVE  /\ n.base \in Base
         /\ asPathName(n) = PathKey(n.base)
         /\ PathKey(n.base) \in Name
         /\ n.slash => n = PathKey(n.base)
<1>1. n = [base |-> n.base, slash |-> n.slash] /\ n.base \in Base
      /\ n.slash \in BOOLEAN
  BY DEF Name
<1>3. asPathName(n) = PathKey(n.base)
  BY DEF asPathName
<1>4. PathKey(n.base) \in Name
  BY <1>1 DEF PathKey, Name
<1>5. n.slash => n.slash = TRUE
  BY <1>1
<1>. QED
  BY <1>1, <1>3, <1>4, <1>5 DEF PathKey

LEMMA PathKeyFacts ==
  ASSUME NEW b \in Base
  PROVE  /\ PathKey(b) \in Name
         /\ PathKey(b).base = b
         /\ asPathName(PathKey(b)) = PathKey(b)
         /\ \A c \in Base : PathKey(b) = PathKey(c) => b = c
<1>1. PathKey(b) \in Name /\ PathKey(b).base = b
  BY DEF PathKey, Name
<1>2. \A c \in Base : PathKey(c).base = c
  BY DEF PathKey
<1>. QED
  BY <1>1, <1>2, NameFacts

(* The parameter a put builds from its request.                            *)
LEMMA NewIsWell ==
  ASSUME TypeOK, NEW req \in Request, req.type # "Unsupported"
  PROVE  LET data == Encrypted(NewParameterData(req))
         IN /\ data \in ParameterData
            /\ WellStored(keyring, data)
            /\ Plain(data) = req.value
            /\ data.name = asPathName(req.name)
            /\ data.tags = req.tags
            /\ asPathName(req.name) = PathKey(req.name.base)
            /\ PathKey(req.name.base) \in Name
<1>. DEFINE new == NewParameterData(req)
            ref == DefaultKeyId
<1>1. /\ req.value \in Value /\ req.tags \in Tags
      /\ req.type \in {"String", "SecureString"} /\ req.name \in Name
  BY DEF Request
<1>2. /\ asPathName(req.name) = PathKey(req.name.base)
      /\ PathKey(req.name.base) \in Name
      /\ asPathName(req.name) \in Name
  BY <1>1, NameFacts
<1>3. keyring \in Keyrings /\ 1 \in DOMAIN keyring
  BY SsmConstants DEF TypeOK, SsmAssumption
<1>4. /\ ref \in KeyRef /\ ref = AliasRef(keyring[1].alias)
      /\ FindKeyId(keyring, ref) \in KmsKey
  BY <1>3, DefaultKeyFound DEF DefaultKeyId
<1>5. EncryptString(FindKeyId(keyring, ref), req.value, NoAad) \in Encryption
  BY <1>1, <1>4 DEF EncryptString, Encryption, Cipher, KmsKey
<1>6. CASE req.type = "SecureString"
  <2>. DEFINE data == [new EXCEPT !.keyId = ref,
                !.value = EncryptString(FindKeyId(keyring, ref), new.value, NoAad)]
  <2>1. Encrypted(new) = data
    BY <1>6 DEF Encrypted, NewParameterData
  <2>2. /\ data \in ParameterData
        /\ data.value = EncryptString(FindKeyId(keyring, ref), req.value, NoAad)
        /\ data.keyId = ref /\ data.type = "SecureString"
        /\ data.name = asPathName(req.name) /\ data.tags = req.tags
    <3>. HIDE DEF ref
    <3>. QED
      BY <1>1, <1>2, <1>4, <1>5, <1>6
         DEF NewParameterData, ParameterData, KeyId
  <2>3. data.value.mat = FindKeyId(keyring, ref).mat /\ data.value.plain = req.value
    BY <2>2 DEF EncryptString
  <2>. QED
    BY <1>2, <1>3, <1>4, <1>5, <2>1, <2>2, <2>3 DEF WellStored, Plain
<1>7. CASE req.type = "String"
  BY <1>1, <1>2, <1>7
     DEF Encrypted, NewParameterData, ParameterData, KeyId, WellStored, Plain
<1>. QED
  BY <1>1, <1>6, <1>7

-----------------------------------------------------------------------------
(* What each kind of write keeps of the invariant.                         *)

StateInv == /\ params \in [Name -> ParameterData \cup {Absent}]
            /\ acked \in [Base -> [value : Value, tags : Tags] \cup {Gone}]
            /\ lost \in SUBSET Base
            /\ StoreInv
            /\ SerialInv

(* The serial store has a name exactly when the bucket has it.             *)
LEMMA AckedIffHas ==
  ASSUME IInv, NEW b \in Base \ lost, b \notin Reserved
  PROVE  acked[b] # Gone <=> Has(params, PathKey(b))
<1>1. /\ PathKey(b) \in Name /\ asPathName(PathKey(b)) = PathKey(b)
      /\ PathKey(b).base = b
  BY PathKeyFacts
<1>2. Readable(PathKey(b)) <=> Has(params, PathKey(b))
  BY <1>1 DEF Readable, ValidName
<1>3. CASE Has(params, PathKey(b))
  <2>1. /\ params[PathKey(b)] \in ParameterData /\ keyring \in Keyrings
        /\ WellStored(keyring, params[PathKey(b)])
    BY <1>1, <1>3 DEF IInv, TypeOK, StoreInv, Has
  <2>2. Plain(params[PathKey(b)]) \in Value /\ params[PathKey(b)].tags \in Tags
    BY <2>1, ReadBack DEF ParameterData
  <2>3. acked[b] = [value |-> Plain(params[PathKey(b)]),
                    tags |-> params[PathKey(b)].tags]
    BY <1>2, <1>3 DEF IInv, SerialInv
  <2>. QED
    BY <1>3, <2>2, <2>3, SsmConstants DEF SsmAssumption
<1>4. CASE ~Has(params, PathKey(b))
  BY <1>2, <1>4 DEF IInv, SerialInv
<1>. QED
  BY <1>3, <1>4

LEMMA PersistKeeps ==
  ASSUME IInv, keyring' = keyring,
         NEW req \in Request, NEW skip \in BOOLEAN, persistParameter(req, skip)
  PROVE  StateInv'
<1>. DEFINE b == req.name.base
            key == PathKey(b)
            data == Encrypted(NewParameterData(req))
            w == Written(key, data, skip)
<1>1. TypeOK /\ StoreInv /\ SerialInv /\ Absent \notin ParameterData
  BY SsmConstants DEF IInv, SsmAssumption
<1>2. /\ req.type # "Unsupported" /\ b \notin Reserved
      /\ req.name \in Name /\ req.value \in Value /\ req.tags \in Tags
  BY DEF persistParameter, Accepted, ValidName, Request
<1>3. b \in Base /\ asPathName(req.name) = key /\ key \in Name
  BY <1>2, NameFacts
<1>4. /\ data \in ParameterData /\ WellStored(keyring, data)
      /\ Plain(data) = req.value /\ data.name = key /\ data.tags = req.tags
  BY <1>1, <1>2, <1>3, NewIsWell
<1>5. /\ w \in ParameterData /\ WellStored(keyring, w)
      /\ Plain(w) = req.value /\ w.name = key
      /\ w.tags = IF Has(params, key) /\ ~skip
                  THEN params[key].tags ELSE req.tags
  <2>. HIDE DEF data
  <2>. QED
    BY <1>1, <1>3, <1>4, WrittenWell
<1>6. params' = [params EXCEPT ![key] = w]
  BY <1>3 DEF persistParameter, putParameter, Written
<1>7. /\ acked' = [acked EXCEPT ![b] = [value |-> req.value,
                    tags |-> IF acked[b] # Gone /\ ~skip
                             THEN acked[b].tags ELSE req.tags]]
      /\ lost' = IF skip THEN lost \ {b} ELSE lost
  BY DEF persistParameter, Acknowledge
<1>. HIDE DEF w, data, key, b
<1>8. /\ params' \in [Name -> ParameterData \cup {Absent}]
      /\ params'[key] = w
      /\ \A k \in Name : k # key => params'[k] = params[k]
  BY <1>1, <1>3, <1>5, <1>6 DEF TypeOK
<1>9. /\ acked' \in [Base -> [value : Value, tags : Tags] \cup {Gone}]
      /\ lost' \in SUBSET Base
  <2>1. acked[b] # Gone => acked[b].tags \in Tags
    BY <1>1, <1>3 DEF TypeOK
  <2>. QED
    BY <1>1, <1>2, <1>3, <1>7, <2>1 DEF TypeOK
<1>10. StoreInv'
  <2>. SUFFICES ASSUME NEW k \in Name, Has(params', k)
                PROVE  params'[k].name = k /\ WellStored(keyring, params'[k])
    BY DEF StoreInv, WellStored, Has
  <2>1. CASE k = key
    BY <1>5, <1>8, <2>1
  <2>2. CASE k # key
    BY <1>1, <1>8, <2>2 DEF StoreInv, Has
  <2>. QED
    BY <2>1, <2>2
<1>11. SerialInv'
  <2>. SUFFICES ASSUME NEW c \in Base, c \notin lost'
                PROVE  acked'[c] = IF Readable(PathKey(c))'
                                   THEN [value |-> Plain(params'[PathKey(c)]),
                                         tags |-> params'[PathKey(c)].tags]
                                   ELSE Gone
    BY DEF SerialInv, Plain
  <2>0. /\ PathKey(c) \in Name /\ asPathName(PathKey(c)) = PathKey(c)
        /\ PathKey(c).base = c
    BY PathKeyFacts
  <2>1. CASE c = b
    <3>1. Readable(PathKey(c))' /\ params'[PathKey(c)] = w
      BY <1>1, <1>2, <1>5, <1>8, <2>0, <2>1 DEF Readable, ValidName, Has, key, b
    <3>2. acked'[c] = [value |-> req.value,
                       tags |-> IF acked[b] # Gone /\ ~skip
                                THEN acked[b].tags ELSE req.tags]
      BY <1>1, <1>7, <2>1 DEF TypeOK
    <3>3. CASE skip
      BY <1>5, <3>1, <3>2, <3>3
    <3>4. CASE ~skip
      <4>1. b \in Base \ lost /\ PathKey(c) = key
        BY <1>7, <2>1, <3>4 DEF key
      <4>2. acked[b] # Gone <=> Has(params, key)
        BY <1>2, <4>1, AckedIffHas DEF key, b
      <4>3. ASSUME Has(params, key)
            PROVE  acked[b].tags = params[key].tags
        <5>1. Readable(PathKey(b))
          BY <1>2, <2>0, <2>1, <4>1, <4>3 DEF Readable, ValidName, b
        <5>2. acked[b] = [value |-> Plain(params[PathKey(b)]),
                          tags |-> params[PathKey(b)].tags]
          BY <1>1, <4>1, <5>1 DEF SerialInv
        <5>. QED
          BY <2>1, <4>1, <5>2
      <4>. QED
        BY <1>5, <3>1, <3>2, <3>4, <4>2, <4>3
    <3>. QED
      BY <3>3, <3>4
  <2>2. CASE c # b
    <3>1. c \in Base \ lost /\ acked'[c] = acked[c]
      BY <1>1, <1>7, <2>2 DEF TypeOK
    <3>2. params'[PathKey(c)] = params[PathKey(c)]
      BY <1>3, <1>8, <2>0, <2>2, PathKeyFacts DEF key
    <3>3. Readable(PathKey(c))' <=> Readable(PathKey(c))
      BY <2>0, <3>2 DEF Readable, Has
    <3>. QED
      BY <1>1, <3>1, <3>2, <3>3 DEF SerialInv
  <2>. QED
    BY <2>1, <2>2
<1>. QED
  BY <1>8, <1>9, <1>10, <1>11 DEF StateInv

(* Deleting the keys of some names deletes the names, in both stores.      *)
LEMMA EraseKeeps ==
  ASSUME IInv, keyring' = keyring, NEW keys \in SUBSET Name, Erase(keys)
  PROVE  StateInv'
<1>1. TypeOK /\ StoreInv /\ SerialInv
  BY DEF IInv
<1>2. /\ params' \in [Name -> ParameterData \cup {Absent}]
      /\ \A k \in Name : params'[k] = IF k \in keys THEN Absent ELSE params[k]
  BY <1>1 DEF TypeOK, Erase, DeleteKeys
<1>3. /\ acked' \in [Base -> [value : Value, tags : Tags] \cup {Gone}]
      /\ \A b \in Base : acked'[b] = IF PathKey(b) \in keys THEN Gone ELSE acked[b]
      /\ lost' \in SUBSET Base
      /\ \A b \in Base \ lost' : PathKey(b) \notin keys => b \notin lost
  BY <1>1 DEF TypeOK, Erase
<1>4. StoreInv'
  BY <1>1, <1>2 DEF StoreInv, Has, WellStored
<1>5. ASSUME NEW c \in Base, c \notin lost'
      PROVE  acked'[c] = IF Readable(PathKey(c))'
                         THEN [value |-> Plain(params'[PathKey(c)]),
                               tags |-> params'[PathKey(c)].tags]
                         ELSE Gone
  <2>1. PathKey(c) \in Name /\ asPathName(PathKey(c)) = PathKey(c)
    BY PathKeyFacts
  <2>2. CASE PathKey(c) \in keys
    BY <1>2, <1>3, <2>1, <2>2 DEF Readable, Has
  <2>3. CASE PathKey(c) \notin keys
    <3>1. c \in Base \ lost /\ acked'[c] = acked[c]
          /\ params'[PathKey(c)] = params[PathKey(c)]
      BY <1>2, <1>3, <1>5, <2>1, <2>3
    <3>2. Readable(PathKey(c))' <=> Readable(PathKey(c))
      BY <2>1, <3>1 DEF Readable, Has
    <3>. QED
      BY <1>1, <3>1, <3>2 DEF SerialInv
  <2>. QED
    BY <2>2, <2>3
<1>6. SerialInv'
  BY <1>5 DEF SerialInv, Plain
<1>. QED
  BY <1>2, <1>3, <1>4, <1>6 DEF StateInv

(* The second half of a tag edit writes a well formed copy under the name  *)
(* it was asked for; unless that copy is current, the name is lost.        *)
LEMMA WriteTagsKeeps ==
  ASSUME IInv, NEW h \in Handler, WriteTags(h)
  PROVE  StateInv'
<1>. DEFINE edit == handler[h].edit
            copy == handler[h].copy
            b == edit.name.base
            data == [copy EXCEPT !.tags = Edited(copy.tags, edit)]
            w == Written(copy.name, data, TRUE)
<1>1. /\ TypeOK /\ StoreInv /\ CopyInv /\ SerialInv
      /\ Absent \notin ParameterData
  BY SsmConstants DEF IInv, SsmAssumption
<1>2. /\ edit \in TagEdit /\ copy \in ParameterData /\ copy.name = edit.name
      /\ WellStored(keyring, copy) /\ keyring' = keyring
  <2>1. handler[h] \in HandlerState /\ handler[h].pc = "tagging"
    BY <1>1 DEF TypeOK, WriteTags
  <2>2. edit \in TagEdit /\ copy \in ParameterData
    BY <2>1 DEF HandlerState
  <2>. QED
    BY <1>1, <2>1, <2>2 DEF CopyInv, WriteTags
<1>3. /\ params' = [params EXCEPT ![copy.name] = w]
      /\ acked' = IF acked[b] = Gone THEN acked
                  ELSE [acked EXCEPT ![b].tags = Edited(@, edit)]
      /\ lost' = IF Current(edit, copy) THEN lost ELSE lost \cup {b}
  BY DEF WriteTags, putParameter, Written
<1>. HIDE DEF edit, copy
<1>4. /\ edit.name \in Name /\ b \in Base
      /\ edit.name.slash => edit.name = PathKey(b)
  <2>1. edit.name \in Name
    BY <1>2 DEF TagEdit
  <2>. QED
    BY <2>1, NameFacts
<1>5. \A t \in Tags : Edited(t, edit) \in Tags
  BY <1>2 DEF Edited, Tags, TagEdit
<1>6. /\ data \in ParameterData /\ data.name = edit.name
      /\ WellStored(keyring, data) /\ Plain(data) = Plain(copy)
      /\ data.tags = Edited(copy.tags, edit)
  <2>1. /\ data \in ParameterData /\ data.name = edit.name
        /\ data.type = copy.type /\ data.value = copy.value
        /\ data.keyId = copy.keyId /\ data.tags = Edited(copy.tags, edit)
    BY <1>2, <1>5 DEF ParameterData
  <2>. QED
    BY <1>2, <2>1 DEF WellStored, Plain
<1>7. /\ w \in ParameterData /\ WellStored(keyring, w)
      /\ Plain(w) = Plain(copy) /\ w.name = edit.name
      /\ w.tags = Edited(copy.tags, edit)
  <2>1. /\ TypeOK /\ copy.name \in Name /\ data \in ParameterData
        /\ WellStored(keyring, data) /\ TRUE \in BOOLEAN
    BY <1>1, <1>2, <1>4, <1>6
  <2>2. Plain(data) = Plain(copy) /\ data.name = edit.name
        /\ data.tags = Edited(copy.tags, edit)
    BY <1>6
  <2>. HIDE DEF data
  <2>3. /\ w \in ParameterData /\ WellStored(keyring, w)
        /\ Plain(w) = Plain(data) /\ w.name = data.name
        /\ w.tags = data.tags
    BY <2>1, WrittenWell
  <2>. QED
    BY <2>2, <2>3
<1>. HIDE DEF w, data
<1>8. /\ params' \in [Name -> ParameterData \cup {Absent}]
      /\ params'[edit.name] = w
      /\ \A k \in Name : k # edit.name => params'[k] = params[k]
  BY <1>1, <1>2, <1>3, <1>4, <1>7 DEF TypeOK
<1>9. /\ acked' \in [Base -> [value : Value, tags : Tags] \cup {Gone}]
      /\ lost' \in SUBSET Base
  <2>1. CASE acked[b] = Gone
    BY <1>1, <1>3, <1>4, <2>1 DEF TypeOK
  <2>2. CASE acked[b] # Gone
    <3>1. acked[b] \in [value : Value, tags : Tags]
      BY <1>1, <1>4, <2>2 DEF TypeOK
    <3>2. [acked[b] EXCEPT !.tags = Edited(@, edit)] \in [value : Value, tags : Tags]
      BY <1>5, <3>1
    <3>3. acked' = [acked EXCEPT ![b] = [acked[b] EXCEPT !.tags = Edited(@, edit)]]
      BY <1>3, <2>2
    <3>. QED
      BY <1>1, <1>3, <1>4, <3>2, <3>3 DEF TypeOK
  <2>. QED
    BY <2>1, <2>2
<1>10. StoreInv'
  <2>. SUFFICES ASSUME NEW k \in Name, Has(params', k)
                PROVE  params'[k].name = k /\ WellStored(keyring, params'[k])
    BY <1>2 DEF StoreInv, WellStored, Has
  <2>1. CASE k = edit.name
    BY <1>7, <1>8, <2>1
  <2>2. CASE k # edit.name
    BY <1>1, <1>8, <2>2 DEF StoreInv, Has
  <2>. QED
    BY <2>1, <2>2
<1>11. ASSUME NEW c \in Base, c \notin lost'
       PROVE  acked'[c] = IF Readable(PathKey(c))'
                          THEN [value |-> Plain(params'[PathKey(c)]),
                                tags |-> params'[PathKey(c)].tags]
                          ELSE Gone
  <2>0. /\ PathKey(c) \in Name /\ asPathName(PathKey(c)) = PathKey(c)
        /\ PathKey(c).base = c /\ c \notin lost
    BY <1>3, <1>11, PathKeyFacts
  <2>1. CASE c # b
    <3>1. acked'[c] = acked[c]
      BY <1>1, <1>3, <2>1 DEF TypeOK
    <3>2. params'[PathKey(c)] = params[PathKey(c)]
      BY <1>4, <1>8, <2>0, <2>1
    <3>3. Readable(PathKey(c))' <=> Readable(PathKey(c))
      BY <2>0, <3>2 DEF Readable, Has
    <3>. QED
      BY <1>1, <2>0, <3>1, <3>2, <3>3 DEF SerialInv
  <2>2. CASE c = b
    <3>1. edit.name = PathKey(c) /\ params[PathKey(c)] = copy
      BY <1>3, <1>4, <1>11, <2>2 DEF Current
    <3>2. Has(params, PathKey(c)) /\ Has(params', PathKey(c))
      BY <1>1, <1>2, <1>7, <1>8, <3>1 DEF Has
    <3>3. CASE c \in Reserved
      <4>1. ~Readable(PathKey(c)) /\ ~Readable(PathKey(c))'
        BY <2>0, <3>3 DEF Readable, ValidName
      <4>2. acked[c] = Gone
        BY <1>1, <2>0, <4>1 DEF SerialInv
      <4>. QED
        BY <1>3, <2>2, <4>1, <4>2
    <3>4. CASE c \notin Reserved
      <4>1. Readable(PathKey(c)) /\ Readable(PathKey(c))'
        BY <2>0, <3>2, <3>4 DEF Readable, ValidName
      <4>2. acked[c] # Gone /\ acked[c] \in [value : Value, tags : Tags]
        BY <1>1, <2>0, <3>2, <3>4, AckedIffHas DEF TypeOK
      <4>3. acked[c] = [value |-> Plain(copy), tags |-> copy.tags]
        BY <1>1, <2>0, <3>1, <4>1 DEF SerialInv
      <4>4. acked'[c] = [acked[c] EXCEPT !.tags = Edited(@, edit)]
        BY <1>1, <1>3, <2>2, <4>2 DEF TypeOK
      <4>5. acked'[c] = [value |-> Plain(copy), tags |-> Edited(copy.tags, edit)]
        BY <4>3, <4>4
      <4>. QED
        BY <1>7, <1>8, <3>1, <4>1, <4>5
    <3>. QED
      BY <3>3, <3>4
  <2>. QED
    BY <2>1, <2>2
<1>12. SerialInv'
  BY <1>11 DEF SerialInv, Plain
<1>. QED
  BY <1>8, <1>9, <1>10, <1>12 DEF StateInv

-----------------------------------------------------------------------------
(* The invariant holds at the start and is kept by every action.           *)
LEMMA InitInv == Init => IInv
<1>. SUFFICES ASSUME Init PROVE IInv
  OBVIOUS
<1>1. \A k \in Name : ~Has(params, k)
  BY DEF Init, EmptyBucket, Has
<1>2. TypeOK
  BY DEF Init, TypeOK, EmptyBucket, Idle, HandlerState
<1>3. StoreInv /\ CopyInv
  BY <1>1 DEF StoreInv, CopyInv, Init, Idle
<1>4. SerialInv
  BY <1>1, PathKeyFacts DEF SerialInv, Init, Readable
<1>. QED
  BY <1>2, <1>3, <1>4 DEF IInv

(* A step that moves one handler to a state without a copy, or with a good *)
(* copy, keeps the handlers' part of the invariant.                        *)
LEMMA HandlerKeeps ==
  ASSUME IInv, keyring' = keyring, NEW h \in Handler, NEW s \in HandlerState,
         handler' = [handler EXCEPT ![h] = s],
         s.pc = "tagging" => /\ s.copy.name = s.edit.name
                             /\ WellStored(keyring, s.copy)
  PROVE  handler' \in [Handler -> HandlerState] /\ CopyInv'
<1>1. handler \in [Handler -> HandlerState] /\ CopyInv
  BY DEF IInv, TypeOK
<1>2. handler' \in [Handler -> HandlerState]
  BY <1>1
<1>3. ASSUME NEW g \in Handler, handler'[g].pc = "tagging"
      PROVE  /\ handler'[g].copy.name = handler'[g].edit.name
             /\ WellStored(keyring, handler'[g].copy)
  <2>1. CASE g = h
    BY <1>1, <1>3, <2>1
  <2>2. CASE g # h
    <3>1. handler'[g] = handler[g]
      BY <1>1, <2>2
    <3>. QED
      BY <1>1, <1>3, <3>1 DEF CopyInv
  <2>. QED
    BY <2>1, <2>2
<1>. QED
  BY <1>2, <1>3 DEF CopyInv, WellStored

(* If the store and the key list stay, so does their part.                 *)
LEMMA StoreUnchanged ==
  ASSUME IInv, keyring' = keyring, UNCHANGED store
  PROVE  StateInv'
BY DEF IInv, TypeOK, store, StateInv, StoreInv, SerialInv, WellStored, Has,
       Readable, Plain

LEMMA HandlersUnchanged ==
  ASSUME IInv, UNCHANGED <<keyring, handler>>
  PROVE  handler' \in [Handler -> HandlerState] /\ CopyInv'
BY DEF IInv, TypeOK, CopyInv, WellStored

LEMMA Gather ==
  ASSUME StateInv', keyring' \in Keyrings,
         handler' \in [Handler -> HandlerState], CopyInv'
  PROVE  IInv'
BY DEF StateInv, IInv, TypeOK

LEMMA NextInv == IInv /\ [Next]_vars => IInv'
<1>. SUFFICES ASSUME IInv, [Next]_vars PROVE IInv'
  OBVIOUS
<1>. USE SsmConstants DEF SsmAssumption
<1>0. TypeOK /\ keyring \in Keyrings
  BY DEF IInv, TypeOK
<1>1. ASSUME NEW req \in PutRequest, PutParameter(req)
      PROVE  IInv'
  <2>1. keyring' = keyring /\ StateInv'
    BY <1>1, PersistKeeps DEF PutParameter
  <2>2. handler' \in [Handler -> HandlerState] /\ CopyInv'
    BY <1>1, HandlersUnchanged DEF PutParameter
  <2>. QED
    BY <1>0, <2>1, <2>2, Gather
<1>2. ASSUME NEW n \in Name, DeleteParameter(n)
      PROVE  IInv'
  <2>1. {asPathName(n)} \in SUBSET Name
    BY NameFacts
  <2>2. keyring' = keyring /\ StateInv'
    BY <1>2, <2>1, EraseKeeps DEF DeleteParameter
  <2>3. handler' \in [Handler -> HandlerState] /\ CopyInv'
    BY <1>2, HandlersUnchanged DEF DeleteParameter
  <2>. QED
    BY <1>0, <2>2, <2>3, Gather
<1>3. CASE DeleteAllData
  <2>1. Erase(Name)
    <3>1. params' = DeleteKeys(params, Name)
      BY <1>0, <1>3 DEF DeleteAllData, DeleteBucket, DeleteKeys, TypeOK
    <3>2. acked' = [b \in Base |-> IF PathKey(b) \in Name THEN Gone ELSE acked[b]]
      BY <1>3, PathKeyFacts DEF DeleteAllData
    <3>3. lost' = {b \in lost : PathKey(b) \notin Name}
      BY <1>0, <1>3, PathKeyFacts DEF DeleteAllData, TypeOK
    <3>. QED
      BY <3>1, <3>2, <3>3 DEF Erase
  <2>2. keyring' = keyring /\ StateInv'
    BY <1>3, <2>1, EraseKeeps DEF DeleteAllData
  <2>3. handler' \in [Handler -> HandlerState] /\ CopyInv'
    BY <1>3, HandlersUnchanged DEF DeleteAllData
  <2>. QED
    BY <1>0, <2>2, <2>3, Gather
<1>4. ASSUME NEW h \in Handler, NEW edit \in TagRequest, ReadForTags(h, edit)
      PROVE  IInv'
  <2>. DEFINE copy == getParameterByName(edit.name)
  <2>1. edit \in TagEdit /\ edit.name \in Name
    BY DEF TagEdit
  <2>2. Has(params, asPathName(edit.name)) /\ asPathName(edit.name) \in Name
    BY <1>4, <2>1, NameFacts DEF ReadForTags, Readable
  <2>3. /\ params[asPathName(edit.name)] \in ParameterData
        /\ WellStored(keyring, params[asPathName(edit.name)])
    BY <1>0, <2>2 DEF IInv, StoreInv, TypeOK, Has
  <2>4. copy \in ParameterData /\ copy.name = edit.name /\ WellStored(keyring, copy)
    BY <2>1, <2>3 DEF getParameterByName, ParameterData, WellStored
  <2>. HIDE DEF copy
  <2>5. Tagging(edit, copy) \in HandlerState
    BY <2>1, <2>4 DEF Tagging, HandlerState
  <2>6. handler' = [handler EXCEPT ![h] = Tagging(edit, copy)]
        /\ keyring' = keyring /\ UNCHANGED store
    BY <1>4 DEF ReadForTags, copy
  <2>7. Tagging(edit, copy).copy = copy /\ Tagging(edit, copy).edit = edit
    BY DEF Tagging
  <2>8. handler' \in [Handler -> HandlerState] /\ CopyInv'
    BY <2>4, <2>5, <2>6, <2>7, HandlerKeeps
  <2>. QED
    BY <1>0, <2>6, <2>8, StoreUnchanged, Gather
<1>5. ASSUME NEW h \in Handler, NEW names \in DeleteList, BeginDelete(h, names)
      PROVE  IInv'
  <2>1. Deleting(names) \in HandlerState /\ Deleting(names).pc # "tagging"
    BY DEF Deleting, HandlerState
  <2>2. handler' = [handler EXCEPT ![h] = Deleting(names)]
        /\ keyring' = keyring /\ UNCHANGED store
    BY <1>5 DEF BeginDelete
  <2>3. handler' \in [Handler -> HandlerState] /\ CopyInv'
    BY <2>1, <2>2, HandlerKeeps
  <2>. QED
    BY <1>0, <2>2, <2>3, StoreUnchanged, Gather
<1>6. ASSUME NEW h \in Handler, NEW reqs \in ImportList, NEW o \in BOOLEAN,
             BeginImport(h, reqs, o)
      PROVE  IInv'
  <2>1. Importing(reqs, o) \in HandlerState /\ Importing(reqs, o).pc # "tagging"
    BY DEF Importing, HandlerState
  <2>2. handler' = [handler EXCEPT ![h] = Importing(reqs, o)]
        /\ keyring' = keyring /\ UNCHANGED store
    BY <1>6 DEF BeginImport
  <2>3. handler' \in [Handler -> HandlerState] /\ CopyInv'
    BY <2>1, <2>2, HandlerKeeps
  <2>. QED
    BY <1>0, <2>2, <2>3, StoreUnchanged, Gather
<1>7. ASSUME NEW h \in Handler, WriteTags(h)
      PROVE  IInv'
  <2>1. Idle \in HandlerState /\ Idle.pc # "tagging"
    BY DEF Idle, HandlerState
  <2>2. handler' = [handler EXCEPT ![h] = Idle] /\ keyring' = keyring
    BY <1>7 DEF WriteTags
  <2>3. handler' \in [Handler -> HandlerState] /\ CopyInv'
    BY <2>1, <2>2, HandlerKeeps
  <2>. QED
    BY <1>0, <1>7, <2>2, <2>3, WriteTagsKeeps, Gather
<1>8. ASSUME NEW h \in Handler, DeleteNext(h)
      PROVE  IInv'
  <2>. DEFINE s == [handler[h] EXCEPT !.todo = Tail(@)]
              n == Head(handler[h].todo)
  <2>1. /\ handler[h] \in [pc : {"deleting"}, todo : Seq(Name)]
        /\ handler[h].todo # <<>>
    BY <1>0, <1>8 DEF DeleteNext, TypeOK, HandlerState
  <2>2. s \in HandlerState /\ s.pc # "tagging" /\ n \in Name
    BY <2>1 DEF HandlerState
  <2>3. handler' = [handler EXCEPT ![h] = s] /\ keyring' = keyring
    BY <1>8 DEF DeleteNext
  <2>4. handler' \in [Handler -> HandlerState] /\ CopyInv'
    <3>. HIDE DEF s
    <3>. QED
      BY <2>2, <2>3, HandlerKeeps
  <2>5. CASE ValidName(n)
    <3>1. {asPathName(n)} \in SUBSET Name /\ Erase({asPathName(n)})
      BY <1>8, <2>2, <2>5, NameFacts DEF DeleteNext
    <3>. QED
      BY <1>0, <2>3, <2>4, <3>1, EraseKeeps, Gather
  <2>6. CASE ~ValidName(n)
    BY <1>0, <1>8, <2>3, <2>4, <2>6, StoreUnchanged, Gather DEF DeleteNext
  <2>. QED
    BY <2>5, <2>6
<1>9. ASSUME NEW h \in Handler, ImportNext(h)
      PROVE  IInv'
  <2>. DEFINE s == [handler[h] EXCEPT !.todo = Tail(@)]
              req == ImportRequest(h)
  <2>1. /\ handler[h] \in [pc : {"importing"}, todo : Seq(Request),
                           overwrite : BOOLEAN]
        /\ handler[h].todo # <<>>
    BY <1>0, <1>9 DEF ImportNext, TypeOK, HandlerState
  <2>2. /\ s \in HandlerState /\ s.pc # "tagging"
        /\ Head(handler[h].todo) \in Request
    BY <2>1 DEF HandlerState
  <2>3. req \in Request
    BY <2>1, <2>2 DEF ImportRequest, Request
  <2>4. handler' = [handler EXCEPT ![h] = s] /\ keyring' = keyring
    BY <1>9 DEF ImportNext
  <2>5. handler' \in [Handler -> HandlerState] /\ CopyInv'
    <3>. HIDE DEF s
    <3>. QED
      BY <2>2, <2>4, HandlerKeeps
  <2>6. CASE persistParameter(req, handler[h].overwrite)
    <3>. HIDE DEF req
    <3>1. StateInv'
      BY <2>1, <2>3, <2>4, <2>6, PersistKeeps
    <3>. QED
      BY <1>0, <2>4, <2>5, <3>1, Gather
  <2>7. CASE UNCHANGED store
    BY <1>0, <2>4, <2>5, <2>7, StoreUnchanged, Gather
  <2>. QED
    BY <1>9, <2>6, <2>7 DEF ImportNext
<1>10. ASSUME NEW h \in Handler, Reply(h)
       PROVE  IInv'
  <2>1. Idle \in HandlerState /\ Idle.pc # "tagging"
    BY DEF Idle, HandlerState
  <2>2. handler' = [handler EXCEPT ![h] = Idle]
        /\ keyring' = keyring /\ UNCHANGED store
    BY <1>10 DEF Reply
  <2>3. handler' \in [Handler -> HandlerState] /\ CopyInv'
    BY <2>1, <2>2, HandlerKeeps
  <2>. QED
    BY <1>0, <2>2, <2>3, StoreUnchanged, Gather
<1>11. ASSUME NEW keys \in Keyrings, Restart(keys)
       PROVE  IInv'
  <2>1. /\ Extends(keys, keyring) /\ keyring' = keys /\ params' = params
        /\ acked' = acked /\ lost' = lost
        /\ handler' = [h \in Handler |-> Idle]
    BY <1>11 DEF Restart, store
  <2>2. handler' \in [Handler -> HandlerState] /\ CopyInv'
    BY <2>1 DEF Idle, HandlerState, CopyInv
  <2>3. StoreInv'
    <3>1. ASSUME NEW k \in Name, Has(params, k)
          PROVE  params[k].name = k /\ WellStored(keys, params[k])
      <4>1. params[k] \in ParameterData /\ WellStored(keyring, params[k])
            /\ params[k].name = k
        BY <1>0, <3>1 DEF IInv, TypeOK, StoreInv, Has
      <4>. QED
        BY <1>0, <2>1, <4>1, StoredAcrossRestart
    <3>. QED
      BY <2>1, <3>1 DEF StoreInv, Has, WellStored
  <2>4. SerialInv'
    BY <2>1 DEF IInv, SerialInv, Readable, Has, Plain
  <2>5. StateInv'
    BY <1>0, <2>1, <2>3, <2>4 DEF StateInv, TypeOK
  <2>. QED
    BY <2>1, <2>2, <2>5, Gather
<1>12. CASE UNCHANGED vars
  <2>1. UNCHANGED store /\ UNCHANGED <<keyring, handler>>
    BY <1>12 DEF vars, store
  <2>. QED
    BY <1>0, <2>1, StoreUnchanged, HandlersUnchanged, Gather
<1>. QED
  BY <1>1, <1>2, <1>3, <1>4, <1>5, <1>6, <1>7, <1>8, <1>9, <1>10, <1>11, <1>12
     DEF Next, Step

(* The strengthened invariant of the specification.                        *)
LEMMA Invariance == Spec => []IInv
BY InitInv, NextInv, PTL DEF Spec

-----------------------------------------------------------------------------
(* The bucket, the requests in flight and the history stay well typed.     *)
THEOREM TypeCorrect == Spec => []TypeOK
BY Invariance, PTL DEF IInv

(* What is stored reads back in the clear.                                 *)
LEMMA StoredReads ==
  ASSUME IInv, NEW n \in Name, Has(params, n)
  PROVE  /\ params[n] \in ParameterData /\ params[n].name = n
         /\ ValueWithDecryption(keyring, params[n]) = Plain(params[n])
<1>1. /\ params[n] \in ParameterData /\ WellStored(keyring, params[n])
      /\ keyring \in Keyrings /\ params[n].name = n
  BY DEF IInv, TypeOK, StoreInv, Has
<1>. QED
  BY <1>1, ReadBack

(* The invariant is stronger than the properties.                          *)
LEMMA InvImplies ==
  IInv => SecureAtRest /\ NameIsKey /\ ExportReadable /\ SerialRead
<1>. SUFFICES ASSUME IInv
              PROVE  SecureAtRest /\ NameIsKey /\ ExportReadable /\ SerialRead
  OBVIOUS
<1>1. ASSUME NEW k \in Name, Has(params, k)
      PROVE  params[k].type = "SecureString" <=> params[k].value \in Encryption
  <2>1. params[k] \in ParameterData /\ WellStored(keyring, params[k])
    BY <1>1 DEF IInv, TypeOK, StoreInv, Has
  <2>2. Value \cap Encryption = {}
    BY SsmConstants DEF SsmAssumption
  <2>. QED
    BY <2>1, <2>2 DEF WellStored, ParameterData
<1>2. NameIsKey
  BY DEF IInv, StoreInv, NameIsKey
<1>3. ASSUME NEW k \in Name, NEW keys \in Keyrings,
             Has(params, k), Extends(keys, keyring)
      PROVE  ValueWithDecryption(keys, params[k]) \in Value
  <2>1. /\ params[k] \in ParameterData /\ WellStored(keyring, params[k])
        /\ keyring \in Keyrings
    BY <1>3 DEF IInv, TypeOK, StoreInv, Has
  <2>. QED
    BY <1>3, <2>1, StoredAcrossRestart, ReadBack
<1>4. ASSUME NEW b \in Base \ lost
      PROVE  GetParameter(PathKey(b)) = acked[b]
  <2>. DEFINE k == PathKey(b)
  <2>1. k \in Name /\ asPathName(k) = k
    BY PathKeyFacts
  <2>2. CASE Readable(k)
    <3>1. /\ params[k] \in ParameterData /\ params[k].name = k
          /\ ValueWithDecryption(keyring, params[k]) = Plain(params[k])
      BY <2>1, <2>2, StoredReads DEF Readable
    <3>2. getParameterByName(k) = params[k]
      BY <2>1, <3>1 DEF getParameterByName, ParameterData
    <3>3. GetParameter(k) = [value |-> Plain(params[k]), tags |-> params[k].tags]
      BY <2>2, <3>1, <3>2 DEF GetParameter
    <3>. QED
      BY <2>2, <3>3 DEF IInv, SerialInv
  <2>3. CASE ~Readable(k)
    BY <2>3 DEF IInv, SerialInv, GetParameter
  <2>. QED
    BY <2>2, <2>3
<1>. QED
  BY <1>1, <1>2, <1>3, <1>4 DEF SecureAtRest, ExportReadable, SerialRead

(* A SecureString is stored encrypted, a String is not, whatever puts,     *)
(* imports and stale tag edits write.                                      *)
THEOREM SecretsStayEncrypted == Spec => []SecureAtRest
BY Invariance, InvImplies, PTL

(* A parameter is stored under the name it carries.                        *)
THEOREM FiledUnderItsName == Spec => []NameIsKey
BY Invariance, InvImplies, PTL

(* The running process and every one that may follow it can decrypt all    *)
(* that is stored.                                                         *)
THEOREM AlwaysReadable == Spec => []ExportReadable
BY Invariance, InvImplies, PTL

(* Where no tag edit was misplaced or stale, a read with decryption is the *)
(* read of a store that served the acknowledged operations in turn.        *)
THEOREM ReadsAreSerial == Spec => []SerialRead
BY Invariance, InvImplies, PTL

(* What writes a parameter counts.                                         *)
LEMMA PutCounts ==
  ASSUME TypeOK, NEW key \in Name, NEW data \in ParameterData,
         NEW skip \in BOOLEAN, WellStored(keyring, data),
         putParameter(key, data, skip),
         NEW k \in Name, params'[k] # params[k]
  PROVE  params'[k].version = NewVersion(k)
<1>1. params' = [params EXCEPT ![key] = Written(key, data, skip)]
  BY DEF putParameter, Written
<1>2. Written(key, data, skip).version = NewVersion(key)
  BY WrittenWell
<1>. QED
  BY <1>1, <1>2 DEF TypeOK

LEMMA PersistCounts ==
  ASSUME TypeOK, NEW req \in Request, NEW skip \in BOOLEAN,
         persistParameter(req, skip),
         NEW k \in Name, params'[k] # params[k]
  PROVE  params'[k].version = NewVersion(k)
<1>. DEFINE data == Encrypted(NewParameterData(req))
<1>1. /\ asPathName(req.name) \in Name /\ data \in ParameterData
      /\ WellStored(keyring, data)
  BY NewIsWell, SsmConstants DEF SsmAssumption, persistParameter, Accepted
<1>2. putParameter(asPathName(req.name), data, skip)
  BY DEF persistParameter
<1>. HIDE DEF data
<1>. QED
  BY <1>1, <1>2, PutCounts

LEMMA NextCounts ==
  IInv /\ [Next]_vars => [\A k \in Name : VersionStep(k)]_vars
<1>. SUFFICES ASSUME IInv, Next, NEW k \in Name,
                     Has(params', k), params'[k] # params[k]
              PROVE  params'[k].version = NewVersion(k)
  BY DEF VersionStep, NewVersion
<1>. USE SsmConstants DEF SsmAssumption
<1>0. TypeOK
  BY DEF IInv
<1>1. ASSUME NEW req \in PutRequest, PutParameter(req)
      PROVE  params'[k].version = NewVersion(k)
  BY <1>0, <1>1, PersistCounts DEF PutParameter
<1>2. ASSUME NEW keys \in SUBSET Name, Erase(keys)
      PROVE  FALSE
  BY <1>0, <1>2 DEF Erase, DeleteKeys, Has, TypeOK
<1>3. ASSUME NEW n \in Name, DeleteParameter(n)
      PROVE  FALSE
  BY <1>2, <1>3, NameFacts DEF DeleteParameter
<1>4. ~DeleteAllData
  BY <1>0 DEF DeleteAllData, DeleteBucket, Has, TypeOK
<1>5. ASSUME NEW h \in Handler, WriteTags(h)
      PROVE  params'[k].version = NewVersion(k)
  <2>. DEFINE edit == handler[h].edit
              copy == handler[h].copy
              data == [copy EXCEPT !.tags = Edited(copy.tags, edit)]
  <2>1. handler[h] \in HandlerState /\ handler[h].pc = "tagging"
    BY <1>0, <1>5 DEF TypeOK, WriteTags
  <2>2. edit \in TagEdit /\ copy \in ParameterData
    BY <2>1 DEF HandlerState
  <2>3. WellStored(keyring, copy)
    BY <2>1 DEF IInv, CopyInv
  <2>4. copy.name \in Name /\ putParameter(copy.name, data, TRUE)
    BY <1>5, <2>2 DEF WriteTags, ParameterData
  <2>. HIDE DEF copy, edit
  <2>5. Edited(copy.tags, edit) \in Tags
    BY <2>2 DEF Edited, Tags, TagEdit, ParameterData
  <2>6. data \in ParameterData /\ WellStored(keyring, data)
    BY <2>2, <2>3, <2>5 DEF ParameterData, WellStored
  <2>. HIDE DEF data
  <2>. QED
    BY <1>0, <2>4, <2>6, PutCounts
<1>6. ~UNCHANGED store
  BY DEF store
<1>7. ASSUME NEW h \in Handler, DeleteNext(h)
      PROVE  FALSE
  <2>1. Head(handler[h].todo) \in Name
    BY <1>0, <1>7 DEF DeleteNext, TypeOK, HandlerState
  <2>2. {asPathName(Head(handler[h].todo))} \in SUBSET Name
    BY <2>1, NameFacts
  <2>. QED
    BY <1>2, <1>6, <1>7, <2>2 DEF DeleteNext
<1>8. ASSUME NEW h \in Handler, ImportNext(h)
      PROVE  params'[k].version = NewVersion(k)
  <2>1. /\ handler[h] \in [pc : {"importing"}, todo : Seq(Request),
                           overwrite : BOOLEAN]
        /\ handler[h].todo # <<>>
    BY <1>0, <1>8 DEF ImportNext, TypeOK, HandlerState
  <2>2. Head(handler[h].todo) \in Request
    BY <2>1
  <2>3. ImportRequest(h) \in Request /\ handler[h].overwrite \in BOOLEAN
    BY <2>1, <2>2 DEF ImportRequest, Request
  <2>. QED
    BY <1>0, <1>6, <1>8, <2>3, PersistCounts DEF ImportNext
<1>. QED
  BY <1>1, <1>3, <1>4, <1>5, <1>6, <1>7, <1>8
     DEF Next, Step, ReadForTags, BeginDelete, BeginImport, Reply, Restart

(* No step of any handler skips, repeats or rewinds a version.             *)
THEOREM VersionsCount == Spec => VersionCountsWrites
BY Invariance, NextCounts, PTL DEF Spec, VersionCountsWrites

-----------------------------------------------------------------------------
(* What InOrder lists: what is there, once if the order has it once.       *)

Elems(s) == {s[i] : i \in DOMAIN s}

(* What the recursion of InOrder does at n, given what it did before.      *)
Listing(order, there, f, n) ==
  IF n = 0 THEN <<>>
  ELSE IF order[n] \in there THEN Append(f[n - 1], order[n])
  ELSE f[n - 1]

Lists(S, order, there, n, s) ==
  /\ s \in Seq(S)
  /\ \A x : x \in Elems(s) <=> \E i \in 1..n : order[i] = x /\ x \in there
  /\ Distinct(order) => Distinct(s)

LEMMA ElemsAppend ==
  ASSUME NEW S, NEW s \in Seq(S), NEW x \in S
  PROVE  /\ Append(s, x) \in Seq(S)
         /\ Elems(Append(s, x)) = Elems(s) \cup {x}
         /\ Distinct(s) /\ x \notin Elems(s) => Distinct(Append(s, x))
<1>. DEFINE t == Append(s, x)
<1>1. /\ t \in Seq(S) /\ Len(s) \in Nat /\ Len(t) = Len(s) + 1
      /\ DOMAIN t = 1..(Len(s) + 1) /\ DOMAIN s = 1..Len(s)
      /\ t[Len(s) + 1] = x
      /\ \A i \in 1..Len(s) : t[i] = s[i]
  OBVIOUS
<1>2. \A i \in DOMAIN t : i \in DOMAIN s \/ i = Len(s) + 1
  BY <1>1
<1>. HIDE DEF t
<1>3. Elems(t) = Elems(s) \cup {x}
  <2>1. ASSUME NEW y \in Elems(t)
        PROVE  y \in Elems(s) \cup {x}
    BY <1>1, <1>2, <2>1 DEF Elems
  <2>2. ASSUME NEW y \in Elems(s) \cup {x}
        PROVE  y \in Elems(t)
    BY <1>1, <2>2 DEF Elems
  <2>. QED
    BY <2>1, <2>2
<1>4. ASSUME Distinct(s), x \notin Elems(s), NEW i \in DOMAIN t, NEW j \in DOMAIN t,
             t[i] = t[j]
      PROVE  i = j
  BY <1>1, <1>2, <1>4 DEF Distinct, Elems
<1>. QED
  BY <1>1, <1>3, <1>4 DEF t, Distinct

LEMMA ListsNext ==
  ASSUME NEW S, NEW order \in Seq(S), NEW there, NEW f, NEW n \in 1..Len(order),
         Lists(S, order, there, n - 1, f[n - 1])
  PROVE  Lists(S, order, there, n, Listing(order, there, f, n))
<1>. DEFINE s == f[n - 1]
            x == order[n]
<1>1. s \in Seq(S) /\ x \in S /\ n # 0 /\ n \in DOMAIN order
  BY DEF Lists
<1>2. \A y : y \in Elems(s) <=> \E i \in 1..(n - 1) : order[i] = y /\ y \in there
  BY DEF Lists
<1>3. \A i \in 1..n : i \in 1..(n - 1) \/ i = n
  OBVIOUS
<1>4. CASE x \in there
  <2>1. Listing(order, there, f, n) = Append(s, x)
    BY <1>1, <1>4 DEF Listing
  <2>2. /\ Append(s, x) \in Seq(S)
        /\ Elems(Append(s, x)) = Elems(s) \cup {x}
        /\ Distinct(s) /\ x \notin Elems(s) => Distinct(Append(s, x))
    BY <1>1, ElemsAppend
  <2>3. ASSUME Distinct(order)
        PROVE  x \notin Elems(s)
    <3>1. \A i \in 1..(n - 1) : i \in DOMAIN order /\ i # n
      BY <1>1
    <3>. QED
      BY <1>1, <1>2, <2>3, <3>1 DEF Distinct
  <2>4. Distinct(order) => Distinct(Append(s, x))
    BY <2>2, <2>3 DEF Lists
  <2>5. \A y : y \in Elems(Append(s, x))
                 <=> \E i \in 1..n : order[i] = y /\ y \in there
    BY <1>1, <1>2, <1>3, <1>4, <2>2
  <2>. QED
    BY <2>1, <2>2, <2>4, <2>5 DEF Lists
<1>5. CASE x \notin there
  <2>1. Listing(order, there, f, n) = s
    BY <1>1, <1>5 DEF Listing
  <2>2. \A y : y \in Elems(s) <=> \E i \in 1..n : order[i] = y /\ y \in there
    BY <1>1, <1>2, <1>3, <1>5
  <2>. QED
    BY <2>1, <2>2 DEF Lists
<1>. QED
  BY <1>4, <1>5

LEMMA ListsNone ==
  ASSUME NEW S, NEW order, NEW there, NEW f
  PROVE  Lists(S, order, there, 0, Listing(order, there, f, 0))
<1>1. Listing(order, there, f, 0) = <<>>
  BY DEF Listing
<1>2. DOMAIN <<>> = {} /\ <<>> \in Seq(S) /\ 1..0 = {}
  OBVIOUS
<1>3. Elems(<<>>) = {} /\ Distinct(<<>>)
  BY <1>2, Zenon DEF Elems, Distinct
<1>. QED
  BY <1>1, <1>2, <1>3, Zenon DEF Lists

(* There is a function the recursion defines: else there would be a first  *)
(* place up to which there is none.                                        *)
LEMMA ListingExists ==
  ASSUME NEW order, NEW there, NEW n \in Nat
  PROVE  \E f : f = [i \in 0..n |-> Listing(order, there, f, i)]
<1>. DEFINE Defined(m) == \E f : f = [i \in 0..m |-> Listing(order, there, f, i)]
            Undefined == {m \in Nat \ {0} : ~Defined(m)}
<1>1. Defined(0)
  <2>. DEFINE f == [i \in 0..0 |-> <<>>]
  <2>1. \A i \in 0..0 : Listing(order, there, f, i) = <<>>
    BY DEF Listing
  <2>2. f = [i \in 0..0 |-> Listing(order, there, f, i)]
    BY <2>1
  <2>. HIDE DEF f
  <2>. QED
    BY <2>2
<1>2. ASSUME NEW m \in Nat, Defined(m)
      PROVE  Defined(m + 1)
  <2>1. PICK f : f = [i \in 0..m |-> Listing(order, there, f, i)]
    BY <1>2
  <2>. DEFINE g == [i \in 0..(m + 1) |-> Listing(order, there, f, i)]
  <2>2. \A i \in 0..m : g[i] = f[i]
    <3>1. ASSUME NEW i \in 0..m
          PROVE  i \in 0..(m + 1) /\ f[i] = Listing(order, there, f, i)
      <4>1. i \in 0..(m + 1)
        OBVIOUS
      <4>. QED
        BY <2>1, <4>1, Zenon
    <3>. QED
      BY <3>1, Zenon
  <2>3. ASSUME NEW i \in 0..(m + 1)
        PROVE  Listing(order, there, f, i) = Listing(order, there, g, i)
    <3>. HIDE DEF g
    <3>1. i = 0 \/ i - 1 \in 0..m
      OBVIOUS
    <3>. QED
      BY <2>2, <3>1 DEF Listing
  <2>4. g = [i \in 0..(m + 1) |-> Listing(order, there, g, i)]
    BY <2>3, Zenon
  <2>. HIDE DEF g
  <2>. QED
    BY <2>4
<1>. HIDE DEF Defined
<1>3. Undefined = {}
  <2>. SUFFICES ASSUME Undefined # {} PROVE FALSE
    OBVIOUS
  <2>1. PICK m \in Undefined : \A k \in Undefined : m <= k
    <3>1. Undefined \in SUBSET (Nat \ {0})
      OBVIOUS
    <3>. HIDE DEF Undefined
    <3>. QED
      BY <3>1, FirstPosition
  <2>2. m \in Nat \ {0} /\ ~Defined(m) /\ m - 1 \in Nat
    OBVIOUS
  <2>3. m - 1 \notin Undefined
    BY <2>1, <2>2
  <2>4. Defined(m - 1)
    BY <1>1, <2>2, <2>3
  <2>5. Defined((m - 1) + 1)
    BY <1>2, <2>2, <2>4
  <2>. QED
    BY <2>2, <2>5
<1>4. Defined(n)
  BY <1>1, <1>3
<1>. QED
  BY <1>4 DEF Defined

LEMMA InOrderLists ==
  ASSUME NEW S, NEW order \in Seq(S), NEW there
  PROVE  LET s == InOrder(order, there)
         IN /\ s \in Seq(S)
            /\ Elems(s) = Elems(order) \cap there
            /\ Distinct(order) => Distinct(s)
<1>. DEFINE N == Len(order)
            f == CHOOSE first :
                   first = [i \in 0..N |-> Listing(order, there, first, i)]
<1>1. N \in Nat /\ DOMAIN order = 1..N
  OBVIOUS
<1>2. f = [i \in 0..N |-> Listing(order, there, f, i)]
  BY <1>1, ListingExists, Zenon
<1>3. InOrder(order, there) = f[N]
  BY DEF InOrder, Listing
<1>. HIDE DEF f
<1>4. Lists(S, order, there, N, f[N])
  <2>. DEFINE Wrong == {m \in Nat \ {0} : m <= N /\ ~Lists(S, order, there, m, f[m])}
  <2>. HIDE DEF N
  <2>1. \A i \in 0..N : f[i] = Listing(order, there, f, i)
    BY <1>2, Zenon
  <2>2. Lists(S, order, there, 0, f[0])
    BY <1>1, <2>1, ListsNone
  <2>3. Wrong = {}
    <3>. SUFFICES ASSUME Wrong # {} PROVE FALSE
      OBVIOUS
    <3>1. PICK m \in Wrong : \A k \in Wrong : m <= k
      <4>1. Wrong \in SUBSET (Nat \ {0})
        OBVIOUS
      <4>. HIDE DEF Wrong
      <4>. QED
        BY <4>1, FirstPosition
    <3>2. /\ m \in 1..N /\ ~Lists(S, order, there, m, f[m]) /\ m - 1 \notin Wrong
          /\ m - 1 \in Nat /\ m - 1 <= N
      BY <1>1, <3>1
    <3>3. Lists(S, order, there, m - 1, f[m - 1])
      BY <2>2, <3>2
    <3>4. Lists(S, order, there, m, Listing(order, there, f, m))
      BY <3>2, <3>3, ListsNext DEF N
    <3>. QED
      BY <1>1, <2>1, <3>2, <3>4
  <2>. QED
    BY <1>1, <2>2, <2>3
<1>5. \A x : x \in Elems(f[N]) <=> \E i \in 1..N : order[i] = x /\ x \in there
  BY <1>4 DEF Lists
<1>6. Elems(f[N]) = Elems(order) \cap there
  BY <1>1, <1>5 DEF Elems
<1>. QED
  BY <1>3, <1>4, <1>6 DEF Lists

-----------------------------------------------------------------------------
(* What the files of an archive, damaged or not, hold.                     *)

LeftFile == ArchiveFile \cup {Bad(f) : f \in ArchiveFile}

WasOf(f) == IF f.name = "bad" THEN f.was ELSE f

Holds(f, name) ==
  IF f.name # name THEN {} ELSE IF name = "tfstate" THEN {f} ELSE Elems(f.list)

Left(files, name) == UNION {Holds(WasOf(files[i]), name) : i \in DOMAIN files}

LEMMA ElemsTail ==
  ASSUME NEW S, NEW s \in Seq(S), s # <<>>
  PROVE  /\ Head(s) \in S /\ Tail(s) \in Seq(S)
         /\ Elems(s) = {Head(s)} \cup Elems(Tail(s))
         /\ Distinct(s) => Distinct(Tail(s)) /\ Head(s) \notin Elems(Tail(s))
<1>. DEFINE t == Tail(s)
<1>1. /\ Head(s) \in S /\ t \in Seq(S) /\ Head(s) = s[1]
      /\ Len(s) \in Nat \ {0} /\ DOMAIN s = 1..Len(s) /\ DOMAIN t = 1..(Len(s) - 1)
      /\ \A i \in DOMAIN t : t[i] = s[i + 1]
  OBVIOUS
<1>2. /\ \A i \in DOMAIN t : i + 1 \in DOMAIN s /\ i + 1 # 1
      /\ \A i \in DOMAIN s : i = 1 \/ (i - 1 \in DOMAIN t /\ (i - 1) + 1 = i)
  BY <1>1
<1>. HIDE DEF t
<1>3. Elems(s) = {Head(s)} \cup Elems(t)
  <2>1. ASSUME NEW x \in Elems(s)
        PROVE  x \in {Head(s)} \cup Elems(t)
    BY <1>1, <1>2, <2>1 DEF Elems
  <2>2. ASSUME NEW x \in {Head(s)} \cup Elems(t)
        PROVE  x \in Elems(s)
    BY <1>1, <1>2, <2>2 DEF Elems
  <2>. QED
    BY <2>1, <2>2
<1>4. ASSUME Distinct(s)
      PROVE  Distinct(t) /\ Head(s) \notin Elems(t)
  BY <1>1, <1>2, <1>4 DEF Distinct, Elems
<1>. QED
  BY <1>1, <1>3, <1>4 DEF t

LEMMA FileFacts ==
  ASSUME NEW f \in ArchiveFile
  PROVE  /\ f.name \in {"ssm", "route53", "tfstate"}
         /\ f.name = "ssm" => f.list \in Seq(Request) /\ f = SsmFile(f.list)
         /\ f.name = "route53" =>
              f.list \in Seq(ZoneExport) /\ f = Route53File(f.list)
         /\ f.name = "tfstate" =>
              /\ f.project \in Project /\ f.body \in SavedBody
              /\ f = StateFile(f.project, f.body)
BY DEF ArchiveFile, SsmFile, Route53File, StateFile

LEMMA IsFile ==
  /\ \A list \in Seq(Request) : SsmFile(list) \in ArchiveFile
  /\ \A list \in Seq(ZoneExport) : Route53File(list) \in ArchiveFile
  /\ \A p \in Project, b \in SavedBody : StateFile(p, b) \in ArchiveFile
BY DEF ArchiveFile, SsmFile, Route53File, StateFile

LEMMA WasFacts ==
  ASSUME NEW f \in ArchiveFile
  PROVE  /\ WasOf(f) = f /\ WasOf(Bad(f)) = f
         /\ f.name # "bad" /\ Bad(f).name = "bad" /\ Bad(f).was = f
BY FileFacts DEF WasOf, Bad

LEMMA LeftFacts ==
  ASSUME NEW f \in LeftFile
  PROVE  /\ WasOf(f) \in ArchiveFile
         /\ f.name # "bad" => f \in ArchiveFile
         /\ f.name = "bad" => f.was \in ArchiveFile /\ WasOf(f) = f.was
<1>1. CASE f \in ArchiveFile
  BY <1>1, WasFacts
<1>2. CASE f \notin ArchiveFile
  <2>1. PICK g \in ArchiveFile : f = Bad(g)
    BY <1>2 DEF LeftFile
  <2>. QED
    BY <2>1, WasFacts
<1>. QED
  BY <1>1, <1>2

LEMMA HoldsFacts ==
  /\ \A list, name : Holds(SsmFile(list), name) =
                       IF name = "ssm" THEN Elems(list) ELSE {}
  /\ \A list, name : Holds(Route53File(list), name) =
                       IF name = "route53" THEN Elems(list) ELSE {}
  /\ \A p, b, name : Holds(StateFile(p, b), name) =
                       IF name = "tfstate" THEN {StateFile(p, b)} ELSE {}
  /\ \A list : SsmFile(list).list = list /\ SsmFile(list).name = "ssm"
  /\ \A list : Route53File(list).list = list /\ Route53File(list).name = "route53"
  /\ \A p, b : /\ StateFile(p, b).project = p /\ StateFile(p, b).body = b
               /\ StateFile(p, b).name = "tfstate"
BY DEF Holds, SsmFile, Route53File, StateFile

LEMMA LeftAppend ==
  ASSUME NEW T, NEW files \in Seq(T), NEW f \in T, NEW name
  PROVE  Left(Append(files, f), name) = Left(files, name) \cup Holds(WasOf(f), name)
<1>. DEFINE g == Append(files, f)
            H(x) == Holds(WasOf(x), name)
<1>1. /\ DOMAIN g = 1..(Len(files) + 1) /\ DOMAIN files = 1..Len(files)
      /\ Len(files) \in Nat /\ g[Len(files) + 1] = f
      /\ \A i \in DOMAIN files : i \in DOMAIN g /\ g[i] = files[i]
      /\ \A i \in DOMAIN g : i \in DOMAIN files \/ i = Len(files) + 1
      /\ Len(files) + 1 \in DOMAIN g
  OBVIOUS
<1>. HIDE DEF g, H
<1>2. \A x : x \in UNION {H(g[i]) : i \in DOMAIN g}
               <=> x \in UNION {H(files[i]) : i \in DOMAIN files} \/ x \in H(f)
  BY <1>1
<1>. QED
  BY <1>2 DEF g, H, Left

LEMMA LeftReplace ==
  ASSUME NEW T, NEW files \in Seq(T), NEW f, NEW name, NEW i \in DOMAIN files
  PROVE  LET g == [files EXCEPT ![i] = f]
         IN /\ Left(g, name) \subseteq Left(files, name) \cup Holds(WasOf(f), name)
            /\ Left(files, name) \subseteq
                 Left(g, name) \cup Holds(WasOf(files[i]), name)
            /\ Holds(WasOf(f), name) \subseteq Left(g, name)
            /\ Holds(WasOf(files[i]), name) \subseteq Left(files, name)
<1>. DEFINE g == [files EXCEPT ![i] = f]
            H(x) == Holds(WasOf(x), name)
<1>1. /\ DOMAIN g = DOMAIN files /\ g[i] = f
      /\ \A j \in DOMAIN files : j # i => g[j] = files[j]
  OBVIOUS
<1>. HIDE DEF g, H
<1>2. /\ \A x : x \in UNION {H(g[j]) : j \in DOMAIN g}
                  => x \in UNION {H(files[j]) : j \in DOMAIN files} \/ x \in H(f)
      /\ \A x : x \in UNION {H(files[j]) : j \in DOMAIN files}
                  => x \in UNION {H(g[j]) : j \in DOMAIN g} \/ x \in H(files[i])
      /\ \A x : x \in H(f) => x \in UNION {H(g[j]) : j \in DOMAIN g}
      /\ \A x : x \in H(files[i]) => x \in UNION {H(files[j]) : j \in DOMAIN files}
  BY <1>1
<1>. QED
  BY <1>2 DEF g, H, Left

LEMMA LeftTail ==
  ASSUME NEW T, NEW files \in Seq(T), files # <<>>, NEW name
  PROVE  Left(files, name) =
           Holds(WasOf(Head(files)), name) \cup Left(Tail(files), name)
<1>. DEFINE t == Tail(files)
            H(x) == Holds(WasOf(x), name)
<1>1. /\ Head(files) = files[1] /\ 1 \in DOMAIN files
      /\ \A i \in DOMAIN t : i + 1 \in DOMAIN files /\ t[i] = files[i + 1]
      /\ \A i \in DOMAIN files : \/ i = 1
                                 \/ i - 1 \in DOMAIN t /\ t[i - 1] = files[i]
  OBVIOUS
<1>. HIDE DEF t, H
<1>2. \A x : x \in UNION {H(files[i]) : i \in DOMAIN files}
               <=> x \in H(Head(files)) \/ x \in UNION {H(t[i]) : i \in DOMAIN t}
  BY <1>1
<1>. QED
  BY <1>2 DEF t, H, Left

-----------------------------------------------------------------------------
(* A well formed archive.                                                  *)

OneOfEach(files) ==
  /\ \A e, f \in Left(files, "ssm") : e.name = f.name => e = f
  /\ \A e, f \in Left(files, "route53") : e.zone = f.zone => e = f
  /\ \A e, f \in Left(files, "tfstate") : e.project = f.project => e = f

Importable(e) ==
  e.name.base \notin Reserved /\ e.type # "Unsupported" /\ e.overwrite = TRUE

ArchiveOK(files) ==
  /\ files \in Seq(ArchiveFile)
  /\ Len(files) >= 1 /\ files[1].name = "ssm"
  /\ Len(files) >= 2 => files[2].name = "route53"
  /\ \A i \in 3..Len(files) : files[i].name = "tfstate"
  /\ \A e \in Left(files, "ssm") : Importable(e)
  /\ OneOfEach(files)

LEMMA LeftOfArchive ==
  ASSUME NEW files, ArchiveOK(files)
  PROVE  /\ Left(files, "ssm") = Elems(files[1].list)
         /\ files[1].list \in Seq(Request)
         /\ Len(files) = 1 => Left(files, "route53") = {}
         /\ Len(files) >= 2 =>
              /\ Left(files, "route53") = Elems(files[2].list)
              /\ files[2].list \in Seq(ZoneExport)
         /\ Left(files, "tfstate") = {files[i] : i \in 3..Len(files)}
<1>1. /\ files \in Seq(ArchiveFile) /\ Len(files) \in Nat \ {0}
      /\ DOMAIN files = 1..Len(files)
      /\ \A i \in DOMAIN files : i = 1 \/ i = 2 \/ i \in 3..Len(files)
      /\ \A i \in 3..Len(files) : i \in DOMAIN files
      /\ 1 \in DOMAIN files
      /\ 2 \in DOMAIN files <=> Len(files) >= 2
      /\ \A i \in DOMAIN files : files[i] \in ArchiveFile
  BY DEF ArchiveOK
<1>2. \A i \in DOMAIN files : WasOf(files[i]) = files[i]
  BY <1>1, WasFacts
<1>3. \A x, name : x \in Left(files, name)
                     <=> \E i \in DOMAIN files : x \in Holds(files[i], name)
  BY <1>2 DEF Left
<1>4. /\ files[1].name = "ssm"
      /\ Len(files) >= 2 => files[2].name = "route53"
      /\ \A i \in 3..Len(files) : files[i].name = "tfstate"
  BY DEF ArchiveOK
<1>5. /\ \A x : x \in Left(files, "ssm") <=> x \in Elems(files[1].list)
      /\ Len(files) = 1 => \A x : x \notin Left(files, "route53")
      /\ Len(files) >= 2 =>
           \A x : x \in Left(files, "route53") <=> x \in Elems(files[2].list)
      /\ \A x : x \in Left(files, "tfstate")
                  <=> \E i \in 3..Len(files) : x = files[i]
  BY <1>1, <1>3, <1>4 DEF Holds
<1>6. /\ files[1].list \in Seq(Request)
      /\ Len(files) >= 2 => files[2].list \in Seq(ZoneExport)
  <2>1. files[1].list \in Seq(Request)
    BY <1>1, <1>4, FileFacts
  <2>2. ASSUME Len(files) >= 2
        PROVE  files[2].list \in Seq(ZoneExport)
    <3>1. files[2] \in ArchiveFile /\ files[2].name = "route53"
      BY <1>1, <1>4, <2>2
    <3>. QED
      BY <3>1, FileFacts
  <2>. QED
    BY <2>1, <2>2, Zenon
<1>7. Left(files, "ssm") = Elems(files[1].list)
  BY <1>5
<1>8. Len(files) = 1 => Left(files, "route53") = {}
  BY <1>5
<1>9. Len(files) >= 2 => Left(files, "route53") = Elems(files[2].list)
  BY <1>5
<1>10. Left(files, "tfstate") = {files[i] : i \in 3..Len(files)}
  <2>. DEFINE states3 == {files[i] : i \in 3..Len(files)}
  <2>1. \A x : x \in states3 <=> \E i \in 3..Len(files) : x = files[i]
    BY Zenon
  <2>2. \A x : x \in Left(files, "tfstate") <=> x \in states3
    BY <1>5, <2>1, Zenon
  <2>. HIDE DEF states3
  <2>3. Left(files, "tfstate") = states3
    BY <2>2
  <2>. QED
    BY <2>3 DEF states3
<1>. QED
  BY <1>6, <1>7, <1>8, <1>9, <1>10, Zenon

(* How an export makes its archive.                                        *)
LEMMA StartArchive ==
  ASSUME NEW list \in Seq(Request), \A e \in Elems(list) : Importable(e),
         \A e, f \in Elems(list) : e.name = f.name => e = f
  PROVE  LET g == <<SsmFile(list)>>
         IN /\ ArchiveOK(g) /\ Len(g) = 1
            /\ Left(g, "ssm") = Elems(list)
            /\ Left(g, "route53") = {} /\ Left(g, "tfstate") = {}
<1>. DEFINE file == SsmFile(list)
            g == <<file>>
<1>1. file \in ArchiveFile /\ WasOf(file) = file /\ file.name = "ssm"
  BY IsFile, WasFacts, HoldsFacts
<1>. HIDE DEF file
<1>2. /\ g \in Seq(ArchiveFile) /\ Len(g) = 1 /\ g[1] = file
      /\ DOMAIN g = {1} /\ 3..Len(g) = {}
  BY <1>1
<1>. HIDE DEF g
<1>3. \A name : Left(g, name) = Holds(file, name)
  BY <1>1, <1>2 DEF Left
<1>4. /\ Left(g, "ssm") = Elems(list)
      /\ Left(g, "route53") = {} /\ Left(g, "tfstate") = {}
  BY <1>3, HoldsFacts DEF file
<1>5. ArchiveOK(g)
  BY <1>1, <1>2, <1>4 DEF ArchiveOK, OneOfEach
<1>. QED
  BY <1>2, <1>4, <1>5 DEF g, file

LEMMA AppendZones ==
  ASSUME NEW files, ArchiveOK(files), Len(files) = 1
  PROVE  LET g == Append(files, Route53File(<<>>))
         IN /\ ArchiveOK(g) /\ Len(g) = 2
            /\ \A name : Left(g, name) = Left(files, name)
<1>. DEFINE file == Route53File(<<>>)
            g == Append(files, file)
<1>1. file \in ArchiveFile /\ WasOf(file) = file /\ file.name = "route53"
  <2>1. <<>> \in Seq(ZoneExport)
    OBVIOUS
  <2>. QED
    BY <2>1, IsFile, WasFacts, HoldsFacts
<1>2. \A name : Holds(file, name) = {}
  <2>1. Elems(<<>>) = {}
    BY DEF Elems
  <2>. QED
    BY <2>1, HoldsFacts
<1>. HIDE DEF file
<1>3. files \in Seq(ArchiveFile)
  BY DEF ArchiveOK
<1>4. \A name : Left(g, name) = Left(files, name)
  <2>1. \A name : Left(g, name) = Left(files, name) \cup Holds(file, name)
    BY <1>1, <1>3, LeftAppend
  <2>. QED
    BY <1>2, <2>1
<1>5. /\ g \in Seq(ArchiveFile) /\ Len(g) = 2 /\ g[1] = files[1] /\ g[2] = file
      /\ \A i \in 3..Len(g) : FALSE
  <2>1. /\ g \in Seq(ArchiveFile) /\ Len(g) = Len(files) + 1
        /\ \A i \in 1..Len(files) : g[i] = files[i]
        /\ g[Len(files) + 1] = file
    <3>1. \A T : \A s \in Seq(T), x \in T :
            /\ Append(s, x) \in Seq(T) /\ Len(Append(s, x)) = Len(s) + 1
            /\ \A i \in 1..Len(s) : Append(s, x)[i] = s[i]
            /\ Append(s, x)[Len(s) + 1] = x
      OBVIOUS
    <3>. QED
      BY <1>1, <1>3, <3>1, Zenon
  <2>. HIDE DEF g
  <2>2. g[1] = files[1] /\ g[2] = file /\ Len(g) = 2
    BY <2>1
  <2>3. \A i \in 3..2 : FALSE
    OBVIOUS
  <2>. QED
    BY <2>1, <2>2, <2>3
<1>. HIDE DEF g
<1>6. ArchiveOK(g)
  BY <1>1, <1>4, <1>5 DEF ArchiveOK, OneOfEach
<1>. QED
  BY <1>4, <1>5, <1>6 DEF g, file

LEMMA AppendState ==
  ASSUME NEW files, ArchiveOK(files), Len(files) >= 2,
         NEW p \in Project, NEW b \in SavedBody,
         \A f \in Left(files, "tfstate") : f.project # p
  PROVE  LET g == Append(files, StateFile(p, b))
         IN /\ ArchiveOK(g) /\ Len(g) >= 2
            /\ Left(g, "ssm") = Left(files, "ssm")
            /\ Left(g, "route53") = Left(files, "route53")
            /\ Left(g, "tfstate") = Left(files, "tfstate") \cup {StateFile(p, b)}
<1>. DEFINE file == StateFile(p, b)
            g == Append(files, file)
<1>1. /\ file \in ArchiveFile /\ WasOf(file) = file /\ file.name = "tfstate"
      /\ file.project = p
  BY IsFile, WasFacts, HoldsFacts
<1>2. /\ Holds(file, "ssm") = {} /\ Holds(file, "route53") = {}
      /\ Holds(file, "tfstate") = {file}
  BY HoldsFacts
<1>. HIDE DEF file
<1>3. files \in Seq(ArchiveFile)
  BY DEF ArchiveOK
<1>4. \A name : Left(g, name) = Left(files, name) \cup Holds(file, name)
  BY <1>1, <1>3, LeftAppend
<1>5. /\ Left(g, "ssm") = Left(files, "ssm")
      /\ Left(g, "route53") = Left(files, "route53")
      /\ Left(g, "tfstate") = Left(files, "tfstate") \cup {file}
  BY <1>2, <1>4
<1>6. /\ g \in Seq(ArchiveFile) /\ Len(g) = Len(files) + 1 /\ Len(files) \in Nat
      /\ g[1] = files[1] /\ g[2] = files[2] /\ g[Len(files) + 1] = file
      /\ \A i \in 3..Len(files) : g[i] = files[i]
      /\ \A i \in 3..(Len(files) + 1) : i \in 3..Len(files) \/ i = Len(files) + 1
  BY <1>1, <1>3
<1>. HIDE DEF g
<1>7. OneOfEach(g)
  BY <1>1, <1>5 DEF ArchiveOK, OneOfEach
<1>8. \A i \in 3..Len(g) : g[i].name = "tfstate"
  BY <1>1, <1>6 DEF ArchiveOK
<1>9. ArchiveOK(g)
  BY <1>5, <1>6, <1>7, <1>8 DEF ArchiveOK
<1>. QED
  BY <1>5, <1>6, <1>9 DEF g, file

LEMMA AppendZone ==
  ASSUME NEW files, ArchiveOK(files), Len(files) >= 2, NEW e \in ZoneExport,
         \A f \in Left(files, "route53") : f.zone # e.zone
  PROVE  LET g == [files EXCEPT ![2] = Route53File(Append(files[2].list, e))]
         IN /\ g = [files EXCEPT ![2].list = Append(@, e)]
            /\ ArchiveOK(g) /\ Len(g) = Len(files)
            /\ Left(g, "ssm") = Left(files, "ssm")
            /\ Left(g, "tfstate") = Left(files, "tfstate")
            /\ Left(g, "route53") = Left(files, "route53") \cup {e}
<1>. DEFINE list == files[2].list
            file == Route53File(Append(list, e))
            g == [files EXCEPT ![2] = file]
<1>1. /\ files \in Seq(ArchiveFile) /\ 2 \in DOMAIN files /\ 1 \in DOMAIN files
      /\ DOMAIN files = 1..Len(files) /\ Len(files) \in Nat
      /\ files[2].name = "route53" /\ files[2] \in ArchiveFile
  BY DEF ArchiveOK
<1>2. files[2] = Route53File(list) /\ list \in Seq(ZoneExport)
      /\ WasOf(files[2]) = files[2]
  BY <1>1, FileFacts, WasFacts
<1>3. /\ Append(list, e) \in Seq(ZoneExport)
      /\ Elems(Append(list, e)) = Elems(list) \cup {e}
  BY <1>2, ElemsAppend
<1>4. file = [files[2] EXCEPT !.list = Append(@, e)]
  <2>1. \A l, t : [Route53File(l) EXCEPT !.list = t] = Route53File(t)
    BY DEF Route53File
  <2>2. [files[2] EXCEPT !.list = Append(list, e)] = file
    BY <1>2, <2>1, Zenon
  <2>. QED
    BY <2>2
<1>5. g = [files EXCEPT ![2].list = Append(@, e)]
  BY <1>1, <1>4
<1>6. file \in ArchiveFile /\ WasOf(file) = file /\ file.name = "route53"
  BY <1>3, IsFile, WasFacts, HoldsFacts
<1>7. /\ Holds(file, "ssm") = {} /\ Holds(file, "tfstate") = {}
      /\ Holds(file, "route53") = Elems(list) \cup {e}
      /\ Holds(files[2], "ssm") = {} /\ Holds(files[2], "tfstate") = {}
      /\ Holds(files[2], "route53") = Elems(list)
  BY <1>2, <1>3, HoldsFacts
<1>. HIDE DEF file
<1>8. \A name : /\ Left(g, name) \subseteq Left(files, name) \cup Holds(file, name)
                /\ Left(files, name) \subseteq Left(g, name) \cup Holds(files[2], name)
                /\ Holds(file, name) \subseteq Left(g, name)
                /\ Holds(files[2], name) \subseteq Left(files, name)
  BY <1>1, <1>2, <1>6, LeftReplace
<1>. HIDE DEF list
<1>9. g \in Seq(ArchiveFile) /\ Len(g) = Len(files)
      /\ g[1] = files[1] /\ g[2] = file
      /\ \A i \in 3..Len(files) : g[i] = files[i]
  BY <1>1, <1>6
<1>. HIDE DEF g
<1>10. /\ Left(g, "ssm") = Left(files, "ssm")
       /\ Left(g, "tfstate") = Left(files, "tfstate")
       /\ Left(g, "route53") = Left(files, "route53") \cup {e}
  <2>1. Left(g, "ssm") = Left(files, "ssm")
    BY <1>7, <1>8
  <2>2. Left(g, "tfstate") = Left(files, "tfstate")
    BY <1>7, <1>8
  <2>3. Left(g, "route53") = Left(files, "route53") \cup {e}
    BY <1>7, <1>8
  <2>. QED
    BY <2>1, <2>2, <2>3
<1>11. OneOfEach(g)
  BY <1>10 DEF ArchiveOK, OneOfEach
<1>12. ArchiveOK(g)
  BY <1>6, <1>9, <1>10, <1>11 DEF ArchiveOK
<1>. QED
  BY <1>5, <1>9, <1>10, <1>12 DEF g, file, list

(* What an import may be sent, and how it goes through it.                 *)
LEMMA SentFacts ==
  ASSUME NEW files, ArchiveOK(files), NEW sent \in Sent(files)
  PROVE  /\ sent \in Seq(LeftFile)
         /\ \A name : Left(sent, name) = Left(files, name)
<1>1. files \in Seq(ArchiveFile)
  BY DEF ArchiveOK
<1>2. CASE sent = files
  BY <1>1, <1>2 DEF LeftFile
<1>3. ASSUME NEW i \in DOMAIN files, sent = [files EXCEPT ![i] = Bad(files[i])]
      PROVE  /\ sent \in Seq(LeftFile)
             /\ \A name : Left(sent, name) = Left(files, name)
  <2>1. files[i] \in ArchiveFile /\ Bad(files[i]) \in LeftFile
    BY <1>1 DEF LeftFile
  <2>2. WasOf(Bad(files[i])) = files[i] /\ WasOf(files[i]) = files[i]
    BY <2>1, WasFacts
  <2>3. ASSUME NEW name
        PROVE  Left(sent, name) = Left(files, name)
    <3>1. /\ Left(sent, name) \subseteq Left(files, name) \cup Holds(files[i], name)
          /\ Left(files, name) \subseteq Left(sent, name) \cup Holds(files[i], name)
          /\ Holds(files[i], name) \subseteq Left(sent, name)
          /\ Holds(files[i], name) \subseteq Left(files, name)
      BY <1>1, <1>3, <2>2, LeftReplace
    <3>. QED
      BY <3>1
  <2>4. \A j \in DOMAIN files : files[j] \in LeftFile
    BY <1>1 DEF LeftFile
  <2>5. sent \in Seq(LeftFile)
    BY <1>1, <1>3, <2>1, <2>4
  <2>. QED
    BY <2>3, <2>5
<1>. QED
  BY <1>2, <1>3 DEF Sent

LEMMA PopFile ==
  ASSUME NEW todo \in Seq(LeftFile), todo # <<>>
  PROVE  /\ Tail(todo) \in Seq(LeftFile) /\ Head(todo) \in LeftFile
         /\ Head(todo) = todo[1] /\ 1 \in DOMAIN todo
         /\ \A name : Left(todo, name) =
              Holds(WasOf(Head(todo)), name) \cup Left(Tail(todo), name)
<1>1. \A name : Left(todo, name) =
        Holds(WasOf(Head(todo)), name) \cup Left(Tail(todo), name)
  BY LeftTail
<1>2. /\ Tail(todo) \in Seq(LeftFile) /\ Head(todo) \in LeftFile
      /\ Head(todo) = todo[1] /\ 1 \in DOMAIN todo
  OBVIOUS
<1>. QED
  BY <1>1, <1>2

LEMMA PopEntry ==
  ASSUME NEW todo \in Seq(LeftFile), todo # <<>>,
         NEW kind \in {"ssm", "route53"}, Head(todo).name = kind,
         Head(todo).list # <<>>
  PROVE  LET list == Head(todo).list
             rest == [todo EXCEPT ![1].list = Tail(@)]
         IN /\ rest \in Seq(LeftFile)
            /\ kind = "ssm" => Head(list) \in Request
            /\ kind = "route53" => Head(list) \in ZoneExport
            /\ Head(list) \in Left(todo, kind)
            /\ Left(todo, kind) \subseteq Left(rest, kind) \cup {Head(list)}
            /\ \A name : /\ Left(rest, name) \subseteq Left(todo, name)
                         /\ name # kind =>
                              Left(todo, name) \subseteq Left(rest, name)
<1>. DEFINE was == Head(todo)
            list == was.list
            file == [was EXCEPT !.list = Tail(@)]
            rest == [todo EXCEPT ![1] = file]
<1>1. /\ was \in LeftFile /\ was = todo[1] /\ 1 \in DOMAIN todo
      /\ was.name = kind
  BY PopFile
<1>2. rest = [todo EXCEPT ![1].list = Tail(@)]
  BY <1>1
<1>3. was \in ArchiveFile /\ WasOf(was) = was
  BY <1>1, LeftFacts, WasFacts
<1>4. /\ kind = "ssm" => was = SsmFile(list) /\ list \in Seq(Request)
      /\ kind = "route53" => was = Route53File(list) /\ list \in Seq(ZoneExport)
  BY <1>1, <1>3, FileFacts
<1>5. /\ kind = "ssm" => Head(list) \in Request /\ Tail(list) \in Seq(Request)
      /\ kind = "route53" =>
           Head(list) \in ZoneExport /\ Tail(list) \in Seq(ZoneExport)
      /\ Elems(list) = {Head(list)} \cup Elems(Tail(list))
  BY <1>4, ElemsTail
<1>6. /\ kind = "ssm" => file = SsmFile(Tail(list))
      /\ kind = "route53" => file = Route53File(Tail(list))
  <2>1. \A l, t : /\ [SsmFile(l) EXCEPT !.list = t] = SsmFile(t)
                  /\ [Route53File(l) EXCEPT !.list = t] = Route53File(t)
    BY DEF SsmFile, Route53File
  <2>2. file = [was EXCEPT !.list = Tail(list)]
    OBVIOUS
  <2>. HIDE DEF list, file, was
  <2>3. CASE kind = "ssm"
    BY <1>4, <2>1, <2>2, <2>3, Zenon
  <2>4. CASE kind = "route53"
    BY <1>4, <2>1, <2>2, <2>4, Zenon
  <2>. QED
    BY <2>3, <2>4
<1>7. file \in ArchiveFile /\ WasOf(file) = file
  BY <1>5, <1>6, IsFile, WasFacts
<1>8. \A name :
        /\ Holds(was, name) = IF name = kind THEN Elems(list) ELSE {}
        /\ Holds(file, name) = IF name = kind THEN Elems(Tail(list)) ELSE {}
  <2>1. CASE kind = "ssm"
    BY <1>4, <1>6, <2>1, HoldsFacts
  <2>2. CASE kind = "route53"
    BY <1>4, <1>6, <2>2, HoldsFacts
  <2>. QED
    BY <2>1, <2>2
<1>. HIDE DEF file
<1>9. \A name : /\ Left(rest, name) \subseteq Left(todo, name) \cup Holds(file, name)
                /\ Left(todo, name) \subseteq Left(rest, name) \cup Holds(was, name)
                /\ Holds(file, name) \subseteq Left(rest, name)
                /\ Holds(was, name) \subseteq Left(todo, name)
  BY <1>1, <1>3, <1>7, LeftReplace
<1>10. rest \in Seq(LeftFile)
  BY <1>7 DEF LeftFile
<1>. HIDE DEF rest, list, was
<1>11. Head(list) \in Left(todo, kind)
  BY <1>5, <1>8, <1>9
<1>12. Left(todo, kind) \subseteq Left(rest, kind) \cup {Head(list)}
  BY <1>5, <1>8, <1>9
<1>13. \A name : Left(rest, name) \subseteq Left(todo, name)
  BY <1>5, <1>8, <1>9
<1>14. \A name : name # kind => Left(todo, name) \subseteq Left(rest, name)
  BY <1>8, <1>9
<1>. QED
  BY <1>2, <1>5, <1>10, <1>11, <1>12, <1>13, <1>14 DEF list, was

LEMMA LeftNone == \A name : Left(<<>>, name) = {}
BY DEF Left
-----------------------------------------------------------------------------
(* The inductive invariant of the specification.                           *)

Wiping == {"wipeStates", "wipeSsm", "wipeRoute53"}

Fields == {"pc", "files", "todo", "skipped", "wiped"}

Thing == Base \cup Zone \cup Project

(* The stores an import has wiped when it is at pc.                        *)
WipedBy(pc) ==
  IF pc = "wipeStates" THEN {}
  ELSE IF pc = "wipeSsm" THEN {"states"}
  ELSE IF pc = "wipeRoute53" THEN {"states", "ssm"}
  ELSE Stores

JobInv ==
  job # Idle =>
    /\ DOMAIN job = Fields
    /\ job.pc \in Exporting \cup Restoring
    /\ job.skipped \in SUBSET Thing
    /\ job.wiped \in SUBSET Stores
    /\ job.pc \in Wiping \cup {"importing", "imported"} =>
         job.wiped = WipedBy(job.pc)
    /\ ArchiveOK(job.files)
    /\ Len(job.files) = 1 <=> job.pc \in {"params", "toZones"}
    /\ job.pc = "params" => \E to \in DOMAIN KeyOrder : job.todo = <<to>>
    /\ job.pc = "zones" => Len(job.files) = 2
    /\ job.pc = "zones" => job.todo \in Seq(Zone) /\ Distinct(job.todo)
    /\ job.pc = "states" => job.todo \in Seq(Project) /\ Distinct(job.todo)
    /\ job.pc \in Wiping \cup {"importing"} => job.todo \in Seq(LeftFile)
    /\ job.pc = "imported" => job.todo = <<>>

Archived(kind) == Left(job.files, kind)
NotYet(kind) == Left(job.todo, kind)
ToExport(pc) == IF job.pc = pc THEN Elems(job.todo) ELSE {}

Reads(n, e) ==
  /\ Has(params, n)
  /\ Plain(params[n]) = e.value /\ params[n].tags = e.tags

(* No parameter has a name that no request may give it.                    *)
LegalInv ==
  /\ \A k \in Name : Has(params, k) => k.base \notin Reserved
  /\ \A h \in Handler : handler[h].pc = "tagging" =>
       handler[h].edit.name.base \notin Reserved

(* The names in the pages an export has read.                              *)
Paged(n) ==
  job.pc = "params" => \E i \in 1..(Head(job.todo) - 1) : KeyOrder[i] = n

(* While an export runs and until its archive is used, what it has read    *)
(* and nobody has touched is as it was read, and the rest is in the pages  *)
(* to come or in todo.                                                     *)
ParamsOut ==
  job.pc \in Exporting =>
    /\ \A e \in Archived("ssm") : Paged(e.name)
    /\ \A n \in Name : n.base \notin touched =>
         /\ \A e \in Archived("ssm") : e.name = n => Reads(n, e)
         /\ Has(params, n) /\ Paged(n) => \E e \in Archived("ssm") : e.name = n

ZonesOut ==
  job.pc \in {"zones", "states", "exported"} =>
    /\ \A e \in Archived("route53") : e.zone \notin ToExport("zones")
    /\ \A z \in Zone \ touched :
         /\ \A e \in Archived("route53") : e.zone = z => zones[z] = e.records
         /\ z \in ToExport("zones") => Has(zones, z)
         /\ Has(zones, z) => \/ z \in ToExport("zones")
                             \/ \E e \in Archived("route53") : e.zone = z

StatesOut ==
  job.pc \in {"states", "exported"} =>
    /\ \A f \in Archived("tfstate") : f.project \notin ToExport("states")
    /\ \A p \in Project \ touched :
         /\ \A f \in Archived("tfstate") : f.project = p => states[p] = f.body
         /\ Has(states, p) => \/ p \in ToExport("states") \cup job.skipped
                              \/ \E f \in Archived("tfstate") : f.project = p

(* While an import runs, todo holds what the archive holds and has not     *)
(* been put back yet.                                                      *)
LeftIn ==
  /\ job.pc \in Wiping \cup {"importing"} =>
       \A kind \in {"ssm", "route53", "tfstate"} :
         NotYet(kind) \subseteq Archived(kind)
  /\ job.pc \in Wiping =>
       \A kind \in {"ssm", "route53", "tfstate"} :
         Archived(kind) \subseteq NotYet(kind)

(* From the wipe of a store on, what nobody touched is from the archive,   *)
(* or the part of it at which the import failed or was cut off.            *)
WipedNow == IF job.pc \in Restoring THEN job.wiped ELSE {}

ParamsOnly ==
  "ssm" \in WipedNow =>
    \A b \in Base \ touched : Has(params, PathKey(b)) =>
      \E e \in Archived("ssm") : e.name.base = b /\ Reads(PathKey(b), e)

ZonesOnly ==
  "route53" \in WipedNow =>
    \A z \in Zone \ touched : Has(zones, z) =>
      \/ \E e \in Archived("route53") : e.zone = z /\ zones[z] = e.records
      \/ z \in job.skipped /\ zones[z] = {}

StatesOnly ==
  "states" \in WipedNow =>
    \A p \in Project \ touched : Has(states, p) =>
      \/ \E f \in Archived("tfstate") : f.project = p /\ states[p] = f.body
      \/ p \in job.skipped /\ states[p] = Torn

OnlyIn == ParamsOnly /\ ZonesOnly /\ StatesOnly

(* While the import goes on, what it did not skip is all that is not in    *)
(* todo any more.                                                          *)
ParamsBack ==
  job.pc \in {"importing", "imported"} =>
    \A b \in Base \ (touched \cup job.skipped) :
      \A e \in Archived("ssm") \ NotYet("ssm") :
        (/\ e.name = PathKey(b)
         /\ \A f \in Archived("ssm") : f.name.base = b => f.name = PathKey(b))
          => Reads(PathKey(b), e)

ZonesBack ==
  job.pc \in {"importing", "imported"} =>
    \A z \in Zone \ (touched \cup job.skipped) :
      \A e \in Archived("route53") \ NotYet("route53") :
        e.zone = z => zones[z] = e.records

StatesBack ==
  job.pc \in {"importing", "imported"} =>
    \A p \in Project \ (touched \cup job.skipped) :
      \A f \in Archived("tfstate") \ NotYet("tfstate") :
        f.project = p => states[p] = f.body

BackIn == ParamsBack /\ ZonesBack /\ StatesBack

StoresTyped ==
  /\ zones \in [Zone -> {Absent} \cup SUBSET Record]
  /\ states \in [Project -> SavedBody \cup {Absent}]
  /\ touched \in SUBSET (Base \cup Zone \cup Project)

JobPart == JobInv /\ ParamsOut /\ ZonesOut /\ StatesOut
             /\ LeftIn /\ OnlyIn /\ BackIn

DbInv == IInv /\ LegalInv /\ StoresTyped /\ JobPart

(* Nothing is said of a job that is not there.                             *)
LEMMA IdleKeeps == ASSUME job' = Idle PROVE JobPart'
<1>1. job'.pc = "idle"
  BY DEF Idle
<1>2. JobInv'
  BY DEF JobInv
<1>3. ParamsOut' /\ ZonesOut' /\ StatesOut'
  BY <1>1 DEF ParamsOut, ZonesOut, StatesOut, Exporting
<1>4. LeftIn' /\ OnlyIn' /\ BackIn'
  <2>1. job'.pc \notin Restoring /\ job'.pc \notin Wiping
    BY <1>1 DEF Restoring, Wiping
  <2>2. LeftIn' /\ BackIn'
    BY <1>1, <2>1 DEF LeftIn, BackIn, ParamsBack, ZonesBack, StatesBack
  <2>3. WipedNow' = {}
    BY <2>1 DEF WipedNow
  <2>. QED
    BY <2>2, <2>3 DEF OnlyIn, ParamsOnly, ZonesOnly, StatesOnly
<1>. QED
  BY <1>2, <1>3, <1>4 DEF JobPart

(* One that exports restores nothing.                                      *)
LEMMA ExportingOnly ==
  ASSUME job'.pc \in Exporting
  PROVE  LeftIn' /\ OnlyIn' /\ BackIn'
<1>1. /\ job'.pc \notin Restoring /\ job'.pc \notin Wiping
      /\ job'.pc \notin {"importing", "imported"}
  BY DEF Exporting, Restoring, Wiping
<1>2. WipedNow' = {}
  BY <1>1 DEF WipedNow
<1>3. LeftIn'
  BY <1>1 DEF LeftIn
<1>4. BackIn'
  BY <1>1 DEF BackIn, ParamsBack, ZonesBack, StatesBack
<1>. QED
  BY <1>2, <1>3, <1>4 DEF OnlyIn, ParamsOnly, ZonesOnly, StatesOnly

(* A step that leaves the job alone and changes only what it notes.        *)
LEMMA OthersKeep ==
  ASSUME JobPart, job' = job, touched \subseteq touched',
         \A n \in Name : n.base \notin touched' => params'[n] = params[n],
         \A z \in Zone : z \notin touched' => zones'[z] = zones[z],
         \A p \in Project : p \notin touched' => states'[p] = states[p]
  PROVE  JobPart'
<1>1. /\ \A kind : Archived(kind)' = Archived(kind) /\ NotYet(kind)' = NotYet(kind)
      /\ \A pc : ToExport(pc)' = ToExport(pc)
  BY DEF Archived, NotYet, ToExport
<1>2. \A n \in Name : n.base \notin touched' =>
        /\ n.base \notin touched
        /\ Has(params, n)' <=> Has(params, n)
        /\ \A e : Reads(n, e)' <=> Reads(n, e)
  BY DEF Has, Reads, Plain
<1>3. \A z \in Zone : z \notin touched' =>
        z \notin touched /\ zones'[z] = zones[z] /\ (Has(zones, z)' <=> Has(zones, z))
  BY DEF Has
<1>4. \A p \in Project : p \notin touched' =>
        /\ p \notin touched /\ states'[p] = states[p]
        /\ Has(states, p)' <=> Has(states, p)
  BY DEF Has
<1>5. \A b \in Base : b \notin touched' =>
        /\ b \notin touched
        /\ Has(params, PathKey(b))' <=> Has(params, PathKey(b))
        /\ \A e : Reads(PathKey(b), e)' <=> Reads(PathKey(b), e)
  BY <1>2, PathKeyFacts
<1>6. JobInv'
  BY DEF JobPart, JobInv
<1>7. ParamsOut'
  BY <1>1, <1>2 DEF JobPart, ParamsOut, Paged
<1>8. ZonesOut'
  BY <1>1, <1>3 DEF JobPart, ZonesOut
<1>9. StatesOut'
  BY <1>1, <1>4 DEF JobPart, StatesOut
<1>10. LeftIn'
  BY <1>1 DEF JobPart, LeftIn
<1>11. ParamsOnly' /\ ParamsBack'
  BY <1>1, <1>5 DEF JobPart, OnlyIn, BackIn, ParamsOnly, ParamsBack, WipedNow
<1>12. ZonesOnly' /\ ZonesBack'
  BY <1>1, <1>3 DEF JobPart, OnlyIn, BackIn, ZonesOnly, ZonesBack, WipedNow
<1>13. StatesOnly' /\ StatesBack'
  BY <1>1, <1>4 DEF JobPart, OnlyIn, BackIn, StatesOnly, StatesBack, WipedNow
<1>. QED
  BY <1>6, <1>7, <1>8, <1>9, <1>10, <1>11, <1>12, <1>13
     DEF JobPart, OnlyIn, BackIn

-----------------------------------------------------------------------------
(* The parts of a job.                                                     *)
LEMMA JobFacts ==
  ASSUME JobInv, job.pc # "idle"
  PROVE  /\ job # Idle
         /\ DOMAIN job = Fields
         /\ job.pc \in Exporting \cup Restoring
         /\ job.skipped \in SUBSET Thing
         /\ job.wiped \in SUBSET Stores
         /\ job.pc \in Wiping \cup {"importing", "imported"} =>
              job.wiped = WipedBy(job.pc)
         /\ ArchiveOK(job.files)
         /\ Len(job.files) = 1 <=> job.pc \in {"params", "toZones"}
         /\ job.pc \notin {"params", "toZones"} =>
              Len(job.files) >= 2 /\ Len(job.files) # 1
         /\ job.pc = "params" => \E to \in DOMAIN KeyOrder : job.todo = <<to>>
         /\ job.pc = "zones" => Len(job.files) = 2
         /\ job.pc = "zones" => job.todo \in Seq(Zone) /\ Distinct(job.todo)
         /\ job.pc = "states" => job.todo \in Seq(Project) /\ Distinct(job.todo)
         /\ job.pc \in Wiping \cup {"importing"} => job.todo \in Seq(LeftFile)
<1>1. job # Idle
  BY DEF Idle
<1>2. /\ ArchiveOK(job.files)
      /\ Len(job.files) = 1 <=> job.pc \in {"params", "toZones"}
  BY <1>1 DEF JobInv
<1>3. Len(job.files) \in Nat /\ Len(job.files) >= 1
  BY <1>2 DEF ArchiveOK
<1>4. job.pc \notin {"params", "toZones"} =>
        Len(job.files) >= 2 /\ Len(job.files) # 1
  <2>1. \A n \in Nat : n >= 1 /\ n # 1 => n >= 2
    OBVIOUS
  <2>. QED
    BY <1>2, <1>3, <2>1, Zenon
<1>. QED
  BY <1>1, <1>4 DEF JobInv

LEMMA NewJob ==
  ASSUME NEW pc, NEW files, NEW todo, job' = Job(pc, files, todo)
  PROVE  /\ job'.pc = pc /\ job'.files = files /\ job'.todo = todo
         /\ job'.skipped = {} /\ job'.skipped \in SUBSET Thing
         /\ job'.wiped = {} /\ job'.wiped \in SUBSET Stores
         /\ DOMAIN job' = Fields
BY DEF Job, Fields

LEMMA NewJobInv ==
  ASSUME DOMAIN job' = Fields, job'.pc \in Exporting \cup Restoring,
         job'.skipped \in SUBSET Thing, job'.wiped \in SUBSET Stores,
         job'.pc \in Wiping \cup {"importing", "imported"} =>
           job'.wiped = WipedBy(job'.pc),
         ArchiveOK(job'.files),
         job'.pc \in {"params", "toZones"} => Len(job'.files) = 1,
         job'.pc \notin {"params", "toZones"} => Len(job'.files) # 1,
         job'.pc = "params" => \E to \in DOMAIN KeyOrder : job'.todo = <<to>>,
         job'.pc = "zones" => Len(job'.files) = 2,
         job'.pc = "zones" => job'.todo \in Seq(Zone) /\ Distinct(job'.todo),
         job'.pc = "states" => job'.todo \in Seq(Project) /\ Distinct(job'.todo),
         job'.pc \in Wiping \cup {"importing"} => job'.todo \in Seq(LeftFile),
         job'.pc = "imported" => job'.todo = <<>>
  PROVE  JobInv'
BY Zenon DEF JobInv

(* An export is at a place that has nothing wiped.                         *)
LEMMA ExportJobInv ==
  ASSUME DOMAIN job' = Fields, job'.pc \in Exporting,
         job'.skipped \in SUBSET Thing, job'.wiped \in SUBSET Stores,
         ArchiveOK(job'.files),
         job'.pc \in {"params", "toZones"} => Len(job'.files) = 1,
         job'.pc \notin {"params", "toZones"} => Len(job'.files) # 1,
         job'.pc = "params" => \E to \in DOMAIN KeyOrder : job'.todo = <<to>>,
         job'.pc = "zones" => Len(job'.files) = 2,
         job'.pc = "zones" => job'.todo \in Seq(Zone) /\ Distinct(job'.todo),
         job'.pc = "states" => job'.todo \in Seq(Project) /\ Distinct(job'.todo)
  PROVE  JobInv'
<1>1. /\ job'.pc \in Exporting \cup Restoring
      /\ job'.pc \notin Wiping \cup {"importing", "imported"}
      /\ job'.pc \notin Wiping \cup {"importing"} /\ job'.pc # "imported"
  BY DEF Exporting, Wiping
<1>. QED
  BY <1>1, NewJobInv, Zenon

LEMMA AtFileFacts ==
  ASSUME JobInv, NEW kind, AtFile(kind)
  PROVE  /\ job.pc = "importing" /\ ArchiveOK(job.files)
         /\ DOMAIN job = Fields
         /\ job.skipped \in SUBSET Thing
         /\ job.wiped = Stores
         /\ job.todo \in Seq(LeftFile) /\ job.todo # <<>>
         /\ Head(job.todo).name = kind
         /\ Len(job.files) # 1
<1>1. job.pc = "importing" /\ job.todo # <<>> /\ Head(job.todo).name = kind
  BY DEF AtFile
<1>. QED
  BY <1>1, JobFacts DEF WipedBy

LEMMA RequestFacts ==
  ASSUME JobInv, LeftIn, AtFile("ssm"), Head(job.todo).list # <<>>
  PROVE  LET req == Head(Head(job.todo).list)
         IN /\ req \in Request /\ req \in Archived("ssm")
            /\ Importable(req)
<1>1. /\ job.todo \in Seq(LeftFile) /\ job.todo # <<>>
      /\ Head(job.todo).name = "ssm" /\ ArchiveOK(job.files)
      /\ job.pc = "importing"
  BY AtFileFacts
<1>2. /\ Head(Head(job.todo).list) \in Request
      /\ Head(Head(job.todo).list) \in Left(job.todo, "ssm")
  BY <1>1, PopEntry
<1>3. Left(job.todo, "ssm") \subseteq Left(job.files, "ssm")
  BY <1>1 DEF LeftIn, NotYet, Archived
<1>. QED
  BY <1>1, <1>2, <1>3 DEF ArchiveOK, Archived

-----------------------------------------------------------------------------
(* What is behind every key stays as it was.                               *)

LEMMA ImportParameterKeeps ==
  ASSUME IInv, JobInv, LeftIn, ImportParameter
  PROVE  IInv'
<1>. DEFINE req == Head(Head(job.todo).list)
<1>1. req \in Request
  BY RequestFacts DEF ImportParameter
<1>2. keyring' = keyring /\ keyring \in Keyrings
  BY DEF ImportParameter, IInv, TypeOK
<1>3. StateInv'
  <2>1. CASE Accepted(req)
    <3>1. persistParameter(req, TRUE)
      BY <2>1 DEF ImportParameter
    <3>. HIDE DEF req
    <3>. QED
      BY <1>1, <1>2, <3>1, PersistKeeps
  <2>2. CASE ~Accepted(req)
    <3>1. UNCHANGED store
      BY <2>2 DEF ImportParameter
    <3>. QED
      BY <1>2, <3>1, StoreUnchanged
  <2>. QED
    BY <2>1, <2>2
<1>4. handler' \in [Handler -> HandlerState] /\ CopyInv'
  BY HandlersUnchanged DEF ImportParameter
<1>. QED
  BY <1>2, <1>3, <1>4, Gather

(* The other steps of DbFunctions leave the Parameter Store alone, or are  *)
(* steps of it.                                                            *)
LEMMA StoreSteps ==
  ASSUME DbNext
  PROVE  \/ UNCHANGED vars
         \/ \E req \in PutRequest : OtherPut(req)
         \/ \E n \in Name : OtherDelete(n)
         \/ \E h \in Handler : \/ \E edit \in TagRequest : OtherReadForTags(h, edit)
                               \/ OtherWriteTags(h)
         \/ \E keys \in Keyrings : DbRestart(keys)
         \/ WipeSsm
         \/ ImportParameter
<1>1. ASSUME NEW z, NEW records, OtherZone(z, records)
      PROVE  UNCHANGED vars
  BY <1>1 DEF OtherZone
<1>2. ASSUME NEW p, NEW b, OtherState(p, b)
      PROVE  UNCHANGED vars
  BY <1>2 DEF OtherState
<1>3. ASSUME \/ ExportAll \/ NextPage \/ ListZones \/ ExportZone
             \/ ListStateFiles \/ ExportState \/ EndExport \/ ImportAll
             \/ WipeStates \/ WipeRoute53 \/ ImportZone \/ EndFile
             \/ ImportState \/ EntryFails \/ ImportStateFails
             \/ BadFileFails \/ BadStateIsSkipped \/ EndImport \/ Discard
      PROVE  UNCHANGED vars
  BY <1>3 DEF ExportAll, NextPage, ListZones, ExportZone, ListStateFiles,
     ExportState, EndExport, ImportAll, WipeStates, WipeRoute53, ImportZone,
     EndFile, ImportState, EntryFails, ImportStateFails, BadFileFails,
     BadStateIsSkipped, EndImport, Discard
<1>. QED
  BY <1>1, <1>2, <1>3 DEF DbNext

LEMMA SsmStep ==
  ASSUME DbNext
  PROVE  [Next]_vars \/ ImportParameter
<1>1. ASSUME NEW req \in PutRequest, OtherPut(req)
      PROVE  Next
  BY <1>1 DEF OtherPut, Next
<1>2. ASSUME NEW n \in Name, OtherDelete(n)
      PROVE  Next
  BY <1>2 DEF OtherDelete, Next
<1>3. ASSUME NEW h \in Handler, NEW edit \in TagRequest, OtherReadForTags(h, edit)
      PROVE  Next
  BY <1>3 DEF OtherReadForTags, Next
<1>4. ASSUME NEW h \in Handler, OtherWriteTags(h)
      PROVE  Next
  BY <1>4 DEF OtherWriteTags, Next, Step
<1>5. ASSUME NEW keys \in Keyrings, DbRestart(keys)
      PROVE  Next
  BY <1>5 DEF DbRestart, Next
<1>6. CASE WipeSsm
  BY <1>6 DEF WipeSsm, Next, vars
<1>. QED
  BY <1>1, <1>2, <1>3, <1>4, <1>5, <1>6, StoreSteps

LEMMA DbKeepsSsm ==
  ASSUME DbInv, [DbNext]_dbVars
  PROVE  IInv'
<1>1. CASE UNCHANGED dbVars
  BY <1>1, NextInv DEF DbInv, dbVars
<1>2. CASE DbNext
  BY <1>2, SsmStep, NextInv, ImportParameterKeeps DEF DbInv, JobPart
<1>. QED
  BY <1>1, <1>2

(* What a put, and the second half of a tag edit, write where.             *)
LEMMA PersistFacts ==
  ASSUME IInv, NEW req \in Request, NEW skip \in BOOLEAN,
         persistParameter(req, skip)
  PROVE  /\ req.name.base \in Base \ Reserved
         /\ PathKey(req.name.base) \in Name
         /\ \E w : /\ params' = [params EXCEPT ![PathKey(req.name.base)] = w]
                   /\ w # Absent /\ Plain(w) = req.value
                   /\ skip => w.tags = req.tags
<1>. DEFINE key == PathKey(req.name.base)
            data == Encrypted(NewParameterData(req))
            w == Written(key, data, skip)
<1>1. TypeOK /\ Absent \notin ParameterData
  BY SsmConstants DEF IInv, SsmAssumption
<1>2. /\ req.type # "Unsupported" /\ req.name.base \notin Reserved
      /\ req.name \in Name
  BY DEF persistParameter, Accepted, ValidName, Request
<1>3. req.name.base \in Base /\ asPathName(req.name) = key /\ key \in Name
  BY <1>2, NameFacts
<1>4. /\ data \in ParameterData /\ WellStored(keyring, data)
      /\ Plain(data) = req.value /\ data.tags = req.tags
  BY <1>1, <1>2, NewIsWell
<1>5. params' = [params EXCEPT ![key] = w]
  BY <1>3 DEF persistParameter, putParameter, Written
<1>. HIDE DEF data, key
<1>6. /\ w \in ParameterData /\ Plain(w) = req.value
      /\ w.tags = IF Has(params, key) /\ ~skip
                  THEN params[key].tags ELSE req.tags
  BY <1>1, <1>3, <1>4, WrittenWell
<1>. HIDE DEF w
<1>7. w # Absent /\ (skip => w.tags = req.tags)
  BY <1>1, <1>6
<1>. QED
  BY <1>2, <1>3, <1>5, <1>6, <1>7 DEF key

LEMMA WriteTagsFacts ==
  ASSUME IInv, NEW h \in Handler, WriteTags(h)
  PROVE  /\ handler[h].edit.name \in Name /\ handler[h].pc = "tagging"
         /\ \E w : params' = [params EXCEPT ![handler[h].edit.name] = w]
<1>1. handler[h] \in HandlerState /\ handler[h].pc = "tagging"
  BY DEF IInv, TypeOK, WriteTags
<1>2. handler[h].edit \in TagEdit /\ handler[h].copy.name = handler[h].edit.name
  BY <1>1 DEF HandlerState, IInv, CopyInv
<1>3. handler[h].edit.name \in Name
  BY <1>2 DEF TagEdit
<1>4. \E w : params' = [params EXCEPT ![handler[h].edit.name] = w]
  BY <1>2 DEF WriteTags, putParameter
<1>. QED
  BY <1>1, <1>3, <1>4

(* A write under a name that may be used, or one that erases.              *)
LEMMA LegalWrite ==
  ASSUME TypeOK, LegalInv, NEW key \in Name, key.base \notin Reserved, NEW w,
         params' = [params EXCEPT ![key] = w]
  PROVE  \A k \in Name : Has(params', k) => k.base \notin Reserved
BY DEF TypeOK, LegalInv, Has

LEMMA LegalSteps ==
  ASSUME IInv, LegalInv, JobInv, LeftIn, DbNext
  PROVE  LegalInv'
<1>0. TypeOK
  BY DEF IInv
<1>1. ASSUME NEW req \in PutRequest, OtherPut(req)
      PROVE  LegalInv'
  <2>1. req \in Request /\ persistParameter(req, FALSE) /\ handler' = handler
    BY <1>1, SsmConstants DEF SsmAssumption, OtherPut, PutParameter
  <2>2. PICK w : params' = [params EXCEPT ![PathKey(req.name.base)] = w]
    BY <2>1, PersistFacts
  <2>3. /\ PathKey(req.name.base) \in Name
        /\ PathKey(req.name.base).base \notin Reserved
    BY <2>1, PersistFacts, PathKeyFacts
  <2>4. \A k \in Name : Has(params', k) => k.base \notin Reserved
    BY <1>0, <2>2, <2>3, LegalWrite
  <2>. QED
    BY <2>1, <2>4 DEF LegalInv
<1>2. ASSUME NEW n \in Name, OtherDelete(n)
      PROVE  LegalInv'
  BY <1>0, <1>2 DEF OtherDelete, DeleteParameter, Erase, DeleteKeys, LegalInv,
     Has, TypeOK
<1>3. ASSUME NEW h \in Handler, NEW edit \in TagRequest, OtherReadForTags(h, edit)
      PROVE  LegalInv'
  <2>1. edit.name.base \notin Reserved /\ UNCHANGED params
    BY <1>3 DEF OtherReadForTags, ReadForTags, Readable, ValidName, store
  <2>2. \A g \in Handler : handler'[g] =
          IF g = h THEN Tagging(edit, getParameterByName(edit.name))
          ELSE handler[g]
    BY <1>0, <1>3 DEF OtherReadForTags, ReadForTags, TypeOK
  <2>3. Tagging(edit, getParameterByName(edit.name)).edit = edit
    BY DEF Tagging
  <2>. QED
    BY <2>1, <2>2, <2>3 DEF LegalInv, Has
<1>4. ASSUME NEW h \in Handler, OtherWriteTags(h)
      PROVE  LegalInv'
  <2>1. WriteTags(h)
    BY <1>4 DEF OtherWriteTags
  <2>2. /\ handler[h].edit.name \in Name
        /\ handler[h].edit.name.base \notin Reserved
    BY <2>1, WriteTagsFacts DEF LegalInv
  <2>3. PICK w : params' = [params EXCEPT ![handler[h].edit.name] = w]
    BY <2>1, WriteTagsFacts
  <2>4. \A k \in Name : Has(params', k) => k.base \notin Reserved
    BY <1>0, <2>2, <2>3, LegalWrite
  <2>5. \A g \in Handler : handler'[g] = IF g = h THEN Idle ELSE handler[g]
    BY <1>0, <2>1 DEF WriteTags, TypeOK
  <2>6. Idle.pc # "tagging"
    BY DEF Idle
  <2>. QED
    BY <2>4, <2>5, <2>6 DEF LegalInv
<1>5. ASSUME NEW keys \in Keyrings, DbRestart(keys)
      PROVE  LegalInv'
  BY <1>5 DEF DbRestart, Restart, store, Idle, LegalInv, Has
<1>6. CASE WipeSsm
  BY <1>0, <1>6 DEF WipeSsm, DeleteAllData, DeleteBucket, LegalInv, Has, TypeOK,
     vars
<1>7. CASE ImportParameter
  <2>. DEFINE req == Head(Head(job.todo).list)
  <2>1. req \in Request /\ handler' = handler
    BY <1>7, RequestFacts DEF ImportParameter
  <2>2. CASE Accepted(req)
    <3>1. persistParameter(req, TRUE)
      BY <1>7, <2>2 DEF ImportParameter
    <3>. HIDE DEF req
    <3>2. PICK w : params' = [params EXCEPT ![PathKey(req.name.base)] = w]
      BY <2>1, <3>1, PersistFacts
    <3>3. /\ PathKey(req.name.base) \in Name
          /\ PathKey(req.name.base).base \notin Reserved
      BY <2>1, <3>1, PersistFacts, PathKeyFacts
    <3>4. \A k \in Name : Has(params', k) => k.base \notin Reserved
      BY <1>0, <3>2, <3>3, LegalWrite
    <3>. QED
      BY <2>1, <3>4 DEF LegalInv
  <2>3. CASE ~Accepted(req)
    <3>1. UNCHANGED params
      BY <1>7, <2>3 DEF ImportParameter, store
    <3>. QED
      BY <2>1, <3>1 DEF LegalInv, Has
  <2>. QED
    BY <2>2, <2>3
<1>8. ASSUME UNCHANGED vars
      PROVE  LegalInv'
  BY <1>8 DEF vars, LegalInv, Has
<1>. QED
  BY <1>1, <1>2, <1>3, <1>4, <1>5, <1>6, <1>7, <1>8, StoreSteps

-----------------------------------------------------------------------------
(* Others.                                                                 *)
LEMMA OtherSteps ==
  ASSUME IInv, JobPart, StoresTyped,
         \/ \E req \in PutRequest : OtherPut(req)
         \/ \E n \in Name : OtherDelete(n)
         \/ \E h \in Handler : \/ \E edit \in TagRequest : OtherReadForTags(h, edit)
                               \/ OtherWriteTags(h)
         \/ \E z \in Zone, records \in {Absent} \cup Content :
              OtherZone(z, records)
         \/ \E p \in Project, b \in {Absent} \cup SavedBody : OtherState(p, b)
  PROVE  JobPart' /\ StoresTyped'
<1>0. /\ params = [k \in Name |-> params[k]]
      /\ zones \in [Zone -> {Absent} \cup SUBSET Record]
      /\ states \in [Project -> SavedBody \cup {Absent}]
      /\ touched \in SUBSET (Base \cup Zone \cup Project)
      /\ Content \subseteq SUBSET Record
  BY DbAssumption DEF IInv, TypeOK, StoresTyped, DbAssumption
<1>1. ASSUME NEW items \in SUBSET (Base \cup Zone \cup Project), Others(items),
             \A n \in Name : n.base \notin items => params'[n] = params[n],
             \A z \in Zone : z \notin items => zones'[z] = zones[z],
             \A p \in Project : p \notin items => states'[p] = states[p],
             zones' \in [Zone -> {Absent} \cup SUBSET Record],
             states' \in [Project -> SavedBody \cup {Absent}]
      PROVE  JobPart' /\ StoresTyped'
  <2>1. StoresTyped'
    BY <1>0, <1>1 DEF StoresTyped, Others
  <2>2. CASE job = Idle
    BY <1>1, <2>1, <2>2, IdleKeeps DEF Others
  <2>3. CASE job # Idle
    <3>1. job' = job /\ touched' = touched \cup items
      BY <1>1, <2>3 DEF Others
    <3>. QED
      BY <1>1, <2>1, <3>1, OthersKeep
  <2>. QED
    BY <2>2, <2>3
<1>2. ASSUME NEW n \in Name, NEW key \in Name, key.base = n.base, NEW w,
             params' = [params EXCEPT ![key] = w], Others({n.base}), UNCHANGED db
      PROVE  JobPart' /\ StoresTyped'
  <2>1. {n.base} \in SUBSET (Base \cup Zone \cup Project)
    BY NameFacts
  <2>2. \A k \in Name : k.base \notin {n.base} => params'[k] = params[k]
    BY <1>0, <1>2
  <2>. QED
    BY <1>0, <1>1, <1>2, <2>1, <2>2 DEF db
<1>3. ASSUME NEW req \in PutRequest, OtherPut(req)
      PROVE  JobPart' /\ StoresTyped'
  <2>1. req \in Request /\ persistParameter(req, FALSE)
    BY <1>3, SsmConstants DEF SsmAssumption, OtherPut, PutParameter
  <2>2. PICK w : params' = [params EXCEPT ![PathKey(req.name.base)] = w]
    BY <2>1, PersistFacts
  <2>3. /\ PathKey(req.name.base) \in Name
        /\ PathKey(req.name.base).base = req.name.base
        /\ req.name \in Name
    BY <2>1, PersistFacts, PathKeyFacts DEF Request
  <2>. QED
    BY <1>2, <1>3, <2>2, <2>3 DEF OtherPut
<1>4. ASSUME NEW n \in Name, OtherDelete(n)
      PROVE  JobPart' /\ StoresTyped'
  <2>1. /\ asPathName(n) \in Name /\ asPathName(n).base = n.base
    BY NameFacts, PathKeyFacts
  <2>2. params' = [params EXCEPT ![asPathName(n)] = Absent]
    BY <1>0, <1>4, <2>1 DEF OtherDelete, DeleteParameter, Erase, DeleteKeys
  <2>. QED
    BY <1>2, <1>4, <2>1, <2>2 DEF OtherDelete
<1>5. ASSUME NEW h \in Handler, NEW edit \in TagRequest, OtherReadForTags(h, edit)
      PROVE  JobPart' /\ StoresTyped'
  <2>1. UNCHANGED <<params, zones, states>> /\ Others({})
    BY <1>5 DEF OtherReadForTags, ReadForTags, store, db
  <2>. QED
    BY <1>0, <1>1, <2>1
<1>6. ASSUME NEW h \in Handler, OtherWriteTags(h)
      PROVE  JobPart' /\ StoresTyped'
  <2>1. /\ handler[h].edit.name \in Name
        /\ \E w : params' = [params EXCEPT ![handler[h].edit.name] = w]
    BY <1>6, WriteTagsFacts DEF OtherWriteTags
  <2>. QED
    BY <1>2, <1>6, <2>1 DEF OtherWriteTags
<1>7. ASSUME NEW z \in Zone, NEW records \in {Absent} \cup Content,
             OtherZone(z, records)
      PROVE  JobPart' /\ StoresTyped'
  <2>1. /\ zones' = [zones EXCEPT ![z] = records] /\ Others({z})
        /\ UNCHANGED <<params, states>>
    BY <1>7 DEF OtherZone, vars
  <2>2. zones' \in [Zone -> {Absent} \cup SUBSET Record]
    BY <1>0, <2>1
  <2>3. \A y \in Zone : y \notin {z} => zones'[y] = zones[y]
    BY <1>0, <2>1
  <2>. QED
    BY <1>0, <1>1, <2>1, <2>2, <2>3
<1>8. ASSUME NEW p \in Project, NEW b \in {Absent} \cup SavedBody, OtherState(p, b)
      PROVE  JobPart' /\ StoresTyped'
  <2>1. /\ states' = [states EXCEPT ![p] = b] /\ Others({p})
        /\ UNCHANGED <<params, zones>>
    BY <1>8 DEF OtherState, vars
  <2>2. states' \in [Project -> SavedBody \cup {Absent}]
    BY <1>0, <2>1
  <2>3. \A q \in Project : q \notin {p} => states'[q] = states[q]
    BY <1>0, <2>1
  <2>. QED
    BY <1>0, <1>1, <2>1, <2>2, <2>3
<1>. QED
  BY <1>3, <1>4, <1>5, <1>6, <1>7, <1>8

-----------------------------------------------------------------------------
(* An export.                                                              *)
LEMMA ExportedFacts ==
  ASSUME IInv, LegalInv, NEW k \in Name, Has(params, k)
  PROVE  LET e == Exported(params[k])
         IN e \in Request /\ e.name = k /\ Importable(e) /\ Reads(k, e)
<1>. DEFINE data == params[k]
            e == Exported(data)
<1>1. /\ data \in ParameterData /\ data.name = k /\ WellStored(keyring, data)
      /\ keyring \in Keyrings /\ k.base \notin Reserved
  BY DEF IInv, TypeOK, StoreInv, Has, LegalInv
<1>. HIDE DEF data
<1>2. /\ ValueWithDecryption(keyring, data) = Plain(data)
      /\ Plain(data) \in Value
  BY <1>1, ReadBack
<1>3. /\ e.name = k /\ e.value = Plain(data) /\ e.tags = data.tags
      /\ e.type = data.type /\ e.overwrite = TRUE
      /\ e \in Request
  BY <1>1, <1>2 DEF Exported, ParameterData, Request
<1>4. e.type # "Unsupported"
  BY <1>1, <1>3 DEF ParameterData
<1>. QED
  BY <1>1, <1>3, <1>4 DEF Importable, Reads, data

(* A page holds what is stored between two places, once.                   *)
LEMMA PageFacts ==
  ASSUME IInv, LegalInv, NEW from \in Nat \ {0}, NEW to \in Nat,
         to <= Len(KeyOrder)
  PROVE  /\ Page(from, to) \in Seq(Request)
         /\ \A e \in Elems(Page(from, to)) : \E i \in from..to :
              /\ KeyOrder[i] \in Name /\ Has(params, KeyOrder[i])
              /\ e = Exported(params[KeyOrder[i]])
         /\ \A i \in from..to : Has(params, KeyOrder[i]) =>
              Exported(params[KeyOrder[i]]) \in Elems(Page(from, to))
<1>. DEFINE order == SubSeq(KeyOrder, from, to)
            there == {k \in Name : Has(params, k)}
            keys == InOrder(order, there)
            list == [i \in DOMAIN keys |-> Exported(params[keys[i]])]
<1>1. KeyOrder \in Seq(Name) /\ Len(KeyOrder) \in Nat
  BY DbAssumption DEF DbAssumption
<1>2. \A i \in from..to : i \in DOMAIN KeyOrder /\ KeyOrder[i] \in Name
  BY <1>1
<1>3. /\ order \in Seq(Name)
      /\ \A x : x \in Elems(order) <=> \E i \in from..to : KeyOrder[i] = x
  <2>1. CASE from <= to
    <3>1. /\ Len(order) = to - from + 1 /\ DOMAIN order = 1..(to - from + 1)
          /\ \A i \in 1..(to - from + 1) : order[i] = KeyOrder[from + i - 1]
      BY <1>1, <2>1
    <3>2. /\ \A i \in 1..(to - from + 1) : from + i - 1 \in from..to
          /\ \A i \in from..to :
               /\ i - from + 1 \in 1..(to - from + 1)
               /\ from + (i - from + 1) - 1 = i
      BY <2>1
    <3>3. order \in Seq(Name)
      BY <1>1, <1>2, <2>1
    <3>. HIDE DEF order
    <3>4. ASSUME NEW x, x \in Elems(order)
          PROVE  \E i \in from..to : KeyOrder[i] = x
      <4>1. PICK j \in 1..(to - from + 1) : order[j] = x
        BY <3>1, <3>4 DEF Elems
      <4>. QED
        BY <3>1, <3>2, <4>1
    <3>5. ASSUME NEW i \in from..to
          PROVE  KeyOrder[i] \in Elems(order)
      <4>1. order[i - from + 1] = KeyOrder[i]
        BY <3>1, <3>2
      <4>. QED
        BY <3>1, <3>2, <4>1 DEF Elems
    <3>. QED
      BY <3>3, <3>4, <3>5
  <2>2. CASE to < from
    <3>1. order = <<>> /\ from..to = {}
      BY <1>1, <2>2
    <3>2. Elems(<<>>) = {} /\ <<>> \in Seq(Name)
      BY DEF Elems
    <3>. QED
      BY <3>1, <3>2
  <2>. QED
    BY <2>1, <2>2
<1>. HIDE DEF order
<1>4. keys \in Seq(Name) /\ Elems(keys) = Elems(order) \cap there
  BY <1>3, InOrderLists
<1>5. Page(from, to) = list
  BY DEF Page, Keys, order
<1>. HIDE DEF keys
<1>6. \A i \in DOMAIN keys :
        /\ keys[i] \in Name /\ Has(params, keys[i])
        /\ \E j \in from..to : KeyOrder[j] = keys[i]
  BY <1>3, <1>4 DEF Elems
<1>7. \A i \in DOMAIN keys : Exported(params[keys[i]]) \in Request
  BY <1>6, ExportedFacts
<1>8. list \in Seq(Request)
  <2>1. DOMAIN keys = 1..Len(keys) /\ Len(keys) \in Nat
    BY <1>4
  <2>. QED
    BY <1>7, <2>1
<1>9. \A i \in from..to : Has(params, KeyOrder[i]) =>
        \E j \in DOMAIN keys : keys[j] = KeyOrder[i]
  <2>1. ASSUME NEW i \in from..to, Has(params, KeyOrder[i])
        PROVE  KeyOrder[i] \in Elems(keys)
    BY <1>2, <1>3, <1>4, <2>1
  <2>. QED
    BY <2>1 DEF Elems
<1>10. DOMAIN list = DOMAIN keys
       /\ \A i \in DOMAIN keys : list[i] = Exported(params[keys[i]])
  OBVIOUS
<1>. HIDE DEF list
<1>11. ASSUME NEW e \in Elems(list)
       PROVE  \E i \in from..to :
                /\ KeyOrder[i] \in Name /\ Has(params, KeyOrder[i])
                /\ e = Exported(params[KeyOrder[i]])
  BY <1>6, <1>10 DEF Elems
<1>. QED
  BY <1>5, <1>8, <1>9, <1>10, <1>11 DEF Elems

LEMMA ElemsConcat ==
  ASSUME NEW S, NEW s \in Seq(S), NEW r \in Seq(S)
  PROVE  s \o r \in Seq(S) /\ Elems(s \o r) = Elems(s) \cup Elems(r)
<1>. DEFINE g == s \o r
<1>1. /\ g \in Seq(S) /\ Len(s) \in Nat /\ Len(r) \in Nat
      /\ DOMAIN s = 1..Len(s) /\ DOMAIN r = 1..Len(r)
      /\ DOMAIN g = 1..(Len(s) + Len(r))
      /\ \A i \in 1..Len(s) : g[i] = s[i]
      /\ \A i \in 1..Len(r) : g[Len(s) + i] = r[i]
  OBVIOUS
<1>. HIDE DEF g
<1>2. /\ \A i \in DOMAIN g : \/ i \in DOMAIN s
                             \/ i - Len(s) \in DOMAIN r /\ Len(s) + (i - Len(s)) = i
      /\ \A i \in DOMAIN s : i \in DOMAIN g
      /\ \A i \in DOMAIN r : Len(s) + i \in DOMAIN g
  BY <1>1
<1>3. ASSUME NEW x \in Elems(g)
      PROVE  x \in Elems(s) \cup Elems(r)
  <2>1. PICK i \in DOMAIN g : g[i] = x
    BY DEF Elems
  <2>2. CASE i \in DOMAIN s
    BY <1>1, <2>1, <2>2 DEF Elems
  <2>3. CASE i - Len(s) \in DOMAIN r /\ Len(s) + (i - Len(s)) = i
    <3>1. r[i - Len(s)] = x
      BY <1>1, <2>1, <2>3
    <3>. QED
      BY <2>3, <3>1 DEF Elems
  <2>. QED
    BY <1>2, <2>2, <2>3
<1>4. ASSUME NEW x \in Elems(s) \cup Elems(r)
      PROVE  x \in Elems(g)
  BY <1>1, <1>2, <1>4 DEF Elems
<1>. QED
  BY <1>1, <1>3, <1>4 DEF g

(* What the pages up to a place make of the parameters.                    *)
UpTo(list, from) ==
  /\ list \in Seq(Request)
  /\ \A e \in Elems(list) :
       Importable(e) /\ \E i \in 1..(from - 1) : KeyOrder[i] = e.name
  /\ \A e, f \in Elems(list) : e.name = f.name => e = f
  /\ \A n \in Name : n.base \notin touched' =>
       /\ \A e \in Elems(list) : e.name = n => Reads(n, e)
       /\ Has(params, n) /\ (\E i \in 1..(from - 1) : KeyOrder[i] = n) =>
            \E e \in Elems(list) : e.name = n

LEMMA UpToNext ==
  ASSUME IInv, LegalInv, NEW list, NEW from \in Nat \ {0}, NEW to \in Nat,
         to <= Len(KeyOrder), from <= to + 1, UpTo(list, from)
  PROVE  UpTo(list \o Page(from, to), to + 1)
<1>. DEFINE page == Page(from, to)
            all == list \o page
<1>1. /\ page \in Seq(Request)
      /\ \A e \in Elems(page) : \E i \in from..to :
           /\ KeyOrder[i] \in Name /\ Has(params, KeyOrder[i])
           /\ e = Exported(params[KeyOrder[i]])
      /\ \A i \in from..to : Has(params, KeyOrder[i]) =>
           Exported(params[KeyOrder[i]]) \in Elems(page)
  BY PageFacts
<1>. HIDE DEF page
<1>2. all \in Seq(Request) /\ Elems(all) = Elems(list) \cup Elems(page)
  BY <1>1, ElemsConcat DEF UpTo
<1>. HIDE DEF all
<1>3. \A e \in Elems(page) :
        /\ Importable(e) /\ e.name \in Name /\ Reads(e.name, e)
        /\ e = Exported(params[e.name])
        /\ \E i \in from..to : KeyOrder[i] = e.name
  BY <1>1, ExportedFacts
<1>4. \A i \in 1..((to + 1) - 1) : i \in 1..(from - 1) \/ i \in from..to
  OBVIOUS
<1>5. /\ \A i \in 1..(from - 1) : i \in 1..((to + 1) - 1)
      /\ \A i \in from..to : i \in 1..((to + 1) - 1)
      /\ \A i \in 1..(from - 1), j \in from..to :
           KeyOrder[i] # KeyOrder[j]
  <2>1. KeyOrder \in Seq(Name) /\ Distinct(KeyOrder)
    BY DbAssumption DEF DbAssumption
  <2>2. DOMAIN KeyOrder = 1..Len(KeyOrder) /\ Len(KeyOrder) \in Nat
    BY <2>1
  <2>3. ASSUME NEW i \in 1..(from - 1), NEW j \in from..to
        PROVE  KeyOrder[i] # KeyOrder[j]
    <3>1. i \in DOMAIN KeyOrder /\ j \in DOMAIN KeyOrder /\ i # j
      BY <2>2
    <3>. QED
      BY <2>1, <3>1 DEF Distinct
  <2>. QED
    BY <2>3
<1>6. ASSUME NEW e \in Elems(all)
      PROVE  Importable(e) /\ \E i \in 1..((to + 1) - 1) : KeyOrder[i] = e.name
  BY <1>2, <1>3, <1>5, <1>6 DEF UpTo
<1>7. ASSUME NEW e \in Elems(all), NEW f \in Elems(all), e.name = f.name
      PROVE  e = f
  BY <1>2, <1>3, <1>5, <1>7 DEF UpTo
<1>8. ASSUME NEW n \in Name, n.base \notin touched'
      PROVE  /\ \A e \in Elems(all) : e.name = n => Reads(n, e)
             /\ Has(params, n) /\ (\E i \in 1..((to + 1) - 1) : KeyOrder[i] = n) =>
                  \E e \in Elems(all) : e.name = n
  <2>1. \A e \in Elems(all) : e.name = n => Reads(n, e)
    BY <1>2, <1>3, <1>8 DEF UpTo
  <2>2. ASSUME Has(params, n), NEW i \in 1..((to + 1) - 1), KeyOrder[i] = n
        PROVE  \E e \in Elems(all) : e.name = n
    <3>1. CASE i \in 1..(from - 1)
      BY <1>2, <1>8, <2>2, <3>1 DEF UpTo
    <3>2. CASE i \in from..to
      <4>1. Exported(params[n]) \in Elems(page)
        BY <1>1, <2>2, <3>2
      <4>2. Exported(params[n]).name = n
        BY <2>2, ExportedFacts
      <4>. QED
        BY <1>2, <4>1, <4>2
    <3>. QED
      BY <1>4, <3>1, <3>2
  <2>. QED
    BY <2>1, <2>2
<1>9. UpTo(all, to + 1)
  BY <1>2, <1>6, <1>7, <1>8 DEF UpTo
<1>. QED
  BY <1>9 DEF all, page

(* A turn of the loop that reads the pages.                                *)
LEMMA TurnKeeps ==
  ASSUME IInv, LegalInv, NEW list, NEW from \in Nat \ {0},
         from <= Len(KeyOrder) + 1, UpTo(list, from),
         GetAllParameters(list, from), UNCHANGED params
  PROVE  JobPart'
<1>0. Len(KeyOrder) \in Nat /\ DOMAIN KeyOrder = 1..Len(KeyOrder)
      /\ \A n \in Name : \E i \in DOMAIN KeyOrder : KeyOrder[i] = n
  BY DbAssumption DEF DbAssumption
<1>1. ASSUME NEW all, NEW to \in Nat, UpTo(all, to),
             NEW pc \in {"params", "toZones"}, NEW todo,
             job' = Job(pc, <<SsmFile(all)>>, todo),
             pc = "params" => to \in DOMAIN KeyOrder /\ todo = <<to>>,
             pc = "toZones" => to = Len(KeyOrder) + 1
      PROVE  JobPart'
  <2>. DEFINE g == <<SsmFile(all)>>
  <2>1. /\ ArchiveOK(g) /\ Len(g) = 1
        /\ Left(g, "ssm") = Elems(all)
    BY <1>1, StartArchive DEF UpTo
  <2>. HIDE DEF g
  <2>2. job' = Job(pc, g, todo)
    BY <1>1 DEF g
  <2>3. /\ job'.pc = pc /\ job'.files = g /\ job'.todo = todo
        /\ job'.skipped \in SUBSET Thing /\ job'.wiped \in SUBSET Stores
        /\ DOMAIN job' = Fields
    BY <2>2, NewJob
  <2>4. job'.pc \in Exporting /\ job'.pc \notin {"zones", "states", "exported"}
    BY <2>3 DEF Exporting
  <2>5. JobInv'
    <3>1. job'.pc = "params" => \E i \in DOMAIN KeyOrder : job'.todo = <<i>>
      BY <1>1, <2>3
    <3>. QED
      BY <2>1, <2>3, <2>4, <3>1, ExportJobInv
  <2>6. Archived("ssm")' = Elems(all)
    BY <2>1, <2>3 DEF Archived
  <2>7. ASSUME NEW n
        PROVE  /\ (\E i \in 1..(to - 1) : KeyOrder[i] = n) => Paged(n)'
               /\ n \in Name /\ Paged(n)' =>
                    \E i \in 1..(to - 1) : KeyOrder[i] = n
    <3>1. CASE pc = "params"
      <4>1. Head(todo) = to
        BY <1>1, <3>1
      <4>. QED
        BY <2>3, <3>1, <4>1 DEF Paged
    <3>2. CASE pc = "toZones"
      <4>1. Paged(n)' /\ to - 1 = Len(KeyOrder)
        BY <1>0, <1>1, <2>3, <3>2 DEF Paged
      <4>. QED
        BY <1>0, <4>1
    <3>. QED
      BY <3>1, <3>2
  <2>8. /\ \A n : Has(params, n)' <=> Has(params, n)
        /\ \A n, e : Reads(n, e)' <=> Reads(n, e)
    BY DEF Has, Reads
  <2>9. ParamsOut'
    BY <1>1, <2>6, <2>7, <2>8 DEF ParamsOut, UpTo
  <2>10. ZonesOut' /\ StatesOut'
    BY <2>4 DEF ZonesOut, StatesOut
  <2>. QED
    BY <2>4, <2>5, <2>9, <2>10, ExportingOnly DEF JobPart
<1>2. ASSUME NEW to \in from..Len(KeyOrder),
             Collected("params", list \o Page(from, to - 1), <<to>>)
      PROVE  JobPart'
  <2>1. /\ to - 1 \in Nat /\ to - 1 <= Len(KeyOrder) /\ from <= (to - 1) + 1
        /\ (to - 1) + 1 = to /\ to \in Nat /\ to \in DOMAIN KeyOrder
    BY <1>0
  <2>2. UpTo(list \o Page(from, to - 1), to)
    <3>1. UpTo(list \o Page(from, to - 1), (to - 1) + 1)
      BY <2>1, UpToNext
    <3>. QED
      BY <2>1, <3>1
  <2>. QED
    BY <1>1, <1>2, <2>1, <2>2 DEF Collected
<1>3. ASSUME Collected("toZones", list \o Page(from, Len(KeyOrder)), <<>>)
      PROVE  JobPart'
  <2>1. UpTo(list \o Page(from, Len(KeyOrder)), Len(KeyOrder) + 1)
    BY <1>0, UpToNext
  <2>2. Len(KeyOrder) + 1 \in Nat
    BY <1>0
  <2>. QED
    BY <1>1, <1>3, <2>1, <2>2 DEF Collected
<1>. QED
  BY <1>2, <1>3 DEF GetAllParameters

LEMMA ExportAllKeeps ==
  ASSUME IInv, LegalInv, ExportAll
  PROVE  JobPart'
<1>1. /\ GetAllParameters(<<>>, 1) /\ UNCHANGED params
      /\ 1 <= Len(KeyOrder) + 1
  BY DbAssumption DEF ExportAll, vars, DbAssumption
<1>2. Elems(<<>>) = {} /\ <<>> \in Seq(Request) /\ 1..(1 - 1) = {}
  BY DEF Elems
<1>3. UpTo(<<>>, 1)
  BY <1>2 DEF UpTo
<1>. QED
  BY <1>1, <1>3, TurnKeeps

LEMMA NextPageKeeps ==
  ASSUME IInv, LegalInv, JobPart, NextPage
  PROVE  JobPart'
<1>. DEFINE list == job.files[1].list
            from == Head(job.todo)
<1>1. /\ job.pc = "params" /\ JobInv /\ ParamsOut
      /\ GetAllParameters(list, from) /\ UNCHANGED <<params, touched>>
  BY DEF NextPage, JobPart, vars
<1>2. PICK to \in DOMAIN KeyOrder : job.todo = <<to>>
  BY <1>1, JobFacts
<1>3. /\ from = to /\ from \in Nat \ {0} /\ from <= Len(KeyOrder) + 1
  BY <1>2, DbAssumption DEF DbAssumption
<1>4. ArchiveOK(job.files)
  BY <1>1, JobFacts
<1>5. list \in Seq(Request) /\ Archived("ssm") = Elems(list)
  BY <1>4, LeftOfArchive DEF Archived
<1>. HIDE DEF list
<1>6. /\ \A e \in Elems(list) : Importable(e)
      /\ \A e, f \in Elems(list) : e.name = f.name => e = f
  BY <1>4, <1>5 DEF ArchiveOK, OneOfEach, Archived
<1>7. \A n : Paged(n) <=> \E i \in 1..(from - 1) : KeyOrder[i] = n
  BY <1>1 DEF Paged
<1>. HIDE DEF from
<1>8. UpTo(list, from)
  BY <1>1, <1>5, <1>6, <1>7 DEF UpTo, ParamsOut, Exporting
<1>. QED
  BY <1>1, <1>3, <1>8, TurnKeeps

LEMMA ListZonesKeeps ==
  ASSUME JobPart, ListZones
  PROVE  JobPart'
<1>. DEFINE there == {z \in Zone : Has(zones, z)}
            todo == InOrder(ZoneOrder, there)
            g == Append(job.files, Route53File(<<>>))
<1>1. job.pc = "toZones" /\ JobInv
  BY DEF ListZones, JobPart
<1>2. ArchiveOK(job.files) /\ Len(job.files) = 1
  BY <1>1, JobFacts
<1>3. /\ ArchiveOK(g) /\ Len(g) = 2
      /\ \A name : Left(g, name) = Left(job.files, name)
      /\ Left(g, "route53") = {}
  <2>1. /\ ArchiveOK(g) /\ Len(g) = 2
        /\ \A name : Left(g, name) = Left(job.files, name)
    BY <1>2, AppendZones
  <2>2. Left(job.files, "route53") = {}
    BY <1>2, LeftOfArchive
  <2>. QED
    BY <2>1, <2>2
<1>4. todo \in Seq(Zone) /\ Elems(todo) = there /\ Distinct(todo)
  <2>1. /\ ZoneOrder \in Seq(Zone) /\ Distinct(ZoneOrder)
        /\ Elems(ZoneOrder) = Zone
    BY DbAssumption DEF DbAssumption, Elems, Zone
  <2>. HIDE DEF there
  <2>2. todo \in Seq(Zone) /\ Elems(todo) = Zone \cap there /\ Distinct(todo)
    BY <2>1, InOrderLists
  <2>3. there \subseteq Zone
    BY DEF there
  <2>. QED
    BY <2>2, <2>3
<1>5. job' = Job("zones", g, todo) /\ UNCHANGED <<params, zones, touched>>
  BY DEF ListZones, vars, db
<1>. HIDE DEF g, todo
<1>6. /\ job'.pc = "zones" /\ job'.files = g /\ job'.todo = todo
      /\ job'.skipped \in SUBSET Thing /\ job'.wiped \in SUBSET Stores
      /\ DOMAIN job' = Fields /\ job'.pc \in Exporting
  <2>1. "zones" \in Exporting
    BY DEF Exporting
  <2>. QED
    BY <1>5, <2>1, NewJob
<1>7. JobInv'
  <2>1. ArchiveOK(job'.files) /\ Len(job'.files) = 2 /\ Len(job'.files) # 1
    BY <1>3, <1>6
  <2>2. job'.todo \in Seq(Zone) /\ Distinct(job'.todo)
    BY <1>4, <1>6
  <2>3. job'.pc \notin {"params", "toZones"} /\ job'.pc # "states"
    BY <1>6
  <2>. QED
    BY <1>6, <2>1, <2>2, <2>3, ExportJobInv
<1>8. ParamsOut'
  BY <1>1, <1>3, <1>5, <1>6
     DEF JobPart, ParamsOut, Archived, Reads, Has, Exporting, Paged
<1>9. ZonesOut'
  BY <1>3, <1>4, <1>5, <1>6 DEF ZonesOut, Archived, ToExport, Has
<1>10. StatesOut' /\ LeftIn' /\ OnlyIn' /\ BackIn'
  BY <1>6, ExportingOnly DEF StatesOut
<1>. QED
  BY <1>7, <1>8, <1>9, <1>10 DEF JobPart

LEMMA ExportZoneKeeps ==
  ASSUME JobPart, StoresTyped, ExportZone
  PROVE  JobPart'
<1>. DEFINE z == Head(job.todo)
            rest == Tail(job.todo)
            e == [zone |-> z, records |-> RecordsOf(z)]
            g == [job.files EXCEPT ![2] = Route53File(Append(job.files[2].list, e))]
<1>1. job.pc = "zones" /\ job.todo # <<>> /\ JobInv
  BY DEF ExportZone, JobPart
<1>2. /\ ArchiveOK(job.files) /\ Len(job.files) = 2
      /\ job.todo \in Seq(Zone) /\ Distinct(job.todo)
      /\ job.skipped \in SUBSET Thing /\ job.wiped \in SUBSET Stores
      /\ DOMAIN job = Fields
  BY <1>1, JobFacts
<1>3. /\ z \in Zone /\ rest \in Seq(Zone)
      /\ Elems(job.todo) = {z} \cup Elems(rest)
      /\ Distinct(rest) /\ z \notin Elems(rest)
  BY <1>1, <1>2, ElemsTail
<1>4. RecordsOf(z) \in SUBSET Record
  BY <1>3 DEF RecordsOf, StoresTyped, Has
<1>5. e \in ZoneExport /\ e.zone = z /\ e.records = RecordsOf(z)
  BY <1>3, <1>4 DEF ZoneExport
<1>6. \A f \in Left(job.files, "route53") : f.zone \notin Elems(job.todo)
  BY <1>1 DEF JobPart, ZonesOut, Archived, ToExport
<1>7. /\ g = [job.files EXCEPT ![2].list = Append(@, e)]
      /\ ArchiveOK(g) /\ Len(g) = Len(job.files)
      /\ Left(g, "ssm") = Left(job.files, "ssm")
      /\ Left(g, "route53") = Left(job.files, "route53") \cup {e}
  <2>. HIDE DEF e
  <2>1. \A f \in Left(job.files, "route53") : f.zone # e.zone
    BY <1>3, <1>5, <1>6
  <2>. QED
    <3>1. ArchiveOK(job.files) /\ Len(job.files) >= 2 /\ e \in ZoneExport
      BY <1>2, <1>5
    <3>. HIDE DEF z
    <3>. QED
      BY <2>1, <3>1, AppendZone
<1>8. job' = [job EXCEPT !.files[2].list = Append(@, e), !.todo = rest]
  BY DEF ExportZone
<1>9. UNCHANGED <<params, zones, touched>>
  BY DEF ExportZone, vars, db
<1>10. /\ job'.pc = "zones" /\ job'.files = g /\ job'.todo = rest
       /\ job'.skipped = job.skipped /\ job'.wiped = job.wiped
       /\ DOMAIN job' = Fields /\ job'.pc \in Exporting
  <2>. HIDE DEF g, rest, e
  <2>1. /\ job'.pc = "zones" /\ job'.todo = rest /\ job'.skipped = job.skipped
        /\ job'.files = [job.files EXCEPT ![2].list = Append(@, e)]
        /\ job'.wiped = job.wiped
        /\ DOMAIN job' = Fields /\ "zones" \in Exporting
    BY <1>1, <1>2, <1>8 DEF Fields, Exporting
  <2>. QED
    BY <1>7, <2>1
<1>. HIDE DEF g, e, rest, z
<1>11. JobInv'
  BY <1>2, <1>3, <1>7, <1>10, ExportJobInv
<1>12. ParamsOut'
  <2>1. Archived("ssm")' = Archived("ssm")
    BY <1>7, <1>10 DEF Archived
  <2>. QED
    BY <1>1, <1>9, <1>10, <2>1 DEF JobPart, ParamsOut, Reads, Has, Paged, Exporting
<1>13. ZonesOut'
  <2>1. ToExport("zones") = {z} \cup Elems(rest) /\ ToExport("zones")' = Elems(rest)
    BY <1>1, <1>3, <1>10 DEF ToExport
  <2>2. Archived("route53")' = Archived("route53") \cup {e}
    BY <1>7, <1>10 DEF Archived
  <2>3. \A f \in Archived("route53")' : f.zone \notin ToExport("zones")'
    BY <1>3, <1>5, <1>6, <2>1, <2>2 DEF Archived
  <2>4. ASSUME NEW y \in Zone, y \notin touched
        PROVE  /\ \A f \in Archived("route53")' : f.zone = y => zones[y] = f.records
               /\ y \in ToExport("zones")' => Has(zones, y)
               /\ Has(zones, y) => \/ y \in ToExport("zones")'
                                   \/ \E f \in Archived("route53")' : f.zone = y
    <3>1. /\ \A f \in Archived("route53") : f.zone = y => zones[y] = f.records
          /\ y \in ToExport("zones") => Has(zones, y)
          /\ Has(zones, y) => \/ y \in ToExport("zones")
                              \/ \E f \in Archived("route53") : f.zone = y
      BY <1>1, <2>4 DEF JobPart, ZonesOut
    <3>2. y = z => zones[y] = e.records
      BY <1>5, <2>1, <3>1 DEF RecordsOf
    <3>. QED
      BY <1>5, <2>1, <2>2, <3>1, <3>2
  <2>. QED
    BY <1>9, <2>3, <2>4 DEF ZonesOut, Has
<1>14. StatesOut' /\ LeftIn' /\ OnlyIn' /\ BackIn'
  BY <1>10, ExportingOnly DEF StatesOut
<1>. QED
  BY <1>11, <1>12, <1>13, <1>14 DEF JobPart

LEMMA ListStateFilesKeeps ==
  ASSUME JobPart, ListStateFiles
  PROVE  JobPart'
<1>. DEFINE there == {p \in Project : Has(states, p)}
            todo == InOrder(FileOrder, there)
<1>1. job.pc = "zones" /\ job.todo = <<>> /\ JobInv
  BY DEF ListStateFiles, JobPart
<1>2. /\ ArchiveOK(job.files) /\ Len(job.files) = 2
      /\ job.skipped \in SUBSET Thing /\ job.wiped \in SUBSET Stores
      /\ DOMAIN job = Fields
  BY <1>1, JobFacts
<1>3. todo \in Seq(Project) /\ Elems(todo) = there /\ Distinct(todo)
  <2>1. /\ FileOrder \in Seq(Project) /\ Distinct(FileOrder)
        /\ Elems(FileOrder) = Project
    BY DbAssumption DEF DbAssumption, Elems, Project
  <2>. HIDE DEF there
  <2>2. todo \in Seq(Project) /\ Elems(todo) = Project \cap there /\ Distinct(todo)
    BY <2>1, InOrderLists
  <2>3. there \subseteq Project
    BY DEF there
  <2>. QED
    BY <2>2, <2>3
<1>4. job' = [job EXCEPT !.pc = "states", !.todo = todo]
      /\ UNCHANGED <<params, zones, states, touched>>
  BY DEF ListStateFiles, vars, db
<1>. HIDE DEF todo
<1>6. /\ job'.pc = "states" /\ job'.files = job.files /\ job'.todo = todo
      /\ job'.skipped = job.skipped /\ job'.wiped = job.wiped
      /\ DOMAIN job' = Fields /\ job'.pc \in Exporting
  BY <1>2, <1>4 DEF Fields, Exporting
<1>7. JobInv'
  <2>1. /\ Len(job'.files) # 1 /\ ArchiveOK(job'.files)
        /\ job'.skipped \in SUBSET Thing /\ job'.wiped \in SUBSET Stores
    BY <1>2, <1>6
  <2>2. job'.todo \in Seq(Project) /\ Distinct(job'.todo)
    BY <1>3, <1>6
  <2>. QED
    BY <1>6, <2>1, <2>2, ExportJobInv
<1>8. ParamsOut'
  BY <1>1, <1>4, <1>6
     DEF JobPart, ParamsOut, Archived, Reads, Has, Exporting, Paged
<1>9. ZonesOut'
  <2>1. ToExport("zones") = {} /\ ToExport("zones")' = {}
    BY <1>1, <1>6 DEF ToExport, Elems
  <2>2. Archived("route53")' = Archived("route53")
    BY <1>6 DEF Archived
  <2>. QED
    BY <1>1, <1>4, <1>6, <2>1, <2>2 DEF JobPart, ZonesOut, Has
<1>10. StatesOut'
  <2>1. ToExport("states")' = there
    BY <1>3, <1>6 DEF ToExport
  <2>2. Archived("tfstate")' = {}
    <3>1. Left(job.files, "tfstate") = {job.files[i] : i \in 3..2}
      BY <1>2, LeftOfArchive
    <3>2. \A i \in 3..2 : FALSE
      OBVIOUS
    <3>3. Left(job.files, "tfstate") = {}
      BY <3>1, <3>2
    <3>. QED
      BY <1>6, <3>3 DEF Archived
  <2>. QED
    BY <1>4, <1>6, <2>1, <2>2 DEF StatesOut, Has
<1>11. LeftIn' /\ OnlyIn' /\ BackIn'
  BY <1>6, ExportingOnly
<1>. QED
  BY <1>7, <1>8, <1>9, <1>10, <1>11 DEF JobPart

LEMMA ExportStateKeeps ==
  ASSUME JobPart, StoresTyped, ExportState
  PROVE  JobPart'
<1>. DEFINE p == Head(job.todo)
            rest == Tail(job.todo)
            file == StateFile(p, states[p])
            g == Append(job.files, file)
<1>1. job.pc = "states" /\ job.todo # <<>> /\ JobInv
  BY DEF ExportState, JobPart
<1>2. /\ ArchiveOK(job.files) /\ Len(job.files) >= 2 /\ Len(job.files) # 1
      /\ job.todo \in Seq(Project) /\ Distinct(job.todo)
      /\ job.skipped \in SUBSET Thing /\ job.wiped \in SUBSET Stores
      /\ DOMAIN job = Fields
  BY <1>1, JobFacts
<1>3. /\ p \in Project /\ rest \in Seq(Project)
      /\ Elems(job.todo) = {p} \cup Elems(rest)
      /\ Distinct(rest) /\ p \notin Elems(rest)
  BY <1>1, <1>2, ElemsTail
<1>4. UNCHANGED <<params, zones, states, touched>>
  BY DEF ExportState, vars, db
<1>5. /\ \A f \in Archived("tfstate") : f.project \notin Elems(job.todo)
      /\ \A q \in Project \ touched :
           /\ \A f \in Archived("tfstate") : f.project = q => states[q] = f.body
           /\ Has(states, q) => \/ q \in Elems(job.todo) \cup job.skipped
                                \/ \E f \in Archived("tfstate") : f.project = q
  BY <1>1 DEF JobPart, StatesOut, ToExport
<1>6. ASSUME job'.pc = "states", job'.todo = rest, DOMAIN job' = Fields,
             ArchiveOK(job'.files), Len(job'.files) # 1,
             Archived("ssm")' = Archived("ssm"),
             Archived("route53")' = Archived("route53"),
             job'.skipped \in SUBSET Thing, job'.wiped = job.wiped,
             job.skipped \subseteq job'.skipped,
             \/ Archived("tfstate")' = Archived("tfstate") /\ p \in job'.skipped
             \/ /\ Archived("tfstate")' = Archived("tfstate") \cup {file}
                /\ file.project = p /\ file.body = states[p]
      PROVE  JobPart'
  <2>1. JobInv'
    <3>1. job'.pc \in Exporting /\ job'.wiped \in SUBSET Stores
      BY <1>2, <1>6 DEF Exporting
    <3>2. job'.todo \in Seq(Project) /\ Distinct(job'.todo)
      BY <1>3, <1>6
    <3>. HIDE DEF rest
    <3>. QED
      BY <1>6, <3>1, <3>2, ExportJobInv
  <2>2. ParamsOut'
    BY <1>1, <1>4, <1>6 DEF JobPart, ParamsOut, Reads, Has, Paged, Exporting
  <2>3. ZonesOut'
    <3>1. ToExport("zones") = {} /\ ToExport("zones")' = {}
      BY <1>1, <1>6 DEF ToExport
    <3>. QED
      BY <1>1, <1>4, <1>6, <3>1 DEF JobPart, ZonesOut, Has
  <2>4. StatesOut'
    <3>1. ToExport("states")' = Elems(rest)
      BY <1>6 DEF ToExport
    <3>2. \A f \in Archived("tfstate")' : f \in Archived("tfstate") \/ f = file
      BY <1>6
    <3>. HIDE DEF rest, file, p
    <3>3. \A f \in Archived("tfstate")' : f.project \notin Elems(rest)
      BY <1>3, <1>5, <1>6, <3>2
    <3>4. ASSUME NEW q \in Project, q \notin touched
          PROVE  /\ \A f \in Archived("tfstate")' : f.project = q => states[q] = f.body
                 /\ Has(states, q) =>
                      \/ q \in Elems(rest) \cup job'.skipped
                      \/ \E f \in Archived("tfstate")' : f.project = q
      BY <1>3, <1>5, <1>6, <3>2, <3>4
    <3>. QED
      BY <1>4, <3>1, <3>3, <3>4 DEF StatesOut, Has
  <2>5. LeftIn' /\ OnlyIn' /\ BackIn'
    <3>1. job'.pc \in Exporting
      BY <1>6 DEF Exporting
    <3>. QED
      BY <3>1, ExportingOnly
  <2>. QED
    BY <2>1, <2>2, <2>3, <2>4, <2>5 DEF JobPart
<1>7. CASE /\ Has(states, p)
           /\ job' = [job EXCEPT !.files = Append(@, file), !.todo = rest]
  <2>. HIDE DEF rest, file, p
  <2>1. /\ job'.pc = "states" /\ job'.todo = rest /\ DOMAIN job' = Fields
        /\ job'.files = g /\ job'.skipped = job.skipped
        /\ job'.wiped = job.wiped
    BY <1>1, <1>2, <1>7 DEF Fields
  <2>2. states[p] \in SavedBody
    BY <1>3, <1>7 DEF StoresTyped, Has
  <2>3. \A f \in Left(job.files, "tfstate") : f.project # p
    BY <1>3, <1>5 DEF Archived
  <2>4. /\ ArchiveOK(g) /\ Len(g) >= 2
        /\ Left(g, "ssm") = Left(job.files, "ssm")
        /\ Left(g, "route53") = Left(job.files, "route53")
        /\ Left(g, "tfstate") = Left(job.files, "tfstate") \cup {file}
    <3>1. ArchiveOK(job.files) /\ Len(job.files) >= 2 /\ p \in Project
      BY <1>2, <1>3, Zenon
    <3>. QED
      BY <2>2, <2>3, <3>1, AppendState DEF file
  <2>5. file.project = p /\ file.body = states[p]
    BY HoldsFacts DEF file
  <2>. HIDE DEF g
  <2>6. /\ Archived("ssm")' = Archived("ssm")
        /\ Archived("route53")' = Archived("route53")
        /\ Archived("tfstate")' = Archived("tfstate") \cup {file}
        /\ ArchiveOK(job'.files)
    BY <2>1, <2>4 DEF Archived
  <2>7. Len(job'.files) # 1
    <3>1. Len(g) \in Nat
      BY <2>4 DEF ArchiveOK
    <3>2. \A n \in Nat : n >= 2 => n # 1
      OBVIOUS
    <3>. QED
      BY <2>1, <2>4, <3>1, <3>2, Zenon
  <2>8. job'.skipped \in SUBSET Thing /\ job.skipped \subseteq job'.skipped
    BY <1>2, <2>1
  <2>. QED
    BY <1>6, <2>1, <2>5, <2>6, <2>7, <2>8
<1>8. CASE job' = [job EXCEPT !.skipped = @ \cup {p}, !.todo = rest]
  <2>. HIDE DEF rest
  <2>1. /\ job'.pc = "states" /\ job'.todo = rest /\ DOMAIN job' = Fields
        /\ job'.files = job.files /\ job'.skipped = job.skipped \cup {p}
        /\ job'.wiped = job.wiped
    BY <1>1, <1>2, <1>8 DEF Fields
  <2>. HIDE DEF p
  <2>2. /\ Archived("ssm")' = Archived("ssm")
        /\ Archived("route53")' = Archived("route53")
        /\ Archived("tfstate")' = Archived("tfstate")
        /\ ArchiveOK(job'.files) /\ Len(job'.files) # 1
        /\ job'.skipped \in SUBSET Thing /\ job.skipped \subseteq job'.skipped
        /\ p \in job'.skipped
    BY <1>2, <1>3, <2>1 DEF Archived, Thing
  <2>. QED
    BY <1>6, <2>1, <2>2
<1>. QED
  BY <1>7, <1>8 DEF ExportState

(* Steps that change nothing but how far the job is.                       *)
LEMMA EndExportKeeps ==
  ASSUME JobPart, EndExport
  PROVE  JobPart'
<1>1. job.pc = "states" /\ job.todo = <<>> /\ JobInv
  BY DEF EndExport, JobPart
<1>2. /\ ArchiveOK(job.files) /\ Len(job.files) >= 2 /\ Len(job.files) # 1
      /\ job.skipped \in SUBSET Thing /\ job.wiped \in SUBSET Stores
      /\ DOMAIN job = Fields
  BY <1>1, JobFacts
<1>3. job' = [job EXCEPT !.pc = "exported"]
      /\ UNCHANGED <<params, zones, states, touched>>
  BY DEF EndExport, vars, db
<1>4. /\ job'.pc = "exported" /\ job'.files = job.files /\ job'.todo = job.todo
      /\ job'.skipped = job.skipped /\ job'.wiped = job.wiped
      /\ DOMAIN job' = Fields /\ job'.pc \in Exporting
  BY <1>2, <1>3 DEF Fields, Exporting
<1>5. JobInv'
  BY <1>2, <1>4, ExportJobInv
<1>6. /\ \A kind : Archived(kind)' = Archived(kind)
      /\ ToExport("zones") = {} /\ ToExport("zones")' = {}
      /\ ToExport("states") = {} /\ ToExport("states")' = {}
  BY <1>1, <1>4 DEF Archived, ToExport, Elems
<1>7. ParamsOut'
  BY <1>1, <1>3, <1>4, <1>6 DEF JobPart, ParamsOut, Reads, Has, Exporting, Paged
<1>8. ZonesOut'
  BY <1>1, <1>3, <1>6 DEF JobPart, ZonesOut, Has
<1>9. StatesOut'
  BY <1>1, <1>3, <1>4, <1>6 DEF JobPart, StatesOut, Has
<1>10. LeftIn' /\ OnlyIn' /\ BackIn'
  BY <1>4, ExportingOnly
<1>. QED
  BY <1>5, <1>7, <1>8, <1>9, <1>10 DEF JobPart

-----------------------------------------------------------------------------
(* An import.                                                              *)

(* What a job that restores keeps: its archive, and the parts of the       *)
(* invariant that speak of an import.                                      *)
LEMMA RestoreStep ==
  ASSUME JobInv, job.pc \in Restoring \cup {"exported"},
         DOMAIN job' = Fields, job'.files = job.files,
         job'.pc \in Restoring,
         job'.todo \in Seq(LeftFile),
         job'.skipped \in SUBSET Thing, job'.wiped \in SUBSET Stores,
         job'.pc \in Wiping \cup {"importing", "imported"} =>
           job'.wiped = WipedBy(job'.pc),
         job'.pc = "imported" => job'.todo = <<>>,
         LeftIn', OnlyIn', BackIn'
  PROVE  JobPart'
<1>0. job.pc # "idle" /\ job.pc \notin {"params", "toZones"}
  BY DEF Restoring
<1>1. ArchiveOK(job'.files) /\ Len(job'.files) # 1
  BY <1>0, JobFacts
<1>2. /\ job'.pc \in Exporting \cup Restoring
      /\ job'.pc \notin Exporting
  BY DEF Exporting, Restoring
<1>3. job'.pc \notin {"params", "toZones", "zones", "states", "exported"}
  BY <1>2 DEF Exporting
<1>4. JobInv'
  BY <1>1, <1>2, <1>3, NewJobInv, Zenon
<1>5. ParamsOut' /\ ZonesOut' /\ StatesOut'
  BY <1>2, <1>3 DEF ParamsOut, ZonesOut, StatesOut
<1>. QED
  BY <1>4, <1>5 DEF JobPart

(* Of what has been wiped before, a step that does not write a store, or   *)
(* writes only what is in the archive, leaves it so.                       *)
LEMMA OnlyKeeps ==
  ASSUME OnlyIn, job.pc \in Restoring, job'.files = job.files,
         touched' = touched, job.skipped \subseteq job'.skipped,
         ParamsOnly' \/ /\ UNCHANGED params
                        /\ "ssm" \in job'.wiped => "ssm" \in job.wiped,
         ZonesOnly' \/ /\ UNCHANGED zones
                       /\ "route53" \in job'.wiped => "route53" \in job.wiped,
         StatesOnly' \/ /\ UNCHANGED states
                        /\ "states" \in job'.wiped => "states" \in job.wiped
  PROVE  OnlyIn'
<1>1. /\ WipedNow = job.wiped
      /\ \A what : what \in WipedNow' => what \in job'.wiped
      /\ \A kind : Archived(kind)' = Archived(kind)
  BY DEF WipedNow, Archived
<1>2. ParamsOnly'
  <2>. SUFFICES ASSUME UNCHANGED params,
                       "ssm" \in job'.wiped => "ssm" \in job.wiped
                PROVE  ParamsOnly'
    OBVIOUS
  <2>. QED
    BY <1>1 DEF OnlyIn, ParamsOnly, Reads, Has
<1>3. ZonesOnly'
  <2>. SUFFICES ASSUME UNCHANGED zones,
                       "route53" \in job'.wiped => "route53" \in job.wiped
                PROVE  ZonesOnly'
    OBVIOUS
  <2>. QED
    BY <1>1 DEF OnlyIn, ZonesOnly, Has
<1>4. StatesOnly'
  <2>. SUFFICES ASSUME UNCHANGED states,
                       "states" \in job'.wiped => "states" \in job.wiped
                PROVE  StatesOnly'
    OBVIOUS
  <2>. QED
    BY <1>1 DEF OnlyIn, StatesOnly, Has
<1>. QED
  BY <1>2, <1>3, <1>4 DEF OnlyIn

(* An import that ends with an error or is cut off.                        *)
LEMMA StopKeeps ==
  ASSUME JobInv, job.pc \in Restoring,
         DOMAIN job' = Fields, job'.files = job.files,
         job'.pc \in {"failed", "stopped"}, job'.todo = <<>>,
         job'.wiped = job.wiped, job'.skipped \in SUBSET Thing,
         OnlyIn'
  PROVE  JobPart'
<1>1. /\ job'.pc \in Restoring
      /\ job'.pc \notin Wiping \cup {"importing", "imported"}
      /\ job'.pc \notin Wiping /\ job'.pc \notin {"importing", "imported"}
      /\ job'.pc \notin Wiping \cup {"importing"}
  BY DEF Restoring, Wiping
<1>2. job'.wiped \in SUBSET Stores
  BY JobFacts DEF Restoring
<1>3. LeftIn' /\ BackIn'
  BY <1>1 DEF LeftIn, BackIn, ParamsBack, ZonesBack, StatesBack
<1>4. job'.todo \in Seq(LeftFile) /\ job'.pc # "imported"
  BY <1>1
<1>. QED
  BY <1>1, <1>2, <1>3, <1>4, RestoreStep

LEMMA StopFacts ==
  ASSUME JobInv, job.pc \in Restoring, NEW pc, Stop(pc)
  PROVE  /\ DOMAIN job' = Fields /\ job'.files = job.files
         /\ job'.pc = pc /\ job'.todo = <<>>
         /\ job'.wiped = job.wiped /\ job'.skipped = job.skipped
         /\ job'.skipped \in SUBSET Thing
<1>1. DOMAIN job = Fields /\ job.skipped \in SUBSET Thing
  BY JobFacts DEF Restoring
<1>. QED
  BY <1>1 DEF Stop, Fields

LEMMA ImportAllKeeps ==
  ASSUME JobPart, ImportAll
  PROVE  JobPart'
<1>1. /\ job.pc \in Restoring \cup {"exported"} /\ job.pc # "idle"
      /\ JobInv
  BY DEF ImportAll, JobPart, Over, Restoring
<1>2. ArchiveOK(job.files)
  BY <1>1, JobFacts
<1>3. PICK sent \in Sent(job.files) : job' = Job("wipeStates", job.files, sent)
  BY DEF ImportAll
<1>4. /\ sent \in Seq(LeftFile)
      /\ \A name : Left(sent, name) = Left(job.files, name)
  BY <1>2, SentFacts
<1>5. /\ job'.pc = "wipeStates" /\ job'.files = job.files /\ job'.todo = sent
      /\ job'.skipped \in SUBSET Thing /\ job'.wiped = {}
      /\ job'.wiped \in SUBSET Stores /\ DOMAIN job' = Fields
  BY <1>3, NewJob
<1>6. \A kind : NotYet(kind)' = Archived(kind)'
  BY <1>4, <1>5 DEF NotYet, Archived
<1>7. LeftIn' /\ BackIn'
  BY <1>5, <1>6 DEF LeftIn, BackIn, ParamsBack, ZonesBack, StatesBack
<1>8. OnlyIn'
  <2>1. WipedNow' = {}
    BY <1>5 DEF WipedNow
  <2>. QED
    BY <2>1 DEF OnlyIn, ParamsOnly, ZonesOnly, StatesOnly
<1>9. /\ job'.pc \in Restoring /\ job'.wiped = WipedBy(job'.pc)
      /\ job'.pc # "imported" /\ job'.todo \in Seq(LeftFile)
  BY <1>4, <1>5 DEF Restoring, WipedBy
<1>. QED
  BY <1>1, <1>5, <1>7, <1>8, <1>9, RestoreStep

(* Nothing is put back before all is wiped.                                *)
LEMMA WipeFacts ==
  ASSUME JobPart, job.pc \in Wiping, NEW pc \in Wiping \cup {"importing"},
         NEW what \in Stores, Wiped(what, pc),
         WipedBy(pc) = WipedBy(job.pc) \cup {what},
         OnlyIn'
  PROVE  JobPart'
<1>1. JobInv /\ job.pc \in Restoring \cup {"exported"} /\ job.pc # "idle"
  BY DEF JobPart, Wiping, Restoring
<1>2. /\ DOMAIN job = Fields /\ job.skipped \in SUBSET Thing
      /\ job.todo \in Seq(LeftFile) /\ job.wiped = WipedBy(job.pc)
      /\ job.wiped \in SUBSET Stores
  BY <1>1, JobFacts
<1>3. /\ DOMAIN job' = Fields /\ job'.pc = pc /\ job'.files = job.files
      /\ job'.todo = job.todo /\ job'.skipped = job.skipped
      /\ job'.wiped = job.wiped \cup {what}
  BY <1>2 DEF Fields, Wiped
<1>4. \A kind : Archived(kind)' = Archived(kind) /\ NotYet(kind)' = NotYet(kind)
  BY <1>3 DEF Archived, NotYet
<1>5. \A kind \in {"ssm", "route53", "tfstate"} :
        NotYet(kind) \subseteq Archived(kind) /\ Archived(kind) \subseteq NotYet(kind)
  BY DEF JobPart, LeftIn
<1>6. LeftIn'
  BY <1>4, <1>5 DEF LeftIn
<1>7. BackIn'
  <2>1. \A kind \in {"ssm", "route53", "tfstate"} :
          \A e : e \notin Archived(kind)' \ NotYet(kind)'
    BY <1>4, <1>5
  <2>. QED
    BY <2>1 DEF BackIn, ParamsBack, ZonesBack, StatesBack
<1>8. /\ job'.pc \in Restoring /\ job'.pc # "imported"
      /\ job'.wiped = WipedBy(job'.pc) /\ job'.wiped \in SUBSET Stores
      /\ job'.todo \in Seq(LeftFile) /\ job'.skipped \in SUBSET Thing
  BY <1>2, <1>3 DEF Wiping, Restoring
<1>. QED
  BY <1>1, <1>3, <1>6, <1>7, <1>8, RestoreStep

(* What a wipe changes in the record of the job.                           *)
LEMMA WipedFacts ==
  ASSUME JobInv, job.pc \in Wiping, NEW pc \in Wiping \cup {"importing"},
         NEW what \in Stores, Wiped(what, pc)
  PROVE  /\ job'.files = job.files /\ job'.skipped = job.skipped
         /\ job'.wiped = job.wiped \cup {what} /\ job'.pc = pc
         /\ job.wiped = WipedBy(job.pc) /\ job.pc \in Restoring
<1>1. job.pc # "idle" /\ job.pc \in Restoring
  BY DEF Wiping, Restoring
<1>2. DOMAIN job = Fields /\ job.wiped = WipedBy(job.pc)
  BY <1>1, JobFacts
<1>. QED
  BY <1>1, <1>2 DEF Fields, Wiped

LEMMA WipeStatesKeeps ==
  ASSUME JobPart, WipeStates
  PROVE  JobPart'
<1>1. /\ job.pc = "wipeStates" /\ job.pc \in Wiping /\ job.pc \in Restoring
      /\ JobInv /\ OnlyIn /\ UNCHANGED <<params, zones, touched>>
  BY DEF WipeStates, Wiping, Restoring, JobPart, vars
<1>2. CASE states' = EmptyBucket(Project) /\ Wiped("states", "wipeSsm")
  <2>1. /\ job'.files = job.files /\ job'.skipped = job.skipped
        /\ job'.wiped = job.wiped \cup {"states"} /\ job'.pc = "wipeSsm"
    BY <1>1, <1>2, WipedFacts DEF Wiping, Stores
  <2>2. \A p \in Project : ~Has(states, p)'
    BY <1>2 DEF EmptyBucket, Has
  <2>3. StatesOnly'
    BY <2>2 DEF StatesOnly
  <2>4. OnlyIn'
    BY <1>1, <2>1, <2>3, OnlyKeeps
  <2>5. WipedBy("wipeSsm") = WipedBy(job.pc) \cup {"states"}
    BY <1>1 DEF WipedBy
  <2>. QED
    BY <1>1, <1>2, <2>1, <2>4, <2>5, WipeFacts DEF Wiping, Stores
<1>3. ASSUME Stop("stopped")
      PROVE  JobPart'
  <2>1. /\ DOMAIN job' = Fields /\ job'.files = job.files
        /\ job'.pc = "stopped" /\ job'.todo = <<>>
        /\ job'.wiped = job.wiped /\ job'.skipped = job.skipped
        /\ job'.skipped \in SUBSET Thing
    BY <1>1, <1>3, StopFacts
  <2>2. "states" \notin job.wiped
    <3>1. job.wiped = WipedBy("wipeStates")
      BY <1>1, JobFacts
    <3>. QED
      BY <3>1 DEF WipedBy
  <2>3. StatesOnly'
    BY <2>1, <2>2 DEF StatesOnly, WipedNow
  <2>4. OnlyIn'
    BY <1>1, <2>1, <2>3, OnlyKeeps
  <2>. QED
    BY <1>1, <2>1, <2>4, StopKeeps
<1>. QED
  BY <1>2, <1>3 DEF WipeStates

(* A wipe that fails and changes nothing.                                  *)
LEMMA WipeFails ==
  ASSUME JobPart, job.pc \in Wiping, Stop("stopped"),
         UNCHANGED <<params, zones, states, touched>>
  PROVE  JobPart'
<1>1. JobInv /\ OnlyIn /\ job.pc \in Restoring
  BY DEF JobPart, Wiping, Restoring
<1>2. /\ DOMAIN job' = Fields /\ job'.files = job.files
      /\ job'.pc = "stopped" /\ job'.todo = <<>>
      /\ job'.wiped = job.wiped /\ job'.skipped = job.skipped
      /\ job'.skipped \in SUBSET Thing
  BY <1>1, StopFacts
<1>3. OnlyIn'
  BY <1>1, <1>2, OnlyKeeps
<1>. QED
  BY <1>1, <1>2, <1>3, StopKeeps

LEMMA WipeSsmKeeps ==
  ASSUME JobPart, TypeOK, WipeSsm
  PROVE  JobPart'
<1>1. /\ job.pc = "wipeSsm" /\ job.pc \in Wiping /\ job.pc \in Restoring
      /\ JobInv /\ OnlyIn /\ UNCHANGED <<zones, states, touched>>
  BY DEF WipeSsm, Wiping, Restoring, JobPart, db
<1>2. CASE DeleteAllData /\ Wiped("ssm", "wipeRoute53")
  <2>1. /\ job'.files = job.files /\ job'.skipped = job.skipped
        /\ job'.wiped = job.wiped \cup {"ssm"} /\ job'.pc = "wipeRoute53"
    BY <1>1, <1>2, WipedFacts DEF Wiping, Stores
  <2>2. \A b \in Base : ~Has(params, PathKey(b))'
    BY <1>2, PathKeyFacts DEF DeleteAllData, DeleteBucket, EmptyBucket, Has, TypeOK
  <2>3. ParamsOnly'
    BY <2>2 DEF ParamsOnly
  <2>4. OnlyIn'
    BY <1>1, <2>1, <2>3, OnlyKeeps
  <2>5. WipedBy("wipeRoute53") = WipedBy(job.pc) \cup {"ssm"}
    BY <1>1 DEF WipedBy
  <2>. QED
    BY <1>1, <1>2, <2>1, <2>4, <2>5, WipeFacts DEF Wiping, Stores
<1>3. CASE UNCHANGED vars /\ Stop("stopped")
  BY <1>1, <1>3, WipeFails DEF vars
<1>. QED
  BY <1>2, <1>3 DEF WipeSsm

LEMMA WipeRoute53Keeps ==
  ASSUME JobPart, WipeRoute53
  PROVE  JobPart'
<1>1. /\ job.pc = "wipeRoute53" /\ job.pc \in Wiping /\ job.pc \in Restoring
      /\ JobInv /\ OnlyIn /\ UNCHANGED <<params, states, touched>>
  BY DEF WipeRoute53, Wiping, Restoring, JobPart, vars
<1>2. CASE zones' = EmptyBucket(Zone) /\ Wiped("route53", "importing")
  <2>1. /\ job'.files = job.files /\ job'.skipped = job.skipped
        /\ job'.wiped = job.wiped \cup {"route53"} /\ job'.pc = "importing"
    BY <1>1, <1>2, WipedFacts DEF Stores
  <2>2. \A z \in Zone : ~Has(zones, z)'
    BY <1>2 DEF EmptyBucket, Has
  <2>3. ZonesOnly'
    BY <2>2 DEF ZonesOnly
  <2>4. OnlyIn'
    BY <1>1, <2>1, <2>3, OnlyKeeps
  <2>5. WipedBy("importing") = WipedBy(job.pc) \cup {"route53"}
    BY <1>1 DEF WipedBy, Stores
  <2>. QED
    BY <1>1, <1>2, <2>1, <2>4, <2>5, WipeFacts DEF Stores
<1>3. CASE UNCHANGED zones /\ Stop("stopped")
  BY <1>1, <1>3, WipeFails
<1>. QED
  BY <1>2, <1>3 DEF WipeRoute53

(* What a step of the loop over the archive keeps of the stores it does    *)
(* not write.                                                              *)
LEMMA ImportStep ==
  ASSUME JobPart, job.pc = "importing",
         DOMAIN job' = Fields, job'.files = job.files,
         job'.pc \in {"importing", "imported"},
         job'.todo \in Seq(LeftFile), job'.skipped \in SUBSET Thing,
         job.skipped \subseteq job'.skipped, job'.wiped = job.wiped,
         job'.pc = "imported" => job'.todo = <<>>,
         touched' = touched,
         \A kind : Left(job'.todo, kind) \subseteq Left(job.todo, kind),
         UNCHANGED params \/ ParamsOnly',
         UNCHANGED zones \/ ZonesOnly',
         UNCHANGED states \/ StatesOnly',
         \/ /\ UNCHANGED params
            /\ Left(job.todo, "ssm") \subseteq Left(job'.todo, "ssm")
         \/ ParamsBack',
         \/ /\ UNCHANGED zones
            /\ Left(job.todo, "route53") \subseteq Left(job'.todo, "route53")
         \/ ZonesBack',
         \/ /\ UNCHANGED states
            /\ Left(job.todo, "tfstate") \subseteq Left(job'.todo, "tfstate")
         \/ StatesBack'
  PROVE  JobPart'
<1>1. /\ \A kind : Archived(kind)' = Archived(kind)
      /\ \A kind : NotYet(kind)' \subseteq NotYet(kind)
      /\ job'.pc \notin Wiping
      /\ JobInv /\ OnlyIn /\ BackIn /\ LeftIn
      /\ job.pc \in Restoring /\ job'.pc \in Restoring
  BY DEF Archived, NotYet, Wiping, JobPart, Restoring
<1>2. LeftIn'
  BY <1>1 DEF LeftIn
<1>3. OnlyIn'
  BY <1>1, OnlyKeeps
<1>4. ParamsBack'
  <2>. SUFFICES ASSUME UNCHANGED params,
                       Left(job.todo, "ssm") \subseteq Left(job'.todo, "ssm")
                PROVE  ParamsBack'
    OBVIOUS
  <2>1. NotYet("ssm")' = NotYet("ssm")
    BY <1>1 DEF NotYet
  <2>. QED
    BY <1>1, <2>1 DEF BackIn, ParamsBack, Reads, Has
<1>5. ZonesBack'
  <2>. SUFFICES ASSUME UNCHANGED zones,
                       Left(job.todo, "route53") \subseteq Left(job'.todo, "route53")
                PROVE  ZonesBack'
    OBVIOUS
  <2>1. NotYet("route53")' = NotYet("route53")
    BY <1>1 DEF NotYet
  <2>. QED
    BY <1>1, <2>1 DEF BackIn, ZonesBack, Has
<1>6. StatesBack'
  <2>. SUFFICES ASSUME UNCHANGED states,
                       Left(job.todo, "tfstate") \subseteq Left(job'.todo, "tfstate")
                PROVE  StatesBack'
    OBVIOUS
  <2>1. NotYet("tfstate")' = NotYet("tfstate")
    BY <1>1 DEF NotYet
  <2>. QED
    BY <1>1, <2>1 DEF BackIn, StatesBack, Has
<1>7. /\ job'.wiped = WipedBy(job'.pc) /\ job'.wiped \in SUBSET Stores
  <2>1. job.wiped = Stores /\ job.wiped \in SUBSET Stores
    BY <1>1, JobFacts DEF WipedBy
  <2>. QED
    BY <2>1 DEF WipedBy
<1>. QED
  BY <1>1, <1>2, <1>3, <1>4, <1>5, <1>6, <1>7, RestoreStep DEF BackIn

(* One entry of the list at the head of the archive is taken off.          *)
LEMMA EntryFacts ==
  ASSUME JobInv, LeftIn, NEW kind \in {"ssm", "route53"}, AtEntry(kind),
         job'.files = job.files,
         job'.todo = [job.todo EXCEPT ![1].list = Tail(@)]
  PROVE  LET entry == Head(Head(job.todo).list)
         IN /\ job.pc = "importing" /\ job'.todo \in Seq(LeftFile)
            /\ kind = "ssm" => entry \in Request
            /\ kind = "route53" => entry \in ZoneExport
            /\ entry \in Archived(kind)
            /\ OneOfEach(job.files)
            /\ Archived(kind)' = Archived(kind)
            /\ NotYet(kind) \subseteq NotYet(kind)' \cup {entry}
            /\ \A name : /\ Left(job'.todo, name) \subseteq Left(job.todo, name)
                         /\ name # kind =>
                              Left(job.todo, name) \subseteq Left(job'.todo, name)
<1>. DEFINE entry == Head(Head(job.todo).list)
            rest == [job.todo EXCEPT ![1].list = Tail(@)]
<1>1. /\ job.pc = "importing" /\ ArchiveOK(job.files)
      /\ job.todo \in Seq(LeftFile) /\ job.todo # <<>>
      /\ Head(job.todo).name = kind /\ Head(job.todo).list # <<>>
  BY AtFileFacts DEF AtEntry
<1>2. Head(job.todo) = job.todo[1]
  BY <1>1
<1>3. /\ rest \in Seq(LeftFile)
      /\ kind = "ssm" => entry \in Request
      /\ kind = "route53" => entry \in ZoneExport
      /\ entry \in Left(job.todo, kind)
      /\ Left(job.todo, kind) \subseteq Left(rest, kind) \cup {entry}
      /\ \A name : /\ Left(rest, name) \subseteq Left(job.todo, name)
                   /\ name # kind =>
                        Left(job.todo, name) \subseteq Left(rest, name)
  <2>1. rest = [job.todo EXCEPT ![1].list = Tail(Head(job.todo).list)]
    BY <1>2
  <2>. QED
    BY <1>1, PopEntry
<1>4. entry \in Archived(kind)
  BY <1>1, <1>3 DEF LeftIn, NotYet, Archived
<1>. HIDE DEF rest, entry
<1>5. /\ Archived(kind)' = Archived(kind)
      /\ NotYet(kind) \subseteq NotYet(kind)' \cup {entry}
  BY <1>3 DEF Archived, NotYet, rest
<1>. QED
  BY <1>1, <1>3, <1>4, <1>5 DEF ArchiveOK, entry, rest

(* What a step that takes an entry off does to the record of the job.      *)
LEMMA TakenFacts ==
  ASSUME JobInv, NEW kind \in {"ssm", "route53"}, AtEntry(kind),
         NEW skipped \in SUBSET Thing,
         job' = [job EXCEPT !.todo[1].list = Tail(@), !.skipped = skipped]
  PROVE  /\ DOMAIN job' = Fields /\ job'.pc = "importing"
         /\ job.pc = "importing" /\ job'.files = job.files
         /\ job'.todo = [job.todo EXCEPT ![1].list = Tail(@)]
         /\ job'.skipped = skipped /\ job'.wiped = job.wiped
         /\ job.wiped = Stores
<1>1. DOMAIN job = Fields /\ job.wiped = Stores /\ job.pc = "importing"
  BY AtFileFacts DEF AtEntry
<1>. QED
  BY <1>1 DEF Fields

LEMMA NoneSkipped ==
  ASSUME JobInv, NEW kind \in {"ssm", "route53"}, AtEntry(kind),
         job' = [job EXCEPT !.todo[1].list = Tail(@)]
  PROVE  /\ DOMAIN job' = Fields /\ job'.pc = "importing"
         /\ job.pc = "importing" /\ job'.files = job.files
         /\ job'.todo = [job.todo EXCEPT ![1].list = Tail(@)]
         /\ job'.skipped = job.skipped /\ job'.wiped = job.wiped
         /\ job.wiped = Stores /\ job.skipped \in SUBSET Thing
<1>1. /\ DOMAIN job = Fields /\ job.wiped = Stores /\ job.pc = "importing"
      /\ job.skipped \in SUBSET Thing
  BY AtFileFacts DEF AtEntry
<1>. QED
  BY <1>1 DEF Fields

LEMMA ImportParameterKeepsJob ==
  ASSUME IInv, JobPart, ImportParameter
  PROVE  JobPart'
<1>0. PICK req, b, key :
        /\ req = Head(Head(job.todo).list)
        /\ b = req.name.base /\ key = PathKey(b)
  OBVIOUS
<1>1. JobInv /\ LeftIn /\ ParamsOnly /\ ParamsBack
  BY DEF JobPart, OnlyIn, BackIn
<1>2. /\ AtEntry("ssm")
      /\ job' = [job EXCEPT !.todo[1].list = Tail(@)]
      /\ UNCHANGED <<zones, states, touched>>
  BY DEF ImportParameter, AtEntry, db
<1>3. /\ DOMAIN job' = Fields /\ job'.pc = "importing"
      /\ job.pc = "importing" /\ job'.files = job.files
      /\ job'.todo = [job.todo EXCEPT ![1].list = Tail(@)]
      /\ job'.skipped = job.skipped /\ job'.wiped = job.wiped
      /\ job.wiped = Stores /\ job.skipped \in SUBSET Thing
  BY <1>1, <1>2, NoneSkipped
<1>4. /\ job'.todo \in Seq(LeftFile)
      /\ req \in Archived("ssm")
      /\ OneOfEach(job.files)
      /\ Archived("ssm")' = Archived("ssm")
      /\ NotYet("ssm") \subseteq NotYet("ssm")' \cup {req}
      /\ \A name : /\ Left(job'.todo, name) \subseteq Left(job.todo, name)
                   /\ name # "ssm" =>
                        Left(job.todo, name) \subseteq Left(job'.todo, name)
  BY <1>0, <1>1, <1>2, <1>3, EntryFacts
<1>5. req \in Request /\ Importable(req)
  BY <1>0, <1>1, <1>2, RequestFacts DEF AtEntry
<1>6. persistParameter(req, TRUE)
  BY <1>0, <1>5 DEF ImportParameter, Importable, Accepted, ValidName, MayPut
<1>7. b \in Base /\ key \in Name
  BY <1>0, <1>5, <1>6, PersistFacts
<1>8. PICK w : /\ params' = [params EXCEPT ![key] = w]
               /\ w # Absent /\ Plain(w) = req.value /\ w.tags = req.tags
  BY <1>0, <1>5, <1>6, PersistFacts
<1>9. /\ Has(params, key)' /\ Reads(key, req)'
      /\ \A c \in Base \ {b} :
           /\ Has(params, PathKey(c))' <=> Has(params, PathKey(c))
           /\ \A e : Reads(PathKey(c), e)' <=> Reads(PathKey(c), e)
  <2>1. params'[key] = w
    BY <1>7, <1>8 DEF IInv, TypeOK
  <2>2. Has(params, key)' /\ Reads(key, req)'
    BY <1>8, <2>1 DEF Has, Reads, Plain
  <2>3. ASSUME NEW c \in Base, c # b
        PROVE  params'[PathKey(c)] = params[PathKey(c)]
    <3>1. PathKey(c) # key /\ PathKey(c) \in Name
      BY <1>0, <1>7, <2>3, PathKeyFacts
    <3>. QED
      BY <1>8, <3>1 DEF IInv, TypeOK
  <2>. QED
    BY <2>2, <2>3 DEF Has, Reads, Plain
<1>10. \A e, f \in Archived("ssm") : e.name = f.name => e = f
  BY <1>4 DEF OneOfEach, Archived
<1>11. ParamsOnly'
  <2>1. \A c \in Base \ touched : Has(params, PathKey(c)) =>
          \E e \in Archived("ssm") : e.name.base = c /\ Reads(PathKey(c), e)
    <3>1. "ssm" \in WipedNow
      BY <1>3 DEF WipedNow, Stores, Restoring
    <3>. QED
      BY <1>1, <3>1 DEF ParamsOnly
  <2>2. ASSUME NEW c \in Base, c \notin touched, Has(params, PathKey(c))'
        PROVE  \E e \in Archived("ssm") :
                 e.name.base = c /\ Reads(PathKey(c), e)'
    BY <1>0, <1>4, <1>9, <2>1, <2>2
  <2>. QED
    BY <1>2, <1>4, <2>2 DEF ParamsOnly
<1>12. ParamsBack'
  <2>. SUFFICES
         ASSUME NEW c \in Base, c \notin touched \cup job.skipped,
                NEW e \in Archived("ssm") \ NotYet("ssm")',
                e.name = PathKey(c),
                \A f \in Archived("ssm") :
                  f.name.base = c => f.name = PathKey(c)
         PROVE  Reads(PathKey(c), e)'
    BY <1>2, <1>3, <1>4 DEF ParamsBack
  <2>1. CASE c = b
    <3>1. req.name = e.name
      BY <1>0, <1>4, <2>1
    <3>2. e = req
      BY <1>4, <1>10, <3>1
    <3>. QED
      BY <1>0, <1>9, <2>1, <3>2
  <2>2. CASE c # b
    <3>1. e # req
      BY <1>0, <2>2, PathKeyFacts
    <3>2. e \notin NotYet("ssm")
      BY <1>4, <3>1
    <3>3. Reads(PathKey(c), e)
      BY <1>1, <1>3, <3>2 DEF ParamsBack
    <3>. QED
      BY <1>9, <2>2, <3>3
  <2>. QED
    BY <2>1, <2>2
<1>. QED
  BY <1>2, <1>3, <1>4, <1>11, <1>12, ImportStep

LEMMA ImportZoneKeeps ==
  ASSUME JobPart, StoresTyped, ImportZone
  PROVE  JobPart' /\ StoresTyped'
<1>0. PICK new, records :
        /\ new = Head(Head(job.todo).list)
        /\ records = RecordsOf(new.zone) \cup new.records
  OBVIOUS
<1>1. JobInv /\ LeftIn /\ ZonesOnly /\ ZonesBack
  BY DEF JobPart, OnlyIn, BackIn
<1>2. /\ AtEntry("route53")
      /\ job' = [job EXCEPT !.todo[1].list = Tail(@)]
      /\ UNCHANGED <<params, states, touched>>
      /\ zones' = [zones EXCEPT ![new.zone] = records]
  BY <1>0 DEF ImportZone, AtEntry, vars
<1>3. /\ DOMAIN job' = Fields /\ job'.pc = "importing"
      /\ job.pc = "importing" /\ job'.files = job.files
      /\ job'.todo = [job.todo EXCEPT ![1].list = Tail(@)]
      /\ job'.skipped = job.skipped /\ job'.wiped = job.wiped
      /\ job.wiped = Stores /\ job.skipped \in SUBSET Thing
  BY <1>1, <1>2, NoneSkipped
<1>4. /\ job'.todo \in Seq(LeftFile)
      /\ new \in ZoneExport /\ new \in Archived("route53")
      /\ OneOfEach(job.files)
      /\ Archived("route53")' = Archived("route53")
      /\ NotYet("route53") \subseteq NotYet("route53")' \cup {new}
      /\ \A name : /\ Left(job'.todo, name) \subseteq Left(job.todo, name)
                   /\ name # "route53" =>
                        Left(job.todo, name) \subseteq Left(job'.todo, name)
  BY <1>0, <1>1, <1>2, <1>3, EntryFacts
<1>5. new.zone \in Zone /\ new.records \in SUBSET Record
  BY <1>4 DEF ZoneExport
<1>6. records \in SUBSET Record /\ zones \in [Zone -> {Absent} \cup SUBSET Record]
  BY <1>0, <1>5 DEF RecordsOf, StoresTyped, Has
<1>7. StoresTyped'
  BY <1>2, <1>6 DEF StoresTyped
<1>8. \A e, f \in Archived("route53") : e.zone = f.zone => e = f
  BY <1>4 DEF OneOfEach, Archived
<1>9. \A z \in Zone \ touched : Has(zones, z) =>
        \/ \E e \in Archived("route53") : e.zone = z /\ zones[z] = e.records
        \/ z \in job.skipped /\ zones[z] = {}
  <2>1. "route53" \in WipedNow
    BY <1>3 DEF WipedNow, Stores, Restoring
  <2>. QED
    BY <1>1, <2>1 DEF ZonesOnly
<1>10. new.zone \notin touched => records = new.records
  BY <1>0, <1>4, <1>5, <1>8, <1>9 DEF RecordsOf
<1>11. /\ zones'[new.zone] = records
       /\ \A z \in Zone \ {new.zone} : zones'[z] = zones[z]
  BY <1>2, <1>5, <1>6
<1>12. ZonesOnly'
  <2>1. ASSUME NEW z \in Zone, z \notin touched, Has(zones, z)'
        PROVE  \/ \E e \in Archived("route53") :
                    e.zone = z /\ zones'[z] = e.records
               \/ z \in job.skipped /\ zones'[z] = {}
    <3>1. CASE z = new.zone
      BY <1>4, <1>10, <1>11, <2>1, <3>1
    <3>2. CASE z # new.zone
      BY <1>9, <1>11, <2>1, <3>2 DEF Has
    <3>. QED
      BY <3>1, <3>2
  <2>. QED
    BY <1>2, <1>3, <1>4, <2>1 DEF ZonesOnly
<1>13. ZonesBack'
  <2>1. ASSUME NEW z \in Zone, z \notin touched \cup job.skipped,
               NEW e \in Archived("route53") \ NotYet("route53")', e.zone = z
        PROVE  zones'[z] = e.records
    <3>1. CASE z = new.zone
      BY <1>4, <1>8, <1>10, <1>11, <2>1, <3>1
    <3>2. CASE z # new.zone
      <4>1. e \in Archived("route53") \ NotYet("route53")
        BY <1>4, <2>1, <3>2
      <4>2. zones[z] = e.records
        BY <1>1, <1>3, <2>1, <4>1 DEF ZonesBack
      <4>. QED
        BY <1>11, <3>2, <4>2
    <3>. QED
      BY <3>1, <3>2
  <2>. QED
    BY <1>2, <1>3, <1>4, <2>1 DEF ZonesBack
<1>. QED
  BY <1>2, <1>3, <1>4, <1>7, <1>12, <1>13, ImportStep

(* A file at the head of the archive is done with.                         *)
LEMMA FileDone ==
  ASSUME JobInv, LeftIn, job.pc = "importing", job.todo # <<>>,
         NEW skipped \in SUBSET Thing, DOMAIN job' = Fields,
         job'.pc = job.pc, job'.files = job.files,
         job'.todo = Tail(job.todo), job'.skipped = job.skipped \cup skipped
  PROVE  /\ job'.todo \in Seq(LeftFile) /\ job'.skipped \in SUBSET Thing
         /\ Head(job.todo) \in LeftFile
         /\ \A kind \in {"ssm", "route53", "tfstate"} :
              Holds(WasOf(Head(job.todo)), kind) \subseteq Archived(kind)
         /\ OneOfEach(job.files)
         /\ \A kind : /\ Left(job'.todo, kind) \subseteq Left(job.todo, kind)
                      /\ Left(job.todo, kind) =
                           Holds(WasOf(Head(job.todo)), kind) \cup Left(job'.todo, kind)
<1>1. /\ job.todo \in Seq(LeftFile) /\ job.skipped \in SUBSET Thing
      /\ ArchiveOK(job.files)
  BY JobFacts
<1>2. /\ Tail(job.todo) \in Seq(LeftFile) /\ Head(job.todo) \in LeftFile
      /\ \A kind : Left(job.todo, kind) =
           Holds(WasOf(Head(job.todo)), kind) \cup Left(Tail(job.todo), kind)
  BY <1>1, PopFile
<1>3. \A kind \in {"ssm", "route53", "tfstate"} :
        Left(job.todo, kind) \subseteq Left(job.files, kind)
  BY DEF LeftIn, NotYet, Archived
<1>4. \A kind \in {"ssm", "route53", "tfstate"} :
        Holds(WasOf(Head(job.todo)), kind) \subseteq Archived(kind)
  BY <1>2, <1>3 DEF Archived
<1>5. job'.skipped \in SUBSET Thing
  BY <1>1
<1>. QED
  BY <1>1, <1>2, <1>4, <1>5 DEF ArchiveOK

LEMMA EndFileKeeps ==
  ASSUME JobPart, EndFile
  PROVE  JobPart'
<1>1. /\ JobInv /\ LeftIn /\ job.pc = "importing" /\ job.todo # <<>>
      /\ job.pc # "idle"
      /\ Head(job.todo).name \in {"ssm", "route53"} /\ Head(job.todo).list = <<>>
      /\ job' = [job EXCEPT !.todo = Tail(@)]
      /\ UNCHANGED <<params, zones, states, touched>>
  BY DEF EndFile, AtFile, JobPart, vars, db
<1>2. DOMAIN job = Fields /\ job.skipped \in SUBSET Thing
  BY <1>1, JobFacts
<1>3. /\ DOMAIN job' = Fields /\ job'.pc = job.pc /\ job'.files = job.files
      /\ job'.todo = Tail(job.todo) /\ job'.skipped = job.skipped
      /\ job'.wiped = job.wiped
  BY <1>1, <1>2 DEF Fields
<1>4. job'.skipped = job.skipped \cup {} /\ {} \in SUBSET Thing
  BY <1>3
<1>5. /\ job'.todo \in Seq(LeftFile) /\ Head(job.todo) \in LeftFile
      /\ \A kind : /\ Left(job'.todo, kind) \subseteq Left(job.todo, kind)
                   /\ Left(job.todo, kind) =
                        Holds(WasOf(Head(job.todo)), kind) \cup Left(job'.todo, kind)
  BY <1>1, <1>3, <1>4, FileDone
<1>6. \A kind : Holds(WasOf(Head(job.todo)), kind) = {}
  <2>1. /\ Head(job.todo) \in ArchiveFile
        /\ WasOf(Head(job.todo)) = Head(job.todo)
    BY <1>1, <1>5, LeftFacts, WasFacts
  <2>2. Elems(<<>>) = {}
    BY DEF Elems
  <2>. QED
    BY <1>1, <2>1, <2>2 DEF Holds
<1>7. \A kind : Left(job.todo, kind) \subseteq Left(job'.todo, kind)
  BY <1>5, <1>6
<1>. QED
  BY <1>1, <1>2, <1>3, <1>5, <1>7, ImportStep

LEMMA ImportStateKeeps ==
  ASSUME JobPart, StoresTyped, ImportState
  PROVE  JobPart' /\ StoresTyped'
<1>0. PICK file : file = Head(job.todo)
  OBVIOUS
<1>1. /\ JobInv /\ LeftIn /\ job.pc = "importing" /\ job.todo # <<>>
      /\ job.pc # "idle" /\ file.name = "tfstate"
      /\ job' = [job EXCEPT !.todo = Tail(@)]
      /\ states' = [states EXCEPT ![file.project] = file.body]
      /\ UNCHANGED <<params, zones, touched>>
  BY <1>0 DEF ImportState, AtFile, JobPart, vars
<1>2. DOMAIN job = Fields /\ job.skipped \in SUBSET Thing
  BY <1>1, JobFacts
<1>3. /\ DOMAIN job' = Fields /\ job'.pc = job.pc /\ job'.files = job.files
      /\ job'.todo = Tail(job.todo) /\ job'.skipped = job.skipped
      /\ job'.wiped = job.wiped
  BY <1>1, <1>2 DEF Fields
<1>4. job'.skipped = job.skipped \cup {} /\ {} \in SUBSET Thing
  BY <1>3
<1>5. /\ job'.todo \in Seq(LeftFile) /\ file \in LeftFile
      /\ \A kind \in {"ssm", "route53", "tfstate"} :
           Holds(WasOf(file), kind) \subseteq Archived(kind)
      /\ OneOfEach(job.files)
      /\ \A kind : /\ Left(job'.todo, kind) \subseteq Left(job.todo, kind)
                   /\ Left(job.todo, kind) =
                        Holds(WasOf(file), kind) \cup Left(job'.todo, kind)
  BY <1>0, <1>1, <1>3, <1>4, FileDone
<1>6. /\ file \in ArchiveFile /\ WasOf(file) = file
      /\ file.project \in Project /\ file.body \in SavedBody
  BY <1>1, <1>5, LeftFacts, WasFacts, FileFacts
<1>7. \A kind : Holds(file, kind) = IF kind = "tfstate" THEN {file} ELSE {}
  BY <1>1 DEF Holds
<1>8. /\ file \in Archived("tfstate")
      /\ Archived("tfstate")' = Archived("tfstate")
      /\ NotYet("tfstate") \subseteq NotYet("tfstate")' \cup {file}
      /\ \A e, f \in Archived("tfstate") : e.project = f.project => e = f
  BY <1>3, <1>5, <1>6, <1>7 DEF Archived, NotYet, OneOfEach
<1>9. /\ states'[file.project] = file.body
      /\ \A p \in Project \ {file.project} : states'[p] = states[p]
      /\ StoresTyped'
  BY <1>1, <1>6 DEF StoresTyped
<1>10. StatesOnly'
  <2>1. \A p \in Project \ touched : Has(states, p) =>
          \/ \E f \in Archived("tfstate") : f.project = p /\ states[p] = f.body
          \/ p \in job.skipped /\ states[p] = Torn
    <3>1. "states" \in WipedNow
      <4>1. job.wiped = Stores
        BY <1>1, JobFacts DEF WipedBy
      <4>. QED
        BY <1>1, <4>1 DEF WipedNow, Stores, Restoring
    <3>. QED
      BY <3>1 DEF JobPart, OnlyIn, StatesOnly
  <2>2. ASSUME NEW p \in Project, p \notin touched, Has(states, p)'
        PROVE  \/ \E f \in Archived("tfstate") :
                    f.project = p /\ states'[p] = f.body
               \/ p \in job.skipped /\ states'[p] = Torn
    <3>1. CASE p = file.project
      BY <1>8, <1>9, <3>1
    <3>2. CASE p # file.project
      BY <1>9, <2>1, <2>2, <3>2 DEF Has
    <3>. QED
      BY <3>1, <3>2
  <2>. QED
    BY <1>1, <1>3, <1>8, <2>2 DEF StatesOnly
<1>11. StatesBack'
  <2>1. ASSUME NEW p \in Project, p \notin touched \cup job.skipped,
               NEW f \in Archived("tfstate") \ NotYet("tfstate")', f.project = p
        PROVE  states'[p] = f.body
    <3>1. CASE p = file.project
      BY <1>8, <1>9, <2>1, <3>1
    <3>2. CASE p # file.project
      <4>1. f \in Archived("tfstate") \ NotYet("tfstate")
        BY <1>8, <2>1, <3>2
      <4>2. states[p] = f.body
        BY <1>1, <2>1, <4>1 DEF JobPart, BackIn, StatesBack
      <4>. QED
        BY <1>9, <3>2, <4>2
    <3>. QED
      BY <3>1, <3>2
  <2>. QED
    BY <1>1, <1>3, <1>8, <2>1 DEF StatesBack
<1>12. /\ Left(job.todo, "ssm") \subseteq Left(job'.todo, "ssm")
       /\ Left(job.todo, "route53") \subseteq Left(job'.todo, "route53")
  BY <1>5, <1>6, <1>7
<1>. QED
  BY <1>1, <1>2, <1>3, <1>5, <1>9, <1>10, <1>11, <1>12, ImportStep

LEMMA BadFileFailsKeeps ==
  ASSUME JobPart, BadFileFails
  PROVE  JobPart'
<1>1. /\ JobInv /\ OnlyIn /\ job.pc \in Restoring /\ Stop("failed")
      /\ UNCHANGED <<params, zones, states, touched>>
  BY DEF BadFileFails, AtFile, JobPart, vars, db, Restoring
<1>2. /\ DOMAIN job' = Fields /\ job'.files = job.files
      /\ job'.pc = "failed" /\ job'.todo = <<>>
      /\ job'.wiped = job.wiped /\ job'.skipped = job.skipped
      /\ job'.skipped \in SUBSET Thing
  BY <1>1, StopFacts
<1>3. OnlyIn'
  BY <1>1, <1>2, OnlyKeeps
<1>. QED
  BY <1>1, <1>2, <1>3, StopKeeps

LEMMA BadStateIsSkippedKeeps ==
  ASSUME JobPart, BadStateIsSkipped
  PROVE  JobPart'
<1>0. PICK file : file = Head(job.todo)
  OBVIOUS
<1>1. /\ JobInv /\ LeftIn /\ job.pc = "importing" /\ job.todo # <<>>
      /\ job.pc # "idle" /\ file.name = "bad" /\ file.was.name = "tfstate"
      /\ job' = [job EXCEPT !.todo = Tail(@), !.skipped = @ \cup {file.was.project}]
      /\ UNCHANGED <<params, zones, states, touched>>
  BY <1>0 DEF BadStateIsSkipped, AtFile, JobPart, vars, db
<1>2. /\ DOMAIN job = Fields /\ job.skipped \in SUBSET Thing
      /\ job.todo \in Seq(LeftFile)
  BY <1>1, JobFacts
<1>3. /\ DOMAIN job' = Fields /\ job'.pc = job.pc /\ job'.files = job.files
      /\ job'.todo = Tail(job.todo)
      /\ job'.skipped = job.skipped \cup {file.was.project}
      /\ job'.wiped = job.wiped
  BY <1>1, <1>2 DEF Fields
<1>4. /\ file \in LeftFile /\ file.was \in ArchiveFile /\ WasOf(file) = file.was
      /\ file.was.project \in Project
  BY <1>0, <1>1, <1>2, PopFile, LeftFacts, FileFacts
<1>5. /\ job'.todo \in Seq(LeftFile) /\ job'.skipped \in SUBSET Thing
      /\ \A kind \in {"ssm", "route53", "tfstate"} :
           Holds(WasOf(file), kind) \subseteq Archived(kind)
      /\ OneOfEach(job.files)
      /\ \A kind : /\ Left(job'.todo, kind) \subseteq Left(job.todo, kind)
                   /\ Left(job.todo, kind) =
                        Holds(WasOf(file), kind) \cup Left(job'.todo, kind)
  <2>1. {file.was.project} \in SUBSET Thing
    BY <1>4 DEF Thing
  <2>. QED
    BY <1>0, <1>1, <1>3, <2>1, FileDone
<1>6. \A kind : Holds(file.was, kind) = IF kind = "tfstate" THEN {file.was} ELSE {}
  BY <1>1 DEF Holds
<1>7. /\ Archived("tfstate")' = Archived("tfstate")
      /\ NotYet("tfstate") \subseteq NotYet("tfstate")' \cup {file.was}
  BY <1>3, <1>4, <1>5, <1>6 DEF Archived, NotYet
<1>8. StatesBack'
  <2>1. ASSUME NEW p \in Project, p \notin touched \cup job'.skipped,
               NEW f \in Archived("tfstate") \ NotYet("tfstate")', f.project = p
        PROVE  states[p] = f.body
    <3>1. f \in Archived("tfstate") \ NotYet("tfstate")
          /\ p \notin touched \cup job.skipped
      BY <1>3, <1>7, <2>1
    <3>. QED
      BY <1>1, <2>1, <3>1 DEF JobPart, BackIn, StatesBack
  <2>. QED
    BY <1>1, <1>3, <1>7, <2>1 DEF StatesBack
<1>9. /\ Left(job.todo, "ssm") \subseteq Left(job'.todo, "ssm")
      /\ Left(job.todo, "route53") \subseteq Left(job'.todo, "route53")
      /\ job.skipped \subseteq job'.skipped
  BY <1>3, <1>4, <1>5, <1>6
<1>. QED
  BY <1>1, <1>3, <1>5, <1>8, <1>9, ImportStep

LEMMA EndImportKeeps ==
  ASSUME JobPart, EndImport
  PROVE  JobPart'
<1>1. /\ JobInv /\ job.pc = "importing" /\ job.pc # "idle" /\ job.todo = <<>>
      /\ job' = [job EXCEPT !.pc = "imported"]
      /\ UNCHANGED <<params, zones, states, touched>>
  BY DEF EndImport, JobPart, vars, db
<1>2. /\ DOMAIN job = Fields /\ job.skipped \in SUBSET Thing
      /\ job.todo \in Seq(LeftFile)
  BY <1>1, JobFacts
<1>3. /\ DOMAIN job' = Fields /\ job'.pc = "imported" /\ job'.files = job.files
      /\ job'.todo = job.todo /\ job'.skipped = job.skipped
      /\ job'.wiped = job.wiped
  BY <1>1, <1>2 DEF Fields
<1>4. job'.todo \in Seq(LeftFile) /\ job'.todo = <<>>
  BY <1>1, <1>2, <1>3
<1>. QED
  BY <1>1, <1>2, <1>3, <1>4, ImportStep

(* Where an import breaks off it leaves a part of what it was at, and that *)
(* is noted as skipped.                                                    *)
LEMMA BreakOffKeeps ==
  ASSUME JobPart, StoresTyped, job.pc \in Restoring, BreakOff,
         touched' = touched, UNCHANGED params,
         job'.files = job.files, job'.wiped = job.wiped,
         job.skipped \cup InHand \subseteq job'.skipped
  PROVE  OnlyIn' /\ StoresTyped'
<1>1. JobInv /\ LeftIn /\ OnlyIn
  BY DEF JobPart
<1>2. WipedNow = job.wiped /\ \A what : what \in WipedNow' => what \in WipedNow
  BY DEF WipedNow
<1>3. \A kind : Archived(kind)' = Archived(kind)
  BY DEF Archived
<1>4. CASE UNCHANGED db
  BY <1>1, <1>4, OnlyKeeps DEF db, StoresTyped
<1>5. ASSUME AtEntry("route53"), NEW z \in InHand,
             zones' = [zones EXCEPT ![z] = RecordsOf(z)], UNCHANGED states
      PROVE  OnlyIn' /\ StoresTyped'
  <2>1. z \in job'.skipped
    BY <1>5
  <2>2. \A y \in Zone : \/ zones'[y] = zones[y]
                        \/ y = z /\ zones'[y] = {}
    BY <1>5 DEF StoresTyped, RecordsOf
  <2>3. ZonesOnly'
    <3>1. ASSUME "route53" \in WipedNow, NEW y \in Zone, y \notin touched,
                 Has(zones, y)'
          PROVE  \/ \E e \in Archived("route53") :
                      e.zone = y /\ zones'[y] = e.records
                 \/ y \in job'.skipped /\ zones'[y] = {}
      BY <1>1, <2>1, <2>2, <3>1 DEF OnlyIn, ZonesOnly, Has
    <3>. QED
      BY <1>2, <1>3, <3>1 DEF ZonesOnly
  <2>4. OnlyIn'
    BY <1>1, <1>5, <2>3, OnlyKeeps
  <2>5. StoresTyped'
    BY <1>5 DEF StoresTyped, RecordsOf, Has
  <2>. QED
    BY <2>4, <2>5
<1>6. ASSUME AtFile("tfstate"), NEW p \in InHand,
             states' = [states EXCEPT ![p] = Torn], UNCHANGED zones
      PROVE  OnlyIn' /\ StoresTyped'
  <2>1. p \in job'.skipped
    BY <1>6
  <2>2. \A q \in Project : \/ states'[q] = states[q]
                           \/ q = p /\ states'[q] = Torn
    BY <1>6 DEF StoresTyped
  <2>3. StatesOnly'
    <3>1. ASSUME "states" \in WipedNow, NEW q \in Project, q \notin touched,
                 Has(states, q)'
          PROVE  \/ \E f \in Archived("tfstate") :
                      f.project = q /\ states'[q] = f.body
                 \/ q \in job'.skipped /\ states'[q] = Torn
      BY <1>1, <2>1, <2>2, <3>1 DEF OnlyIn, StatesOnly, Has
    <3>. QED
      BY <1>2, <1>3, <3>1 DEF StatesOnly
  <2>4. OnlyIn'
    BY <1>1, <1>6, <2>3, OnlyKeeps
  <2>5. StoresTyped'
    BY <1>6 DEF StoresTyped, SavedBody
  <2>. QED
    BY <2>4, <2>5
<1>. QED
  BY <1>4, <1>5, <1>6 DEF BreakOff

(* What is at hand is a parameter, a zone or a project.                    *)
LEMMA InHandFacts ==
  ASSUME JobInv, LeftIn
  PROVE  InHand \in SUBSET Thing
<1>1. CASE AtEntry("ssm")
  <2>1. Head(Head(job.todo).list) \in Request
    BY <1>1, RequestFacts DEF AtEntry
  <2>2. Head(Head(job.todo).list).name.base \in Base
    BY <2>1, NameFacts DEF Request
  <2>. QED
    BY <1>1, <2>2 DEF InHand, Thing
<1>2. CASE AtEntry("route53") /\ ~AtEntry("ssm")
  <2>1. /\ job.todo \in Seq(LeftFile) /\ job.todo # <<>>
        /\ Head(job.todo).name = "route53" /\ Head(job.todo).list # <<>>
    BY <1>2, AtFileFacts DEF AtEntry
  <2>2. Head(Head(job.todo).list) \in ZoneExport
    BY <2>1, PopEntry
  <2>. QED
    BY <1>2, <2>2 DEF InHand, Thing, ZoneExport
<1>3. CASE AtFile("tfstate") /\ ~AtEntry("ssm") /\ ~AtEntry("route53")
  <2>1. /\ job.todo \in Seq(LeftFile) /\ job.todo # <<>>
        /\ Head(job.todo).name = "tfstate"
    BY <1>3, AtFileFacts
  <2>2. Head(job.todo) \in ArchiveFile
    BY <2>1, PopFile, LeftFacts
  <2>3. Head(job.todo).project \in Project
    BY <2>1, <2>2, FileFacts
  <2>. QED
    BY <1>3, <2>3 DEF InHand, Thing
<1>4. CASE ~AtEntry("ssm") /\ ~AtEntry("route53") /\ ~AtFile("tfstate")
  BY <1>4 DEF InHand
<1>. QED
  BY <1>1, <1>2, <1>3, <1>4

(* An entry that fails is skipped, and the import goes on.                 *)
LEMMA EntryFailsKeeps ==
  ASSUME JobPart, StoresTyped, EntryFails
  PROVE  JobPart' /\ StoresTyped'
<1>1. /\ JobInv /\ LeftIn /\ BackIn /\ BreakOff
      /\ job' = [job EXCEPT !.todo[1].list = Tail(@),
                            !.skipped = job.skipped \cup InHand]
      /\ UNCHANGED <<params, touched>>
  BY DEF EntryFails, JobPart, vars
<1>2. PICK kind \in {"ssm", "route53"} : AtEntry(kind)
  BY DEF EntryFails
<1>3. job.skipped \cup InHand \in SUBSET Thing
  <2>1. job.skipped \in SUBSET Thing
    BY <1>1, <1>2, AtFileFacts DEF AtEntry
  <2>. QED
    BY <1>1, <2>1, InHandFacts
<1>4. /\ DOMAIN job' = Fields /\ job'.pc = "importing"
      /\ job.pc = "importing" /\ job'.files = job.files
      /\ job'.todo = [job.todo EXCEPT ![1].list = Tail(@)]
      /\ job'.skipped = job.skipped \cup InHand /\ job'.wiped = job.wiped
  BY <1>1, <1>2, <1>3, TakenFacts
<1>5. PICK entry : entry = Head(Head(job.todo).list)
  OBVIOUS
<1>6. /\ job'.todo \in Seq(LeftFile)
      /\ Archived(kind)' = Archived(kind)
      /\ NotYet(kind) \subseteq NotYet(kind)' \cup {entry}
      /\ \A name : /\ Left(job'.todo, name) \subseteq Left(job.todo, name)
                   /\ name # kind =>
                        Left(job.todo, name) \subseteq Left(job'.todo, name)
  BY <1>1, <1>2, <1>4, <1>5, EntryFacts
<1>7. OnlyIn' /\ StoresTyped'
  <2>1. job.pc \in Restoring
    BY <1>4 DEF Restoring
  <2>. QED
    BY <1>1, <1>4, <2>1, BreakOffKeeps
<1>8. kind = "ssm" => InHand = {entry.name.base} /\ UNCHANGED db
  BY <1>1, <1>2, <1>5 DEF InHand, BreakOff, AtEntry, AtFile
<1>9. kind = "route53" =>
        /\ InHand = {entry.zone} /\ UNCHANGED states
        /\ \A z \in Zone \ InHand : zones'[z] = zones[z]
  BY <1>1, <1>2, <1>5 DEF InHand, BreakOff, AtEntry, AtFile, db, StoresTyped
<1>10. CASE kind = "ssm"
  <2>1. ParamsBack'
    <3>1. ASSUME NEW b \in Base, b \notin touched \cup job'.skipped,
                 NEW e \in Archived("ssm") \ NotYet("ssm")', e.name = PathKey(b),
                 \A f \in Archived("ssm") :
                   f.name.base = b => f.name = PathKey(b)
          PROVE  Reads(PathKey(b), e)
      <4>1. e # entry
        BY <1>4, <1>8, <1>10, <3>1, PathKeyFacts
      <4>2. e \in Archived("ssm") \ NotYet("ssm") /\ b \notin touched \cup job.skipped
        BY <1>4, <1>6, <1>10, <3>1, <4>1
      <4>. QED
        BY <1>1, <1>4, <3>1, <4>2 DEF BackIn, ParamsBack
    <3>. QED
      BY <1>1, <1>4, <1>6, <1>10, <3>1 DEF ParamsBack, Reads, Has
  <2>2. UNCHANGED <<zones, states>>
    BY <1>8, <1>10 DEF db
  <2>. QED
    BY <1>1, <1>3, <1>4, <1>6, <1>7, <1>10, <2>1, <2>2, ImportStep
<1>11. CASE kind = "route53"
  <2>1. ZonesBack'
    <3>1. ASSUME NEW z \in Zone, z \notin touched \cup job'.skipped,
                 NEW e \in Archived("route53") \ NotYet("route53")', e.zone = z
          PROVE  zones'[z] = e.records
      <4>1. e # entry /\ z \notin InHand
        BY <1>4, <1>9, <1>11, <3>1
      <4>2. e \in Archived("route53") \ NotYet("route53")
            /\ z \notin touched \cup job.skipped
        BY <1>4, <1>6, <1>11, <3>1, <4>1
      <4>3. zones[z] = e.records
        BY <1>1, <1>4, <3>1, <4>2 DEF BackIn, ZonesBack
      <4>. QED
        BY <1>9, <1>11, <4>1, <4>3
    <3>. QED
      BY <1>1, <1>4, <1>6, <1>11, <3>1 DEF ZonesBack
  <2>2. ZonesOnly' /\ UNCHANGED states
    BY <1>7, <1>9, <1>11 DEF OnlyIn
  <2>. QED
    BY <1>1, <1>3, <1>4, <1>6, <1>7, <1>11, <2>1, <2>2, ImportStep
<1>. QED
  BY <1>10, <1>11

(* A state that cannot be written ends the import.                         *)
LEMMA ImportStateFailsKeeps ==
  ASSUME JobPart, StoresTyped, ImportStateFails
  PROVE  JobPart' /\ StoresTyped'
<1>1. /\ JobInv /\ LeftIn /\ BreakOff /\ AtFile("tfstate")
      /\ job' = [job EXCEPT !.pc = "failed", !.todo = <<>>,
                            !.skipped = job.skipped \cup InHand]
      /\ UNCHANGED <<params, touched>>
  BY DEF ImportStateFails, JobPart, vars
<1>2. /\ DOMAIN job = Fields /\ job.skipped \in SUBSET Thing
      /\ job.pc = "importing" /\ job.pc \in Restoring
      /\ InHand \in SUBSET Thing
  BY <1>1, AtFileFacts, InHandFacts DEF Restoring
<1>3. /\ DOMAIN job' = Fields /\ job'.files = job.files
      /\ job'.pc = "failed" /\ job'.todo = <<>>
      /\ job'.wiped = job.wiped /\ job'.skipped = job.skipped \cup InHand
      /\ job'.skipped \in SUBSET Thing
  BY <1>1, <1>2 DEF Fields
<1>4. OnlyIn' /\ StoresTyped'
  BY <1>1, <1>2, <1>3, BreakOffKeeps
<1>. QED
  BY <1>1, <1>2, <1>3, <1>4, StopKeeps

(* After a restart no export and no import goes on, and an archive is as   *)
(* good as it was.                                                         *)
LEMMA RestartKeepsJob ==
  ASSUME JobPart, StoresTyped, NEW keys \in Keyrings, DbRestart(keys)
  PROVE  JobPart' /\ StoresTyped'
<1>1. UNCHANGED params /\ BreakOff /\ JobInv /\ LeftIn
  BY DEF DbRestart, Restart, store, JobPart
<1>2. job.pc # "importing" => UNCHANGED db
  BY <1>1 DEF BreakOff, AtEntry, AtFile
<1>3. CASE job.pc \in Over
  <2>1. job.pc # "importing" /\ job.pc # "idle"
    BY <1>3 DEF Over
  <2>2. job' = job /\ job # Idle
    BY <1>3, <2>1 DEF DbRestart, Idle
  <2>3. touched' = touched /\ UNCHANGED <<zones, states>>
    BY <1>2, <2>1, <2>2 DEF DbRestart, db
  <2>. QED
    BY <1>1, <2>2, <2>3, OthersKeep DEF StoresTyped
<1>4. CASE job.pc \in Restoring \ Over
  <2>1. job' = [job EXCEPT !.pc = "stopped", !.todo = <<>>,
                           !.skipped = job.skipped \cup InHand]
    BY <1>4 DEF DbRestart
  <2>2. DOMAIN job = Fields /\ job.skipped \in SUBSET Thing
    BY <1>1, <1>4, JobFacts DEF Restoring
  <2>3. InHand \in SUBSET Thing
    BY <1>1, InHandFacts
  <2>4. /\ DOMAIN job' = Fields /\ job'.files = job.files
        /\ job'.pc = "stopped" /\ job'.todo = <<>>
        /\ job'.wiped = job.wiped /\ job'.skipped = job.skipped \cup InHand
        /\ job'.skipped \in SUBSET Thing
    BY <2>1, <2>2, <2>3 DEF Fields
  <2>5. touched' = touched
    <3>1. job' # Idle
      BY <2>4 DEF Idle
    <3>. QED
      BY <3>1 DEF DbRestart
  <2>6. OnlyIn' /\ StoresTyped'
    BY <1>1, <1>4, <2>4, <2>5, BreakOffKeeps
  <2>. QED
    BY <1>1, <1>4, <2>4, <2>6, StopKeeps
<1>5. CASE job.pc \notin Over /\ job.pc \notin Restoring \ Over
  <2>1. job' = Idle /\ touched' = {}
    BY <1>5 DEF DbRestart
  <2>2. job.pc # "importing"
    BY <1>5 DEF Restoring, Over
  <2>. QED
    BY <1>2, <2>1, <2>2, IdleKeeps DEF db, StoresTyped
<1>. QED
  BY <1>3, <1>4, <1>5

-----------------------------------------------------------------------------
(* The invariant holds at the start and is kept by every action.           *)
LEMMA DbInitInv == DbInit => DbInv
<1>. SUFFICES ASSUME DbInit PROVE DbInv
  OBVIOUS
<1>1. IInv
  BY InitInv DEF DbInit
<1>2. LegalInv
  BY DEF DbInit, Init, EmptyBucket, LegalInv, Has, Idle
<1>3. StoresTyped
  BY DEF DbInit, EmptyBucket, StoresTyped
<1>4. job = Idle /\ job.pc = "idle"
  BY DEF DbInit, Idle
<1>5. JobInv /\ ParamsOut /\ ZonesOut /\ StatesOut
  BY <1>4 DEF JobInv, ParamsOut, ZonesOut, StatesOut, Exporting
<1>6. LeftIn /\ OnlyIn /\ BackIn
  BY <1>4 DEF LeftIn, OnlyIn, ParamsOnly, ZonesOnly, StatesOnly, WipedNow,
     BackIn, ParamsBack, ZonesBack, StatesBack, Wiping, Restoring
<1>. QED
  BY <1>1, <1>2, <1>3, <1>5, <1>6 DEF DbInv, JobPart

(* A step of a job that leaves the types of the stores as they were.       *)
LEMMA SameStores ==
  ASSUME StoresTyped, UNCHANGED <<zones, states>>,
         touched' = touched \/ touched' = {}
  PROVE  StoresTyped'
BY DEF StoresTyped

LEMMA ExportKeeps ==
  ASSUME IInv, LegalInv, StoresTyped, JobPart,
         \/ ExportAll \/ NextPage \/ ListZones \/ ExportZone
         \/ ListStateFiles \/ ExportState \/ EndExport
  PROVE  JobPart' /\ StoresTyped'
<1>1. UNCHANGED <<zones, states>> /\ (touched' = touched \/ touched' = {})
  BY DEF ExportAll, NextPage, ListZones, ExportZone, ListStateFiles,
     ExportState, EndExport, db
<1>2. JobPart'
  BY ExportAllKeeps, NextPageKeeps, ListZonesKeeps, ExportZoneKeeps, ListStateFilesKeeps,
     ExportStateKeeps, EndExportKeeps
<1>. QED
  BY <1>1, <1>2, SameStores

LEMMA ImportKeeps ==
  ASSUME IInv, StoresTyped, JobPart,
         \/ ImportAll \/ WipeStates \/ WipeSsm \/ WipeRoute53
         \/ ImportParameter \/ ImportZone \/ EndFile \/ ImportState
         \/ EntryFails \/ ImportStateFails
         \/ BadFileFails \/ BadStateIsSkipped \/ EndImport
  PROVE  JobPart' /\ StoresTyped'
<1>1. CASE \/ ImportAll \/ WipeSsm \/ ImportParameter \/ EndFile
           \/ BadFileFails \/ BadStateIsSkipped \/ EndImport
  <2>1. UNCHANGED <<zones, states>> /\ (touched' = touched \/ touched' = {})
    BY <1>1 DEF ImportAll, WipeSsm, ImportParameter, EndFile, BadFileFails,
       BadStateIsSkipped, EndImport, db
  <2>2. JobPart'
    BY <1>1, ImportAllKeeps, WipeSsmKeeps, ImportParameterKeepsJob,
       EndFileKeeps, BadFileFailsKeeps, BadStateIsSkippedKeeps, EndImportKeeps
       DEF IInv
  <2>. QED
    BY <2>1, <2>2, SameStores
<1>2. CASE WipeStates
  <2>1. /\ zones' = zones /\ touched' = touched
        /\ \/ states' = EmptyBucket(Project)
           \/ \E ps \in SUBSET Project : states' = DeleteKeys(states, ps)
    BY <1>2 DEF WipeStates
  <2>2. StoresTyped'
    BY <2>1 DEF StoresTyped, EmptyBucket, DeleteKeys
  <2>. QED
    BY <1>2, <2>2, WipeStatesKeeps
<1>3. CASE WipeRoute53
  <2>1. /\ states' = states /\ touched' = touched
        /\ zones' = EmptyBucket(Zone) \/ zones' = zones
    BY <1>3 DEF WipeRoute53
  <2>2. StoresTyped'
    BY <2>1 DEF StoresTyped, EmptyBucket
  <2>. QED
    BY <1>3, <2>2, WipeRoute53Keeps
<1>4. CASE ImportZone \/ ImportState \/ EntryFails \/ ImportStateFails
  BY <1>4, ImportZoneKeeps, ImportStateKeeps, EntryFailsKeeps,
     ImportStateFailsKeeps
<1>. QED
  BY <1>1, <1>2, <1>3, <1>4

LEMMA DbNextInv == DbInv /\ [DbNext]_dbVars => DbInv'
<1>. SUFFICES ASSUME DbInv, [DbNext]_dbVars PROVE DbInv'
  OBVIOUS
<1>1. IInv /\ LegalInv /\ StoresTyped /\ JobPart /\ JobInv /\ LeftIn
  BY DEF DbInv, JobPart
<1>2. IInv'
  BY DbKeepsSsm
<1>3. CASE UNCHANGED dbVars
  <2>1. UNCHANGED <<params, handler, zones, states, job, touched>>
    BY <1>3 DEF dbVars, vars
  <2>2. LegalInv' /\ StoresTyped'
    BY <1>1, <2>1 DEF LegalInv, StoresTyped, Has
  <2>3. JobPart'
    BY <1>1, <2>1, OthersKeep
  <2>. QED
    BY <1>2, <2>2, <2>3 DEF DbInv
<1>4. CASE DbNext
  <2>1. LegalInv'
    BY <1>1, <1>4, LegalSteps
  <2>2. CASE Discard
    <3>1. JobPart'
      BY <2>2, IdleKeeps DEF Discard
    <3>2. StoresTyped'
      BY <1>1, <2>2, SameStores DEF Discard, db
    <3>. QED
      BY <1>2, <2>1, <3>1, <3>2 DEF DbInv
  <2>3. ASSUME NEW keys \in Keyrings, DbRestart(keys)
        PROVE  DbInv'
    <3>1. JobPart' /\ StoresTyped'
      BY <1>1, <2>3, RestartKeepsJob
    <3>. QED
      BY <1>2, <2>1, <3>1 DEF DbInv
  <2>4. CASE \/ ExportAll \/ NextPage \/ ListZones \/ ExportZone
             \/ ListStateFiles \/ ExportState \/ EndExport
    BY <1>1, <1>2, <2>1, <2>4, ExportKeeps DEF DbInv
  <2>5. CASE \/ ImportAll \/ WipeStates \/ WipeSsm \/ WipeRoute53
             \/ ImportParameter \/ ImportZone \/ EndFile \/ ImportState
             \/ EntryFails \/ ImportStateFails
             \/ BadFileFails \/ BadStateIsSkipped \/ EndImport
    BY <1>1, <1>2, <2>1, <2>5, ImportKeeps DEF DbInv
  <2>6. CASE \/ \E req \in PutRequest : OtherPut(req)
             \/ \E n \in Name : OtherDelete(n)
             \/ \E h \in Handler :
                  \/ \E edit \in TagRequest : OtherReadForTags(h, edit)
                  \/ OtherWriteTags(h)
             \/ \E z \in Zone, records \in {Absent} \cup Content :
                  OtherZone(z, records)
             \/ \E p \in Project, b \in {Absent} \cup SavedBody : OtherState(p, b)
    BY <1>1, <1>2, <2>1, <2>6, OtherSteps DEF DbInv
  <2>. QED
    BY <1>4, <2>2, <2>3, <2>4, <2>5, <2>6 DEF DbNext
<1>. QED
  BY <1>3, <1>4

LEMMA DbInvariance == DbSpec => []DbInv
BY DbInitInv, DbNextInv, PTL DEF DbSpec

-----------------------------------------------------------------------------
(* What is proved of the Parameter Store holds while exports, wipes and    *)
(* imports run, and is not lost by what an import puts back.               *)
StoreIsSound == SecureAtRest /\ NameIsKey /\ ExportReadable /\ SerialRead

THEOREM ImportsKeepTheStoreSound ==
  DbSpec => []StoreIsSound /\ VersionCountsWrites
<1>1. DbInv => StoreIsSound
  BY InvImplies DEF DbInv, StoreIsSound
<1>2. DbInv /\ [DbNext]_dbVars => [\A k \in Name : VersionStep(k)]_vars
  <2>. SUFFICES ASSUME DbInv, [DbNext]_dbVars
                PROVE  [\A k \in Name : VersionStep(k)]_vars
    OBVIOUS
  <2>1. IInv /\ JobInv /\ LeftIn /\ TypeOK
    BY DEF DbInv, JobPart, IInv
  <2>2. CASE [Next]_vars
    BY <2>1, <2>2, NextCounts
  <2>3. CASE ImportParameter
    <3>. SUFFICES ASSUME NEW k \in Name, params'[k] # params[k]
                  PROVE  params'[k].version = NewVersion(k)
      BY DEF VersionStep, NewVersion
    <3>1. PICK req \in Request : persistParameter(req, TRUE)
      <4>1. Head(Head(job.todo).list) \in Request
        BY <2>1, <2>3, RequestFacts DEF ImportParameter
      <4>2. params' # params
        OBVIOUS
      <4>. QED
        BY <2>3, <4>1, <4>2 DEF ImportParameter, store
    <3>. QED
      BY <2>1, <3>1, PersistCounts
  <2>4. CASE UNCHANGED dbVars
    BY <2>4 DEF dbVars
  <2>. QED
    BY <2>2, <2>3, <2>4, SsmStep
<1>. QED
  BY <1>1, <1>2, DbInvariance, PTL DEF DbSpec, VersionCountsWrites

(* An import refuses no parameter of the archive: what an export wrote can *)
(* always be put, whatever other requests put meanwhile.                   *)
NothingRefused ==
  (AtFile("ssm") /\ Head(job.todo).list # <<>>) =>
    Accepted(Head(Head(job.todo).list))

THEOREM ImportsRefuseNothing == DbSpec => []NothingRefused
<1>1. DbInv => NothingRefused
  <2>. SUFFICES ASSUME DbInv, AtFile("ssm"), Head(job.todo).list # <<>>
                PROVE  Accepted(Head(Head(job.todo).list))
    BY DEF NothingRefused
  <2>1. Importable(Head(Head(job.todo).list))
    BY RequestFacts DEF DbInv, JobPart
  <2>. QED
    BY <2>1 DEF Importable, Accepted, ValidName, MayPut
<1>. QED
  BY <1>1, DbInvariance, PTL

(* The stores, the archive and the history stay well typed, however        *)
(* exports, imports, restarts and other requests interleave.               *)
THEOREM DbTypeCorrect == DbSpec => []DbTypeOK
<1>1. DbInv => DbTypeOK
  BY DEF DbInv, IInv, JobPart, JobInv, ArchiveOK, StoresTyped, DbTypeOK, Thing
<1>. QED
  BY <1>1, DbInvariance, PTL

(* What the answers of an archive say of an entry.                         *)
LEMMA EntriesFacts ==
  ASSUME ArchiveOK(job.files)
  PROVE  /\ \A n : Entries(n) = {e \in Archived("ssm") : e.name = n}
         /\ Len(job.files) >= 2 => \A z, rs : rs \in ArchivedRecords(z) <=>
              \E e \in Archived("route53") : e.zone = z /\ rs = e.records
         /\ \A p, b : b \in ArchivedBodies(p) <=>
              \E f \in Archived("tfstate") : f.project = p /\ b = f.body
<1>1. /\ Archived("ssm") = Elems(job.files[1].list)
      /\ Len(job.files) >= 2 => Archived("route53") = Elems(job.files[2].list)
      /\ Archived("tfstate") = {job.files[i] : i \in 3..Len(job.files)}
  BY LeftOfArchive DEF Archived
<1>2. \A n : Entries(n) = {e \in Archived("ssm") : e.name = n}
  BY <1>1 DEF Entries, Elems
<1>3. ASSUME Len(job.files) >= 2
      PROVE  \A z, rs : rs \in ArchivedRecords(z) <=>
               \E e \in Archived("route53") : e.zone = z /\ rs = e.records
  BY <1>1, <1>3 DEF ArchivedRecords, Elems
<1>4. \A p, b : b \in ArchivedBodies(p) <=>
        \E f \in Archived("tfstate") : f.project = p /\ b = f.body
  BY <1>1 DEF ArchivedBodies
<1>. QED
  BY <1>2, <1>3, <1>4

(* What is read under the key of a parameter.                              *)
LEMMA ReadFacts ==
  ASSUME IInv, LegalInv, NEW b \in Base
  PROVE  LET k == PathKey(b)
         IN /\ Has(params, k) =>
                 GetParameter(k) = [value |-> Plain(params[k]),
                                    tags |-> params[k].tags]
            /\ ~Has(params, k) => GetParameter(k) = Gone
<1>. DEFINE k == PathKey(b)
<1>1. k \in Name /\ asPathName(k) = k /\ k.base = b
  BY PathKeyFacts
<1>2. Readable(k) <=> Has(params, k)
  BY <1>1 DEF Readable, ValidName, LegalInv
<1>. HIDE DEF k
<1>3. ASSUME Has(params, k)
      PROVE  GetParameter(k) = [value |-> Plain(params[k]),
                                tags |-> params[k].tags]
  <2>1. /\ params[k] \in ParameterData /\ params[k].name = k
        /\ ValueWithDecryption(keyring, params[k]) = Plain(params[k])
    BY <1>1, <1>3, StoredReads
  <2>2. getParameterByName(k) = params[k]
    BY <1>1, <2>1 DEF getParameterByName, ParameterData
  <2>. QED
    BY <1>2, <1>3, <2>1, <2>2 DEF GetParameter
<1>4. ~Has(params, k) => GetParameter(k) = Gone
  BY <1>2 DEF GetParameter
<1>. QED
  BY <1>3, <1>4 DEF k

(* The zones and the states are those of the archive if what each holds is *)
(* in it, and what is in it is held.                                       *)
LEMMA Agree ==
  ASSUME StoresTyped, ArchiveOK(job.files), Len(job.files) >= 2,
         \A z \in Zone \ (touched \cup job.skipped) :
           /\ \A e \in Archived("route53") : e.zone = z => zones[z] = e.records
           /\ Has(zones, z) => \E e \in Archived("route53") : e.zone = z,
         \A p \in Project \ (touched \cup job.skipped) :
           /\ \A f \in Archived("tfstate") : f.project = p => states[p] = f.body
           /\ Has(states, p) => \E f \in Archived("tfstate") : f.project = p
  PROVE  StoresAgree
<1>1. /\ \A z, rs : rs \in ArchivedRecords(z) <=>
           \E e \in Archived("route53") : e.zone = z /\ rs = e.records
      /\ \A p, b : b \in ArchivedBodies(p) <=>
           \E f \in Archived("tfstate") : f.project = p /\ b = f.body
  BY EntriesFacts
<1>2. /\ \A e \in Archived("route53") : e.records # Absent
      /\ \A f \in Archived("tfstate") : f.body # Absent
  <2>1. ASSUME NEW e \in Archived("route53")
        PROVE  e.records # Absent
    <3>1. e \in ZoneExport
      BY LeftOfArchive DEF Archived, Elems
    <3>. QED
      BY <3>1, DbAssumption DEF ZoneExport, DbAssumption
  <2>2. ASSUME NEW f \in Archived("tfstate")
        PROVE  f.body # Absent
    <3>1. PICK i \in 3..Len(job.files) : f = job.files[i]
      BY LeftOfArchive DEF Archived
    <3>2. f.name = "tfstate" /\ f \in ArchiveFile
      BY <3>1 DEF ArchiveOK
    <3>3. f.body \in SavedBody
      BY <3>2, FileFacts
    <3>. QED
      BY <3>3, DbAssumption DEF DbAssumption, SavedBody
  <2>. QED
    BY <2>1, <2>2
<1>3. ASSUME NEW z \in Zone, z \notin touched \cup job.skipped
      PROVE  Only(ArchivedRecords(z)) = {zones[z]}
  <2>1. CASE Has(zones, z)
    <3>1. ArchivedRecords(z) = {zones[z]}
      BY <1>1, <1>3, <2>1
    <3>. QED
      BY <3>1 DEF Only
  <2>2. CASE ~Has(zones, z)
    <3>1. zones[z] = Absent /\ \A rs : rs \notin ArchivedRecords(z)
      BY <1>1, <1>2, <1>3, <2>2 DEF Has
    <3>. QED
      BY <3>1 DEF Only
  <2>. QED
    BY <2>1, <2>2
<1>4. ASSUME NEW p \in Project, p \notin touched \cup job.skipped
      PROVE  Only(ArchivedBodies(p)) = {states[p]}
  <2>1. CASE Has(states, p)
    <3>1. ArchivedBodies(p) = {states[p]}
      BY <1>1, <1>4, <2>1
    <3>. QED
      BY <3>1 DEF Only
  <2>2. CASE ~Has(states, p)
    <3>1. states[p] = Absent /\ \A b : b \notin ArchivedBodies(p)
      BY <1>1, <1>2, <1>4, <2>2 DEF Has
    <3>. QED
      BY <3>1 DEF Only
  <2>. QED
    BY <2>1, <2>2
<1>. QED
  BY <1>3, <1>4 DEF StoresAgree

(* An export is complete, with pages of any size and stores that others    *)
(* change between one page, zone or state and the next: what nobody        *)
(* touches while it runs is in the archive as it is stored, in the clear   *)
(* and under its own name, but for a state that cannot be read.            *)
THEOREM ArchivesAreWhole == DbSpec => []ArchiveIsWhole
<1>1. DbInv => ArchiveIsWhole
  <2>. SUFFICES ASSUME DbInv, job.pc = "exported"
                PROVE  /\ \A n \in Name : n.base \notin touched =>
                            {Answer(e) : e \in Entries(n)} =
                              IF Has(params, n)
                              THEN {[value |-> ValueWithDecryption(keyring, params[n]),
                                     tags |-> params[n].tags]}
                              ELSE {}
                       /\ StoresAgree
    BY DEF ArchiveIsWhole
  <2>1. IInv /\ StoresTyped /\ JobInv /\ ParamsOut /\ ZonesOut /\ StatesOut
    BY DEF DbInv, JobPart
  <2>2. ArchiveOK(job.files) /\ Len(job.files) >= 2
    BY <2>1, JobFacts
  <2>3. \A n : Entries(n) = {e \in Archived("ssm") : e.name = n}
    BY <2>2, EntriesFacts
  <2>4. ASSUME NEW n \in Name, n.base \notin touched
        PROVE  {Answer(e) : e \in Entries(n)} =
                 IF Has(params, n)
                 THEN {[value |-> ValueWithDecryption(keyring, params[n]),
                        tags |-> params[n].tags]}
                 ELSE {}
    <3>1. /\ \A e \in Archived("ssm") : e.name = n => Reads(n, e)
          /\ Has(params, n) => \E e \in Archived("ssm") : e.name = n
      BY <2>1, <2>4 DEF ParamsOut, Exporting, Paged
    <3>2. CASE Has(params, n)
      <4>1. ValueWithDecryption(keyring, params[n]) = Plain(params[n])
        BY <2>1, <3>2, StoredReads
      <4>2. \A e \in Entries(n) :
              Answer(e) = [value |-> Plain(params[n]), tags |-> params[n].tags]
        BY <2>3, <3>1 DEF Answer, Reads
      <4>3. \E e : e \in Entries(n)
        BY <2>3, <3>1, <3>2
      <4>. QED
        BY <3>2, <4>1, <4>2, <4>3
    <3>3. CASE ~Has(params, n)
      <4>1. Entries(n) = {}
        BY <2>3, <3>1, <3>3 DEF Reads
      <4>. QED
        BY <3>3, <4>1
    <3>. QED
      BY <3>2, <3>3
  <2>5. ToExport("zones") = {} /\ ToExport("states") = {}
    BY DEF ToExport
  <2>6. \A z \in Zone \ (touched \cup job.skipped) :
          /\ \A e \in Archived("route53") : e.zone = z => zones[z] = e.records
          /\ Has(zones, z) => \E e \in Archived("route53") : e.zone = z
    BY <2>1, <2>5 DEF ZonesOut
  <2>7. \A p \in Project \ (touched \cup job.skipped) :
          /\ \A f \in Archived("tfstate") : f.project = p => states[p] = f.body
          /\ Has(states, p) => \E f \in Archived("tfstate") : f.project = p
    BY <2>1, <2>5 DEF StatesOut
  <2>8. StoresAgree
    BY <2>1, <2>2, <2>6, <2>7, Agree
  <2>. QED
    BY <2>4, <2>8
<1>. QED
  BY <1>1, DbInvariance, PTL

(* A name with the base b has the "/" in front or has it not.              *)
LEMMA TwoNames ==
  ASSUME ArchiveOK(job.files), NEW e \in Archived("ssm"),
         NEW b, e.name.base = b
  PROVE  e.name = PathKey(b) \/ e.name = [base |-> b, slash |-> FALSE]
<1>1. e \in Request
  BY LeftOfArchive DEF Archived, Elems
<1>. QED
  BY <1>1 DEF Request, Name, PathKey

(* An import that ends well leaves what the archive holds and no more, of  *)
(* all that nobody touches meanwhile, that the answer does not name as     *)
(* failed, and of states that could be read.                               *)
THEOREM ImportsRestore == DbSpec => []ImportRestores
<1>1. DbInv => ImportRestores
  <2>. SUFFICES ASSUME DbInv, job.pc = "imported"
                PROVE  /\ \A b \in Base \ (touched \cup job.skipped) :
                            Entries([base |-> b, slash |-> FALSE]) = {} =>
                              {GetParameter(PathKey(b))} =
                                LET es == {Answer(e) : e \in Entries(PathKey(b))}
                                IN IF es = {} THEN {Gone} ELSE es
                       /\ StoresAgree
    BY DEF ImportRestores
  <2>1. /\ IInv /\ LegalInv /\ StoresTyped
        /\ JobInv /\ OnlyIn /\ BackIn
        /\ "ssm" \in WipedNow /\ "route53" \in WipedNow /\ "states" \in WipedNow
    <3>1. JobInv
      BY DEF DbInv, JobPart
    <3>2. job.wiped = Stores
      BY <3>1, JobFacts DEF WipedBy
    <3>. QED
      BY <3>1, <3>2 DEF DbInv, JobPart, WipedNow, Stores, Restoring
  <2>2. ArchiveOK(job.files) /\ Len(job.files) >= 2
    BY <2>1, JobFacts
  <2>3. \A n : Entries(n) = {e \in Archived("ssm") : e.name = n}
    BY <2>2, EntriesFacts
  <2>4. \A kind : NotYet(kind) = {}
    <3>1. job.todo = <<>>
      BY <2>1, JobFacts DEF JobInv
    <3>. QED
      BY <3>1, LeftNone DEF NotYet
  <2>5. ASSUME NEW b \in Base, b \notin touched \cup job.skipped,
               Entries([base |-> b, slash |-> FALSE]) = {}
        PROVE  {GetParameter(PathKey(b))} =
                 LET es == {Answer(e) : e \in Entries(PathKey(b))}
                 IN IF es = {} THEN {Gone} ELSE es
    <3>1. \A f \in Archived("ssm") : f.name.base = b => f.name = PathKey(b)
      BY <2>2, <2>3, <2>5, TwoNames
    <3>2. /\ Has(params, PathKey(b)) =>
               \E e \in Archived("ssm") :
                 e.name.base = b /\ Reads(PathKey(b), e)
          /\ \A e \in Archived("ssm") :
               e.name = PathKey(b) => Reads(PathKey(b), e)
      BY <2>1, <2>4, <2>5, <3>1 DEF OnlyIn, ParamsOnly, BackIn, ParamsBack
    <3>3. CASE Entries(PathKey(b)) = {}
      <4>1. ~Has(params, PathKey(b))
        BY <2>3, <3>1, <3>2, <3>3
      <4>2. GetParameter(PathKey(b)) = Gone
        BY <2>1, <4>1, ReadFacts
      <4>. QED
        BY <3>3, <4>2
    <3>4. CASE Entries(PathKey(b)) # {}
      <4>1. Has(params, PathKey(b))
        BY <2>3, <3>2, <3>4 DEF Reads
      <4>2. GetParameter(PathKey(b)) = [value |-> Plain(params[PathKey(b)]),
                                        tags |-> params[PathKey(b)].tags]
        BY <2>1, <4>1, ReadFacts
      <4>3. \A e \in Entries(PathKey(b)) : Answer(e) = GetParameter(PathKey(b))
        BY <2>3, <3>2, <4>2 DEF Answer, Reads
      <4>. QED
        BY <3>4, <4>3
    <3>. QED
      BY <3>3, <3>4
  <2>6. \A z \in Zone \ (touched \cup job.skipped) :
          /\ \A e \in Archived("route53") : e.zone = z => zones[z] = e.records
          /\ Has(zones, z) => \E e \in Archived("route53") : e.zone = z
    BY <2>1, <2>4 DEF OnlyIn, ZonesOnly, BackIn, ZonesBack
  <2>7. \A p \in Project \ (touched \cup job.skipped) :
          /\ \A f \in Archived("tfstate") : f.project = p => states[p] = f.body
          /\ Has(states, p) => \E f \in Archived("tfstate") : f.project = p
    BY <2>1, <2>4 DEF OnlyIn, StatesOnly, BackIn, StatesBack
  <2>8. StoresAgree
    BY <2>1, <2>2, <2>6, <2>7, Agree
  <2>. QED
    BY <2>5, <2>8
<1>. QED
  BY <1>1, DbInvariance, PTL

(* Nothing that was in a store survives its wipe, wherever the import      *)
(* stops: at an error of a wipe, of an entry, of a file that cannot be     *)
(* read or of a state that cannot be written, or with the process.         *)
THEOREM NothingOldIsLeft == DbSpec => []NothingOldSurvives
<1>1. DbInv => NothingOldSurvives
  <2>. SUFFICES ASSUME DbInv, job.pc \in Restoring, NEW what \in job.wiped
                PROVE  OnlyArchived(what)
    BY DEF NothingOldSurvives
  <2>1. IInv /\ LegalInv /\ JobInv /\ ParamsOnly /\ ZonesOnly /\ StatesOnly
    BY DEF DbInv, JobPart, OnlyIn
  <2>2. /\ ArchiveOK(job.files) /\ Len(job.files) >= 2
        /\ what \in Stores /\ what \in WipedNow
    <3>1. job.pc # "idle" /\ job.pc \notin {"params", "toZones"}
      BY DEF Restoring
    <3>. QED
      BY <2>1, <3>1, JobFacts DEF WipedNow
  <2>3. /\ \A n : Entries(n) = {e \in Archived("ssm") : e.name = n}
        /\ \A z, rs : rs \in ArchivedRecords(z) <=>
             \E e \in Archived("route53") : e.zone = z /\ rs = e.records
        /\ \A p, b : b \in ArchivedBodies(p) <=>
             \E f \in Archived("tfstate") : f.project = p /\ b = f.body
    BY <2>2, EntriesFacts
  <2>4. CASE what = "ssm"
    <3>1. ASSUME NEW b \in Base, b \notin touched
          PROVE  GetParameter(PathKey(b)) \in {Gone} \cup
                   {Answer(e) : e \in Entries(PathKey(b))
                      \cup Entries([base |-> b, slash |-> FALSE])}
      <4>1. CASE ~Has(params, PathKey(b))
        BY <2>1, <4>1, ReadFacts
      <4>2. CASE Has(params, PathKey(b))
        <5>1. PICK e \in Archived("ssm") : e.name.base = b /\ Reads(PathKey(b), e)
          BY <2>1, <2>2, <2>4, <3>1, <4>2 DEF ParamsOnly
        <5>2. GetParameter(PathKey(b)) = Answer(e)
          BY <2>1, <4>2, <5>1, ReadFacts DEF Answer, Reads
        <5>3. \/ e \in Entries(PathKey(b))
              \/ e \in Entries([base |-> b, slash |-> FALSE])
          BY <2>2, <2>3, <5>1, TwoNames
        <5>. QED
          BY <5>2, <5>3
      <4>. QED
        BY <4>1, <4>2
    <3>. QED
      BY <2>4, <3>1 DEF OnlyArchived
  <2>5. CASE what = "route53"
    <3>1. \A z \in Zone \ touched : Has(zones, z) =>
            \/ zones[z] \in ArchivedRecords(z)
            \/ z \in job.skipped /\ zones[z] = {}
      BY <2>1, <2>2, <2>3, <2>5 DEF ZonesOnly
    <3>. QED
      BY <2>5, <3>1 DEF OnlyArchived
  <2>6. CASE what = "states"
    <3>1. \A p \in Project \ touched : Has(states, p) =>
            \/ states[p] \in ArchivedBodies(p)
            \/ p \in job.skipped /\ states[p] = Torn
      BY <2>1, <2>2, <2>3, <2>6 DEF StatesOnly
    <3>. QED
      BY <2>6, <3>1 DEF OnlyArchived
  <2>. QED
    BY <2>2, <2>4, <2>5, <2>6 DEF Stores
<1>. QED
  BY <1>1, DbInvariance, PTL
=============================================================================
