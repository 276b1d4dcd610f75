--------------------------- MODULE MCDbFunctions ---------------------------
(* One parameter, which a tag edit may store under a second key, and pages *)
(* of one; one hosted zone with one record set beside SOA and NS; one      *)
(* project; and a key list that does not change.  Two values are needed    *)
(* only to see that an older copy wins.                                    *)
EXTENDS DbFunctions, TLC

CONSTANTS a, v1, v2, old, m1, h1, z1, r1, p1, s1

MCBase == {a}
MCReserved == {}
MCValue == {v1, v2}
MCTagKey == {}
MCTagVal == {}
MCAlias == {old}
MCMaterial == {m1}
MCHandler == {h1}
MCKeyrings == {<<[alias |-> old, id |-> m1, mat |-> m1]>>}

Path(b) == [base |-> b, slash |-> TRUE]
Bare(b) == [base |-> b, slash |-> FALSE]

NoTags == [t \in MCTagKey |-> NoTag]

Put(type, v, overwrite) ==
  [name |-> Path(a), type |-> type, value |-> v, keyId |-> NoKeyId,
   tags |-> NoTags, overwrite |-> overwrite]

MCPutRequest == {Put("SecureString", v1, FALSE)}
TwoValues == MCPutRequest \cup {Put("String", v2, FALSE)}
MCTagRequest == {[name |-> Bare(a), keys |-> {}, tags |-> NoTags]}

MCNone == {}
MCKeyOrder == <<Path(a), Bare(a)>>
MCZoneOrder == <<z1>>
MCFileOrder == <<p1>>
MCRecord == {r1}
MCContent == {{r1}}
MCBody == {s1}
MCDamage == {1, 2, 3}
=============================================================================
