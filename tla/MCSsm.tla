------------------------------- MODULE MCSsm -------------------------------
(* One or two parameters, a reserved name, two key lists of which the      *)
(* second puts a new key in front of the old one.                          *)
EXTENDS Ssm, TLC

CONSTANTS a, aws, v1, v2, env, prod, old, new, m1, m2, h1, h2

MCBase == {a, aws}
MCReserved == {aws}
MCValue == {v1, v2}
MCTagKey == {env}
MCTagVal == {prod}
MCAlias == {old, new}
MCMaterial == {m1, m2}
MCHandler == {h1, h2}
HandlerSymmetry == Permutations(MCHandler)

Key(alias, mat) == [alias |-> alias, id |-> mat, mat |-> mat]
MCKeyrings == {<<Key(old, m1)>>, <<Key(new, m2), Key(old, m1)>>}

Path(b) == [base |-> b, slash |-> TRUE]
Bare(b) == [base |-> b, slash |-> FALSE]

NoTags == [t \in MCTagKey |-> NoTag]
Tagged == [t \in MCTagKey |-> prod]

Put(n, type, v, tags, overwrite) ==
  [name |-> n, type |-> type, value |-> v, keyId |-> NoKeyId,
   tags |-> tags, overwrite |-> overwrite]

MCPutRequest ==
  { Put(Bare(a), "String", v1, NoTags, FALSE),
    Put(Path(a), "SecureString", v2, Tagged, TRUE),
    Put(Path(a), "SecureString", v1, NoTags, FALSE),
    Put(Bare(aws), "String", v1, NoTags, TRUE),
    Put(Path(a), "Unsupported", v2, NoTags, TRUE) }

AddTags(n) == [name |-> n, keys |-> MCTagKey, tags |-> Tagged]
RemoveTags(n) == [name |-> n, keys |-> MCTagKey, tags |-> NoTags]

PathTagRequest == {AddTags(Path(a)), RemoveTags(Path(a))}
MCTagRequest == PathTagRequest \cup {AddTags(Bare(a))}

MCDeleteList == {<<Path(aws), Bare(a)>>}

MCImportList ==
  { <<Put(Path(a), "SecureString", v1, Tagged, FALSE),
      Put(Bare(a), "String", v2, NoTags, FALSE)>> }
=============================================================================
