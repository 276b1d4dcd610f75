-------------------------------- MODULE Kms --------------------------------
(***************************************************************************)
(* internal/kms/types.go: the configured key list, how a KeyId argument is *)
(* resolved against it, and AES-GCM as what can be learned from it: only   *)
(* the same key material and the same additional data open a ciphertext.   *)
(*                                                                         *)
(* A keyring is the list of the configuration file: records of an alias,   *)
(* an id and key material.  A KeyId argument, once any ARN around it is    *)
(* removed, is "alias/<alias>" or an id: [by |-> "alias" or "id", val].    *)
(***************************************************************************)
EXTENDS Integers, Sequences

CONSTANTS Alias,        \* aliases, ids and material of the configuration
          Id,
          Material,
          BadArn,       \* an ARN that does not have six pieces
          NoKey,        \* what FindKeyId answers for it and for no match
          NoAad,        \* nil additional data, what ssm passes
          Unreadable    \* what DecryptString answers when it fails

KmsKey == [alias : Alias, id : Id, mat : Material]

AliasRef(a) == [by |-> "alias", val |-> a]
IdRef(i) == [by |-> "id", val |-> i]

KeyRef == {AliasRef(a) : a \in Alias} \cup {IdRef(i) : i \in Id}

Matches(key, ref) == ref \in {AliasRef(key.alias), IdRef(key.id)}

(* The first key of the list that has the alias or the id.                 *)
FindKeyId(keyring, ref) ==
  LET hits == {i \in DOMAIN keyring : Matches(keyring[i], ref)}
  IN IF ref = BadArn \/ hits = {}
     THEN NoKey
     ELSE keyring[CHOOSE i \in hits : \A j \in hits : i <= j]

Cipher(Plain, Aad) == [mat : Material, aad : Aad, plain : Plain]

EncryptString(key, plain, aad) ==
  [mat |-> key.mat, aad |-> aad, plain |-> plain]

DecryptString(key, cipher, aad) ==
  IF cipher.mat = key.mat /\ cipher.aad = aad THEN cipher.plain ELSE Unreadable
=============================================================================
