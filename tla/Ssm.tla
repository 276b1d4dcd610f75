-------------------------------- MODULE Ssm --------------------------------
(***************************************************************************)
(* The Parameter Store of internal/ssm: its bucket of parameters, the      *)
(* request handlers that net/http runs side by side over it, and restarts  *)
(* of the process with an edited key list.                                 *)
(*                                                                         *)
(* One transaction is one step.  PutParameter and DeleteParameter are one  *)
(* transaction; AddTagsToResource and RemoveTagsFromResource read in one   *)
(* and write in another; DeleteParameters and ImportParameters run one per *)
(* name.  Requests that change nothing (a refused put, a bad name, every   *)
(* read) are the operators the properties apply to a state.                *)
(*                                                                         *)
(* acked and lost are history variables: what a store that served the      *)
(* acknowledged operations one after the other would hold, and the names   *)
(* for which a tag edit went astray.  Nothing the code does reads them.    *)
(*                                                                         *)
(* Definitions whose name starts with Broken are faulty variants of the    *)
(* definition after them, used by no specification: each shows that a      *)
(* property would fail if the code had that fault.                         *)
(***************************************************************************)
EXTENDS Datastore, Kms

CONSTANTS
  Base,        \* parameter names without the leading "/"
  Reserved,    \* those that start with "aws" or "ssm" or end with "/"
  Value,       \* parameter values in the clear
  TagKey, TagVal,
  NoTag,       \* the value of a tag the parameter does not carry
  Keyrings,    \* the key lists the process may be started with
  NoKeyId,     \* the empty KeyId
  Handler,     \* requests that take several transactions, in flight at once
  PutRequest,  \* the PutParameter inputs
  TagRequest,  \* the AddTagsToResource and RemoveTagsFromResource inputs
  DeleteList,  \* the name lists of DeleteParameters
  ImportList,  \* the parameter lists of ImportParameters
  Gone,        \* what a serial store holds for a name it has not
  MaxVersion   \* no request starts once a parameter is at this version

(***************************************************************************)
(* Names (types.go).  A request may leave the leading "/" out.             *)
(***************************************************************************)
Name == [base : Base, slash : BOOLEAN]

PathKey(b) == [base |-> b, slash |-> TRUE]

asPathName(n) == PathKey(n.base)

ValidName(n) == n.base \notin Reserved

(***************************************************************************)
(* Stored parameters, and requests to store one.                           *)
(***************************************************************************)
Tags == [TagKey -> TagVal \cup {NoTag}]

KeyId == KeyRef \cup {NoKeyId}

Encryption == Cipher(Value, {NoAad})

ParameterData ==
  [name : Name, type : {"String", "SecureString"}, value : Value \cup Encryption,
   keyId : KeyId, tags : Tags, version : Nat]

(* "Unsupported" stands for any field NewParameterData rejects.            *)
Request ==
  [name : Name, type : {"String", "SecureString", "Unsupported"},
   value : Value, keyId : KeyId, tags : Tags, overwrite : BOOLEAN]

(* keys lists the tags an edit is about, tags their new values; a removal  *)
(* is the edit whose new values are NoTag.                                 *)
TagEdit == [name : Name, keys : SUBSET TagKey, tags : Tags]

SsmAssumption ==
  /\ Absent \notin ParameterData
  /\ Gone \notin [value : Value, tags : Tags]
  /\ Value \cap Encryption = {}
  /\ Unreadable \notin Value
  /\ PutRequest \subseteq Request
  /\ TagRequest \subseteq TagEdit
  /\ DeleteList \subseteq Seq(Name)
  /\ ImportList \subseteq Seq(Request)
  /\ Keyrings \subseteq Seq(KmsKey) \ {<<>>}
  /\ NoKey \notin KmsKey
  /\ BadArn \notin KeyRef

ASSUME SsmConstants == SsmAssumption

-----------------------------------------------------------------------------
VARIABLES
  params,   \* the ssm bucket
  keyring,  \* the key list this process was started with
  handler,  \* the requests in flight and how far they are
  acked,    \* history: what the acknowledged operations add up to
  lost      \* history: the names whose tag edit was misplaced or stale

store == <<params, acked, lost>>
vars == <<params, keyring, handler, acked, lost>>

Idle == [pc |-> "idle"]
Tagging(edit, copy) == [pc |-> "tagging", edit |-> edit, copy |-> copy]
Deleting(todo) == [pc |-> "deleting", todo |-> todo]
Importing(todo, overwrite) ==
  [pc |-> "importing", todo |-> todo, overwrite |-> overwrite]

HandlerState ==
  [pc : {"idle"}]
    \cup [pc : {"tagging"}, edit : TagEdit, copy : ParameterData]
    \cup [pc : {"deleting"}, todo : Seq(Name)]
    \cup [pc : {"importing"}, todo : Seq(Request), overwrite : BOOLEAN]

TypeOK ==
  /\ params \in [Name -> ParameterData \cup {Absent}]
  /\ keyring \in Keyrings
  /\ handler \in [Handler -> HandlerState]
  /\ acked \in [Base -> [value : Value, tags : Tags] \cup {Gone}]
  /\ lost \in SUBSET Base

Init ==
  /\ params = EmptyBucket(Name)
  /\ keyring \in Keyrings
  /\ handler = [h \in Handler |-> Idle]
  /\ acked = [b \in Base |-> Gone]
  /\ lost = {}

-----------------------------------------------------------------------------
(* Writing one parameter (datastore.go putParameter, persistParameter).    *)

MayPut(key, overwrite) == Has(params, key) => overwrite

BrokenNewVersion(key) ==   \* a new parameter gets the error version
  IF Has(params, key) THEN params[key].version + 1 ELSE -1

BrokenNewVersionStuck(key) ==   \* overwriting does not count
  IF Has(params, key) THEN params[key].version ELSE 1

NewVersion(key) == IF Has(params, key) THEN params[key].version + 1 ELSE 1

BrokenPutParameter(key, data, skipTagCopy) ==   \* skipTagCopy is ignored
  params' = [params EXCEPT ![key] =
              [data EXCEPT
                 !.tags = IF Has(params, key) THEN params[key].tags ELSE @,
                 !.version = NewVersion(key)]]

putParameter(key, data, skipTagCopy) ==
  params' = [params EXCEPT ![key] =
              [data EXCEPT
                 !.tags = IF Has(params, key) /\ ~skipTagCopy
                          THEN params[key].tags ELSE @,
                 !.version = NewVersion(key)]]

(* The KeyId of the request is not copied.                                 *)
NewParameterData(req) ==
  [name |-> asPathName(req.name), type |-> req.type, value |-> req.value,
   keyId |-> NoKeyId, tags |-> req.tags, version |-> 0]

DefaultKeyId == AliasRef(keyring[1].alias)

BrokenEncrypted(data) ==   \* records the first key, encrypts with the last
  IF data.type = "SecureString"
  THEN [data EXCEPT !.keyId = DefaultKeyId,
                    !.value = EncryptString(keyring[Len(keyring)],
                                            data.value, NoAad)]
  ELSE data

Encrypted(data) ==
  IF data.type = "SecureString"
  THEN [data EXCEPT !.keyId = DefaultKeyId,
                    !.value = EncryptString(FindKeyId(keyring, DefaultKeyId),
                                            data.value, NoAad)]
  ELSE data

Accepted(req) ==
  /\ ValidName(req.name)
  /\ req.type # "Unsupported"
  /\ MayPut(asPathName(req.name), req.overwrite)

(* The serial store: a put keeps the tags of what it replaces, unless the  *)
(* caller asked for its own.                                               *)
Acknowledge(req, skipTagCopy) ==
  LET b == req.name.base
      keep == acked[b] # Gone /\ ~skipTagCopy
  IN /\ acked' = [acked EXCEPT ![b] =
                    [value |-> req.value,
                     tags |-> IF keep THEN acked[b].tags ELSE req.tags]]
     /\ lost' = IF skipTagCopy THEN lost \ {b} ELSE lost

persistParameter(req, skipTagCopy) ==
  /\ Accepted(req)
  /\ putParameter(asPathName(req.name), Encrypted(NewParameterData(req)),
                  skipTagCopy)
  /\ Acknowledge(req, skipTagCopy)

-----------------------------------------------------------------------------
(* Reading one parameter (service.go getParameterByName, decrypt).         *)

Readable(n) == ValidName(n) /\ Has(params, asPathName(n))

(* Returned under the name that was asked for, "/" or not.                 *)
getParameterByName(n) == [params[asPathName(n)] EXCEPT !.name = n]

decrypt(keys, data) ==
  LET key == FindKeyId(keys, data.keyId)
  IN IF key = NoKey THEN Unreadable
     ELSE DecryptString(key, data.value, NoAad)

ValueWithDecryption(keys, data) ==
  IF data.type = "SecureString" THEN decrypt(keys, data) ELSE data.value

GetParameter(n) ==
  IF Readable(n)
  THEN LET data == getParameterByName(n)
       IN [value |-> ValueWithDecryption(keyring, data), tags |-> data.tags]
  ELSE Gone

-----------------------------------------------------------------------------
(* The bound: in-flight work may pass it by what it has left to write.     *)
MayStart ==
  \A k \in Name : Has(params, k) => params[k].version < MaxVersion

PutParameter(req) ==
  /\ MayStart
  /\ persistParameter(req, FALSE)
  /\ UNCHANGED <<keyring, handler>>

Erase(keys) ==
  /\ params' = DeleteKeys(params, keys)
  /\ acked' = [b \in Base |-> IF PathKey(b) \in keys THEN Gone ELSE acked[b]]
  /\ lost' = {b \in lost : PathKey(b) \notin keys}

(* The key is deleted whether it is there or not.                          *)
DeleteParameter(n) ==
  /\ ValidName(n)
  /\ Erase({asPathName(n)})
  /\ UNCHANGED <<keyring, handler>>

(* DeleteBucket: import of a whole archive wipes the store first.          *)
DeleteAllData ==
  /\ params' = DeleteBucket(params)
  /\ acked' = [b \in Base |-> Gone]
  /\ lost' = {}
  /\ UNCHANGED <<keyring, handler>>

(***************************************************************************)
(* AddTagsToResource and RemoveTagsFromResource.                           *)
(***************************************************************************)
BrokenReadForTags(h, edit) ==   \* reads with decryption
  /\ MayStart
  /\ handler[h] = Idle
  /\ Readable(edit.name)
  /\ LET data == getParameterByName(edit.name)
     IN handler' = [handler EXCEPT ![h] = Tagging(edit,
          [data EXCEPT !.value = ValueWithDecryption(keyring, data)])]
  /\ UNCHANGED <<keyring, store>>

ReadForTags(h, edit) ==
  /\ MayStart
  /\ handler[h] = Idle
  /\ Readable(edit.name)
  /\ handler' = [handler EXCEPT ![h] =
                   Tagging(edit, getParameterByName(edit.name))]
  /\ UNCHANGED <<keyring, store>>

Edited(tags, edit) ==
  [t \in TagKey |-> IF t \in edit.keys THEN edit.tags[t] ELSE tags[t]]

(* The copy is what is stored, and the write goes where it was read.       *)
Current(edit, copy) ==
  /\ edit.name.slash
  /\ params[edit.name] = copy

BrokenWriteTags(h) ==   \* the key is made a path, the name in the copy is not
  /\ handler[h].pc = "tagging"
  /\ LET edit == handler[h].edit
         copy == handler[h].copy
     IN putParameter(asPathName(copy.name),
                     [copy EXCEPT !.tags = Edited(copy.tags, edit)], TRUE)
  /\ handler' = [handler EXCEPT ![h] = Idle]
  /\ UNCHANGED <<keyring, acked, lost>>

(* Everything the copy holds is written back, under the name as requested. *)
WriteTags(h) ==
  /\ handler[h].pc = "tagging"
  /\ LET edit == handler[h].edit
         copy == handler[h].copy
         b == edit.name.base
     IN /\ putParameter(copy.name,
                        [copy EXCEPT !.tags = Edited(copy.tags, edit)], TRUE)
        /\ acked' = IF acked[b] = Gone THEN acked
                    ELSE [acked EXCEPT ![b].tags = Edited(@, edit)]
        /\ lost' = IF Current(edit, copy) THEN lost ELSE lost \cup {b}
  /\ handler' = [handler EXCEPT ![h] = Idle]
  /\ UNCHANGED keyring

(***************************************************************************)
(* DeleteParameters.                                                       *)
(***************************************************************************)
BeginDelete(h, names) ==
  /\ handler[h] = Idle
  /\ handler' = [handler EXCEPT ![h] = Deleting(names)]
  /\ UNCHANGED <<keyring, store>>

DeleteNext(h) ==
  /\ handler[h].pc = "deleting"
  /\ handler[h].todo # <<>>
  /\ LET n == Head(handler[h].todo)
     IN IF ValidName(n) THEN Erase({asPathName(n)}) ELSE UNCHANGED store
  /\ handler' = [handler EXCEPT ![h].todo = Tail(@)]
  /\ UNCHANGED keyring

(***************************************************************************)
(* ImportParameters: one put per entry, a refused entry is skipped.  An    *)
(* overwriting import also replaces the tags.                              *)
(***************************************************************************)
BeginImport(h, reqs, overwrite) ==
  /\ MayStart
  /\ handler[h] = Idle
  /\ handler' = [handler EXCEPT ![h] = Importing(reqs, overwrite)]
  /\ UNCHANGED <<keyring, store>>

ImportRequest(h) ==
  [Head(handler[h].todo) EXCEPT !.overwrite = handler[h].overwrite]

ImportNext(h) ==
  /\ handler[h].pc = "importing"
  /\ handler[h].todo # <<>>
  /\ \/ persistParameter(ImportRequest(h), handler[h].overwrite)
     \/ ~Accepted(ImportRequest(h)) /\ UNCHANGED store
  /\ handler' = [handler EXCEPT ![h].todo = Tail(@)]
  /\ UNCHANGED keyring

(* The loop of DeleteParameters or ImportParameters ends: the answer.      *)
Reply(h) ==
  /\ handler[h].pc \in {"deleting", "importing"}
  /\ handler[h].todo = <<>>
  /\ handler' = [handler EXCEPT ![h] = Idle]
  /\ UNCHANGED <<keyring, store>>

(* Key lists are edited by adding and reordering keys: every alias of the  *)
(* old list stands for the same material in the new one.                   *)
Extends(new, old) ==
  \A i \in DOMAIN old :
    LET was == FindKeyId(old, AliasRef(old[i].alias))
        is == FindKeyId(new, AliasRef(old[i].alias))
    IN is # NoKey /\ is.mat = was.mat

(* The process stops, whatever it was doing, and comes back with a key     *)
(* list.  The bucket is on disk; the requests are gone.                    *)
Restart(keys) ==
  /\ Extends(keys, keyring)
  /\ keyring' = keys
  /\ handler' = [h \in Handler |-> Idle]
  /\ UNCHANGED store

Step(h) == \/ WriteTags(h)
           \/ DeleteNext(h)
           \/ ImportNext(h)
           \/ Reply(h)

Next ==
  \/ \E req \in PutRequest : PutParameter(req)
  \/ \E n \in Name : DeleteParameter(n)
  \/ DeleteAllData
  \/ \E h \in Handler :
       \/ \E edit \in TagRequest : ReadForTags(h, edit)
       \/ \E names \in DeleteList : BeginDelete(h, names)
       \/ \E reqs \in ImportList, o \in BOOLEAN : BeginImport(h, reqs, o)
       \/ Step(h)
  \/ \E keys \in Keyrings : Restart(keys)

Spec == Init /\ [][Next]_vars

-----------------------------------------------------------------------------
(* A SecureString is never in the clear in the bucket, and nothing else is *)
(* encrypted: a tag edit writes back what it read, so it must not have     *)
(* read it decrypted.                                                      *)
SecureAtRest ==
  \A k \in Name : Has(params, k) =>
    (params[k].type = "SecureString" <=> params[k].value \in Encryption)

(* A parameter carries the name it is stored under, so that an export can  *)
(* be imported and a tag edit finds its way back.                          *)
NameIsKey == \A k \in Name : Has(params, k) => params[k].name = k

(* Every stored SecureString can be opened by the process that runs now    *)
(* and by every one it may be restarted as, also what a stale tag edit     *)
(* wrote back: one that could not be would make every export fail.         *)
ExportReadable ==
  \A k \in Name, keys \in Keyrings :
    (Has(params, k) /\ Extends(keys, keyring)) =>
      ValueWithDecryption(keys, params[k]) \in Value

(* Save for the names that lost a tag edit, GetParameter with decryption   *)
(* answers as if the acknowledged operations had run one after another:    *)
(* no interleaving of puts, deletes, imports, wipes, tag edits and         *)
(* restarts loses a write, brings a deleted parameter back or mixes up     *)
(* tags.                                                                   *)
SerialRead == \A b \in Base \ lost : GetParameter(PathKey(b)) = acked[b]

(* A version is never skipped, repeated or rewound while a parameter       *)
(* lives, whoever writes it: a new one starts at 1, and every change of    *)
(* one counts.                                                             *)
VersionStep(k) ==
  (Has(params', k) /\ params'[k] # params[k]) =>
    params'[k].version =
      IF Has(params, k) THEN params[k].version + 1 ELSE 1

VersionCountsWrites == [][\A k \in Name : VersionStep(k)]_vars
=============================================================================
