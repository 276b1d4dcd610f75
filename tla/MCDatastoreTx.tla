--------------------------- MODULE MCDatastoreTx ---------------------------
(* Two clients and two keys: batches that delete then create a key, create *)
(* one twice, and create over what the other client left.                  *)
EXTENDS DatastoreTx

CONSTANTS k1, k2, v1, v2, c1, c2

MCKey == {k1, k2}
MCVal == {v1, v2}
MCClient == {c1, c2}

Del(k) == [op |-> "delete", key |-> k, data |-> v1]
New(k, v) == [op |-> "create", key |-> k, data |-> v]
Set(k, v) == [op |-> "overwrite", key |-> k, data |-> v]

MCBatch ==
  { <<>>, <<Del(k1)>>, <<New(k1, v1), New(k2, v1)>>,
    <<Del(k1), New(k1, v2), Set(k2, v2)>>,
    <<New(k2, v2), New(k2, v1)>>,
    <<Set(k2, v1), New(k1, v2)>>,
    <<Set(k1, v2), Del(k1), Del(k2)>> }
=============================================================================
