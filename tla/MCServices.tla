----------------------------- MODULE MCServices -----------------------------
(* Two requests.  One may be for any operation, the other only for one     *)
(* that touches what handlers share: the rest meet nothing of each other.  *)
EXTENDS Services

CONSTANTS c1, c2

MCCalls == {c1, c2}

MCOperations ==
  c1 :> DOMAIN ClientMethods
  @@ c2 :> {"SnapshotBackup", "InstanceDelete", "InstanceList"}
=============================================================================
