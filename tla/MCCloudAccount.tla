---------------------------- MODULE MCCloudAccount ----------------------------
(* Two AWS nodes of one type and one GCP node.  A chia up; beside it an --add;  *)
(* and after it another --add or a chia down.                                  *)
EXTENDS CloudAccount, TLC

CONSTANTS c1, c2, c3

MCKinds == (c1 :> {"up"}) @@ (c2 :> {"add"}) @@ (c3 :> {"add", "down"})
MCAfter == (c1 :> {}) @@ (c2 :> {}) @@ (c3 :> {c1})
MCCount == (1 :> 2) @@ (2 :> 1)
=============================================================================
