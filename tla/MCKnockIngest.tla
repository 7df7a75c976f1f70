--------------------------- MODULE MCKnockIngest ---------------------------
(* Constants of KnockIngest for TLC: two batches that name two addresses in *)
(* opposite orders and share a knock, and a single knock that one of them   *)
(* carries, too.                                                            *)
EXTENDS KnockIngest, TLC

CONSTANTS b1, b2, s1, k1, k2, k3, oak, elm

MCPosts == {b1, b2, s1}
MCBatched == {b1, b2}
MCPayload == b1 :> <<k1, k2, k1>> @@ b2 :> <<k2, k3>> @@ s1 :> <<k3>>
MCHashOf == k1 :> oak @@ k2 :> elm @@ k3 :> oak
=============================================================================
