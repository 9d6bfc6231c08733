------------------------------ MODULE MCUpgrade ------------------------------
(* Two people with the ids 1 and 2; the CMS may know them by any two ids   *)
(* of three, the same ones and each other's among them.                    *)
EXTENDS Upgrade, TLC

CONSTANTS p1, p2

MCOldIds == p1 :> 1 @@ p2 :> 2
MCCmsIds == {p1 :> i @@ p2 :> j : <<i, j>> \in {<<1, 2>>, <<2, 1>>, <<2, 3>>}}

CONSTANTS w1, w2
Symmetry == Permutations({w1, w2})

==============================================================================
