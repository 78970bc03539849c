------------------------------- MODULE MCShop -------------------------------
(* Shops for TLC: one or two goods, two customers, the administrator.             *)
EXTENDS Shop, TLC

CONSTANTS s1, s2, adm, ann, bob, eve, root,
          customer, empfile, adminfile

MCUser == [s \in Sessions |-> IF s = s1 THEN ann ELSE IF s = s2 THEN bob ELSE root]
MCSameUser == [s \in Sessions |-> IF s = adm THEN root ELSE ann]
MCFileOf == (ann :> customer) @@ (bob :> customer) @@ (root :> adminfile)
MCThreeFiles == MCFileOf @@ (eve :> empfile)

(* The last of the first good is reordered when it is sold; the second is    *)
(* too expensive to reorder.                                                 *)
Good1 == [stock |-> 1, cost |-> 2, price |-> 5, level |-> 0, amount |-> 2]
Good2 == [stock |-> 2, cost |-> 9, price |-> 10, level |-> 1, amount |-> 9]
MCGoods1 == <<Good1>>
MCGoods2 == <<Good1, Good2>>
MCCash == [initial |-> 3, in |-> 0, out |-> 0, finl |-> 3]
MCBalance == (ann :> 8) @@ (bob :> 20) @@ (root :> 13)
MCBalances == MCBalance @@ (eve :> 6)
MCTerms == {[price |-> 10, level |-> 1, amount |-> 1]}
=============================================================================
