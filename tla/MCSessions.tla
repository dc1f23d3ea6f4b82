----------------------------- MODULE MCSessions -----------------------------
(* One user with three potions (1), two swords (2, 3) and room for two.     *)
EXTENDS Sessions, TLC

TypeOf == [i \in Items |-> IF i = 1 THEN "consum" ELSE "equip"]
SomeEvents == {<<1, "add", 1>>, <<1, "use", 0>>, <<2, "del", 1>>, <<3, "equip", 0>>}
SomeItems == [i \in Items |-> IF i = 1 THEN 3 ELSE 1]
FdSymmetry == Permutations(Fds)
=============================================================================
