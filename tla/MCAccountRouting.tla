--------------------------- MODULE MCAccountRouting ---------------------------
(***************************************************************************)
(* AccountRouting for TLC: two legs on the account doom, one on zai, and   *)
(* two chains, one that stays on doom and one that moves on to zai.        *)
(***************************************************************************)
EXTENDS AccountRouting, TLC

CONSTANTS doom, zai, a, b, c

MCLegs == {a, b, c}

MCAccountOf == [l \in MCLegs |-> IF l = c THEN zai ELSE doom]

MCChains == {<<a, b>>, <<b, c>>}

Symmetry == Permutations(Requests)
=============================================================================
