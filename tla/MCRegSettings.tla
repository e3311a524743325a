---------------------------- MODULE MCRegSettings ---------------------------
(* Two slots and the console; bodies of none, one and two words.           *)
EXTENDS RegSettings, TLC

MCBodies == {<<>>, <<8>>, <<8, 1>>, <<16, 1>>, <<20, 1>>, <<12, 5>>, <<4, 7>>, <<50, 1>>}
SlotSymmetry == Permutations(Slots)
=============================================================================
