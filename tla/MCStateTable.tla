----------------------------- MODULE MCStateTable -----------------------------
(* Instances of StateTable for TLC.                                         *)
EXTENDS StateTable, TLC

KeySymmetry == Permutations(Key)
===============================================================================
