------------------------------ MODULE MCTempView ------------------------------
(* Instances of TempView for TLC.                                           *)
EXTENDS TempView, TLC

KeySymmetry == Permutations(Key)
===============================================================================
