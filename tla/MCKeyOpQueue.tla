----------------------------- MODULE MCKeyOpQueue -----------------------------
(* Instances of KeyOpQueue for TLC.                                         *)
EXTENDS KeyOpQueue, TLC

KeySymmetry == Permutations(Key)
===============================================================================
