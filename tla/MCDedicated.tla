----------------------------- MODULE MCDedicated -----------------------------
(* DedicatedProgram on small sets, for TLC.                                *)
EXTENDS DedicatedProgram, TLC

(* Keys are interchangeable when none of them is the genesis key.          *)
KeySymmetry == Permutations(Keys)
==============================================================================
