------------------------------- MODULE MCManual -------------------------------
(* ManualProgram on small sets, for TLC.                                   *)
EXTENDS ManualProgram, TLC

AccountSymmetry == Permutations(Keys)
==============================================================================
