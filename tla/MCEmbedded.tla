------------------------------ MODULE MCEmbedded ------------------------------
(* EmbeddedProgram on small sets, for TLC.                                 *)
EXTENDS EmbeddedProgram, TLC

AccountSymmetry == Permutations(Keys) \cup Permutations(Pdas)
==============================================================================
