--------------------------- MODULE MCConfigAccount ---------------------------
(* ConfigAccount on small sets, for TLC.                                   *)
EXTENDS ConfigAccount, TLC

IdSymmetry == Permutations(Known)
==============================================================================
