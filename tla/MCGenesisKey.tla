----------------------------- MODULE MCGenesisKey -----------------------------
(* Genesis on keys of two bytes, for TLC.                                  *)
EXTENDS Genesis

(* Both ends of the three ranges of hexadecimal characters, and the        *)
(* characters just outside them.                                           *)
Characters == {47, 48, 57, 58, 64, 65, 70, 71, 96, 97, 102, 103}

MCTexts ==
    UNION {[1 .. n -> Characters] : n \in {0, 1, 2, 3, 4}} \cup {<<48, 49, 48, 49, 48>>}
==============================================================================
