-------------------------------- MODULE Genesis --------------------------------
(***************************************************************************)
(* The compiled-in genesis key of admin-authority/src/genesis.rs: how      *)
(* SPEL_ADMIN_GENESIS is decoded while the program is built.  One action   *)
(* per part of genesis_from_hex: the length check, a turn of the loop, the *)
(* check after it.  A panic fails the build, so no program exists.         *)
(*                                                                         *)
(* A character is its ASCII code.  The key is Size bytes, 32 in the code.  *)
(***************************************************************************)
EXTENDS Naturals, Sequences

CONSTANTS Size,     \* bytes of an account id
          Texts     \* what the environment variable may hold

Bytes == 0 .. 255

ASSUME GenesisAssumption ==
    /\ Size \in Nat \ {0}
    /\ Texts \subseteq Seq(Bytes)

VARIABLES hex,      \* the text
          key,      \* the bytes decoded, 0 where none is yet
          i,        \* the loop's index
          nonzero,  \* the loop's flag
          outcome   \* "Start", "Loop", "Key", or the panic that stopped it

vars == <<hex, key, i, nonzero, outcome>>

Panics == {"BadLength", "NotHex", "AllZeros"}

Digit(c) == c \in 48 .. 57          \* '0' to '9'
Lower(c) == c \in 97 .. 102         \* 'a' to 'f'
Upper(c) == c \in 65 .. 70          \* 'A' to 'F'
IsHex(c) == Digit(c) \/ Lower(c) \/ Upper(c)

nibble(c) ==
    CASE Digit(c) -> c - 48
      [] Lower(c) -> c - 97 + 10
      [] Upper(c) -> c - 65 + 10

(* (high << 4) | low, of two nibbles.                                      *)
ByteSwapped(high, low) == 16 * low + high
Byte(high, low) == 16 * high + low

Begin ==
    /\ outcome = "Start"
    /\ outcome' = IF Len(hex) = 2 * Size THEN "Loop" ELSE "BadLength"
    /\ UNCHANGED <<hex, key, i, nonzero>>

(* bytes[2 * i] and bytes[2 * i + 1] of the source, counted from 1 here.   *)
High == hex[2 * i + 1]
Low == hex[2 * i + 2]

TurnOverwritesFlag ==
    /\ outcome = "Loop" /\ i < Size
    /\ IsHex(High) /\ IsHex(Low)
    /\ key' = [key EXCEPT ![i] = Byte(nibble(High), nibble(Low))]
    /\ nonzero' = (key'[i] # 0)
    /\ i' = i + 1
    /\ UNCHANGED <<hex, outcome>>

TurnForgetsIndex ==
    /\ outcome = "Loop" /\ i < Size
    /\ IsHex(High) /\ IsHex(Low)
    /\ key' = [key EXCEPT ![i] = Byte(nibble(High), nibble(Low))]
    /\ nonzero' = (nonzero \/ key'[i] # 0)
    /\ UNCHANGED <<hex, i, outcome>>

(* A turn of the loop.                                                     *)
Turn ==
    /\ outcome = "Loop" /\ i < Size
    /\ IsHex(High) /\ IsHex(Low)
    /\ key' = [key EXCEPT ![i] = Byte(nibble(High), nibble(Low))]
    /\ nonzero' = (nonzero \/ key'[i] # 0)
    /\ i' = i + 1
    /\ UNCHANGED <<hex, outcome>>

(* nibble panics in the middle of a turn.                                  *)
Panic ==
    /\ outcome = "Loop" /\ i < Size
    /\ ~IsHex(High) \/ ~IsHex(Low)
    /\ outcome' = "NotHex"
    /\ UNCHANGED <<hex, key, i, nonzero>>

Finish ==
    /\ outcome = "Loop" /\ i = Size
    /\ outcome' = IF nonzero THEN "Key" ELSE "AllZeros"
    /\ UNCHANGED <<hex, key, i, nonzero>>

Init ==
    /\ hex \in Texts
    /\ key = [b \in 0 .. Size - 1 |-> 0]
    /\ i = 0
    /\ nonzero = FALSE
    /\ outcome = "Start"

Next == Begin \/ Turn \/ Panic \/ Finish

(* The compiler runs the function to its end.                              *)
Spec == Init /\ [][Next]_vars /\ WF_vars(Next)

------------------------------------------------------------------------------
(* Properties.                                                             *)

(* The reference: the 22 hexadecimal characters and their values.          *)
HexTable ==
    {<<48, 0>>, <<49, 1>>, <<50, 2>>, <<51, 3>>, <<52, 4>>, <<53, 5>>, <<54, 6>>,
     <<55, 7>>, <<56, 8>>, <<57, 9>>,
     <<97, 10>>, <<98, 11>>, <<99, 12>>, <<100, 13>>, <<101, 14>>, <<102, 15>>,
     <<65, 10>>, <<66, 11>>, <<67, 12>>, <<68, 13>>, <<69, 14>>, <<70, 15>>}

(* Byte b of the key is what characters 2b and 2b + 1 of the text spell,   *)
(* the high nibble first.                                                  *)
Spells(b) ==
    \E high, low \in 0 .. 15 :
        /\ <<hex[2 * b + 1], high>> \in HexTable
        /\ <<hex[2 * b + 2], low>> \in HexTable
        /\ key[b] = 16 * high + low

(* A build that carries a genesis key carries the one its text spells, in  *)
(* either case, and it is not the all-zero id that nobody can sign as.     *)
KeyIsSpelled ==
    outcome = "Key" =>
        /\ Len(hex) = 2 * Size
        /\ \A b \in 0 .. Size - 1 : Spells(b)
        /\ \E b \in 0 .. Size - 1 : key[b] # 0

(* A build is refused only for the reason it gives.                        *)
PanicsForAReason ==
    /\ outcome = "BadLength" => Len(hex) # 2 * Size
    /\ outcome = "NotHex" => \E c \in 1 .. Len(hex) : \A v \in 0 .. 15 : <<hex[c], v>> \notin HexTable
    /\ outcome = "AllZeros" => \A c \in 1 .. Len(hex) : hex[c] = 48

(* Decoding ends, with a key or a refusal.                                 *)
Decides == <>(outcome \in {"Key"} \cup Panics)
==============================================================================
