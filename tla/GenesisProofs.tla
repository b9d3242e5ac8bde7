----------------------------- MODULE GenesisProofs -----------------------------
(***************************************************************************)
(* Decoding the genesis key, for keys of every size and every text.        *)
(***************************************************************************)
EXTENDS Genesis, TLAPS

(* Every byte fits a byte and the index stays in the key.                  *)
TypeOK ==
    /\ hex \in Seq(Bytes)
    /\ key \in [0 .. Size - 1 -> Bytes]
    /\ i \in 0 .. Size
    /\ nonzero \in BOOLEAN
    /\ outcome \in {"Start", "Loop", "Key"} \cup Panics

(* The loop's invariant: the bytes before the index are spelled by the     *)
(* text, those after it are still zero, and the flag says whether any of   *)
(* them is not.  The flag alone says nothing of the key: what it covers is *)
(* what the check after the loop relies on.                                *)
Inv ==
    /\ TypeOK
    /\ outcome \notin {"Start", "BadLength"} => Len(hex) = 2 * Size
    /\ outcome = "Start" => i = 0
    /\ outcome \in {"Key", "AllZeros"} => i = Size
    /\ outcome = "BadLength" => Len(hex) # 2 * Size
    /\ outcome = "NotHex" => i < Size /\ (~IsHex(High) \/ ~IsHex(Low))
    /\ outcome = "Key" => nonzero
    /\ outcome = "AllZeros" => ~nonzero
    /\ \A b \in 0 .. Size - 1 : b < i => Spells(b)
    /\ nonzero <=> \E b \in 0 .. Size - 1 : b < i /\ key[b] # 0

(* nibble is the table's value of every hexadecimal character, and the     *)
(* table knows no other character.                                         *)
LEMMA NibbleIsTable ==
    ASSUME NEW c \in Bytes
    PROVE  /\ IsHex(c) => nibble(c) \in 0 .. 15 /\ <<c, nibble(c)>> \in HexTable
           /\ ~IsHex(c) => \A v \in 0 .. 15 : <<c, v>> \notin HexTable
<1>1. CASE Digit(c)
  <2>1. nibble(c) = c - 48 /\ c \in 48 .. 57
    BY <1>1 DEF nibble, Digit, Lower, Upper, Bytes
  <2> QED
    BY <2>1, <1>1 DEF HexTable, IsHex
<1>2. CASE Lower(c)
  <2>1. nibble(c) = c - 97 + 10 /\ c \in 97 .. 102
    BY <1>2 DEF nibble, Digit, Lower, Upper, Bytes
  <2> QED
    BY <2>1, <1>2 DEF HexTable, IsHex
<1>3. CASE Upper(c)
  <2>1. nibble(c) = c - 65 + 10 /\ c \in 65 .. 70
    BY <1>3 DEF nibble, Digit, Lower, Upper, Bytes
  <2> QED
    BY <2>1, <1>3 DEF HexTable, IsHex
<1>4. CASE ~IsHex(c)
  <2> SUFFICES ASSUME NEW v \in 0 .. 15, <<c, v>> \in HexTable PROVE FALSE
    BY <1>4
  <2>1. c \in 48 .. 57 \/ c \in 97 .. 102 \/ c \in 65 .. 70
    BY DEF HexTable
  <2> QED
    BY <2>1, <1>4 DEF IsHex, Digit, Lower, Upper
<1> QED
  BY <1>1, <1>2, <1>3, <1>4 DEF IsHex

(* The invariant holds before the loop.                                    *)
LEMMA InitInv == Init => Inv
<1> SUFFICES ASSUME Init PROVE Inv
  OBVIOUS
<1>1. hex \in Seq(Bytes) /\ Size \in Nat /\ i = 0 /\ outcome = "Start" /\ nonzero = FALSE
  BY GenesisAssumption DEF Init
<1>2. key \in [0 .. Size - 1 -> Bytes]
  BY <1>1 DEF Init, Bytes
<1>3. TypeOK
  <2>1. i \in 0 .. Size
    BY <1>1
  <2>2. nonzero \in BOOLEAN
    BY <1>1
  <2> QED
    BY <1>1, <1>2, <2>1, <2>2, Zenon DEF TypeOK
<1>4. \A b \in 0 .. Size - 1 : ~(b < i)
  BY <1>1
<1> QED
  BY <1>1, <1>3, <1>4 DEF Inv

(* A turn spells one more byte and keeps the flag honest.                  *)
LEMMA TurnInv == Inv /\ Turn => Inv'
<1> SUFFICES ASSUME Inv, Turn PROVE Inv'
  OBVIOUS
<1> DEFINE v == Byte(nibble(High), nibble(Low))
<1>1. /\ Size \in Nat /\ i \in Nat /\ i < Size /\ Len(hex) = 2 * Size
      /\ 2 * i + 1 \in 1 .. Len(hex) /\ 2 * i + 2 \in 1 .. Len(hex)
  <2>1. Size \in Nat /\ i \in Nat /\ i < Size
    BY GenesisAssumption DEF Inv, TypeOK, Turn
  <2>2. Len(hex) = 2 * Size
    BY DEF Inv, Turn
  <2> QED
    BY <2>1, <2>2
<1>2. High \in Bytes /\ Low \in Bytes
  <2>1. hex \in Seq(Bytes)
    BY DEF Inv, TypeOK
  <2> QED
    BY <1>1, <2>1 DEF High, Low
<1>3. /\ nibble(High) \in 0 .. 15 /\ <<High, nibble(High)>> \in HexTable
      /\ nibble(Low) \in 0 .. 15 /\ <<Low, nibble(Low)>> \in HexTable
  BY <1>2, NibbleIsTable DEF Turn
<1>4. v \in Bytes /\ v = 16 * nibble(High) + nibble(Low)
  BY <1>3 DEF Byte, Bytes
<1>5. /\ key' = [key EXCEPT ![i] = v] /\ key'[i] = v
      /\ \A b \in 0 .. Size - 1 : b # i => key'[b] = key[b]
      /\ i \in 0 .. Size - 1
  BY <1>1 DEF Turn, Inv, TypeOK
<1>6. i' = i + 1 /\ UNCHANGED <<hex, outcome>> /\ nonzero' = (nonzero \/ v # 0)
  BY <1>5 DEF Turn
<1> HIDE DEF v
<1>7. TypeOK'
  BY <1>1, <1>4, <1>5, <1>6 DEF Inv, TypeOK
<1>8. ASSUME NEW b \in 0 .. Size - 1, b < i' PROVE Spells(b)'
  <2>1. CASE b = i
    BY <2>1, <1>3, <1>4, <1>5, <1>6 DEF Spells, High, Low
  <2>2. CASE b # i
    <3>1. b < i
      BY <1>1, <1>6, <1>8, <2>2
    <3>2. Spells(b)
      BY <3>1 DEF Inv
    <3> QED
      BY <3>2, <2>2, <1>5, <1>6 DEF Spells
  <2> QED
    BY <2>1, <2>2
<1>9. nonzero' <=> \E b \in 0 .. Size - 1 : b < i' /\ key'[b] # 0
  <2>1. (nonzero \/ v # 0) <=> \E b \in 0 .. Size - 1 : (b < i \/ b = i) /\ key'[b] # 0
    BY <1>1, <1>5 DEF Inv
  <2>2. \A b \in 0 .. Size - 1 : b < i' <=> (b < i \/ b = i)
    BY <1>1, <1>6
  <2> QED
    BY <1>6, <2>1, <2>2
<1> QED
  BY <1>1, <1>6, <1>7, <1>8, <1>9 DEF Inv, Turn

(* Every other step leaves the loop's state alone.                         *)
LEMMA NextInv == Inv /\ [Next]_vars => Inv'
<1> SUFFICES ASSUME Inv, [Next]_vars PROVE Inv'
  OBVIOUS
<1>1. CASE Turn
  BY <1>1, TurnInv
<1>2. ASSUME UNCHANGED <<hex, key, i, nonzero>>
      PROVE  /\ \A b \in 0 .. Size - 1 : b < i' => Spells(b)'
             /\ nonzero' <=> \E b \in 0 .. Size - 1 : b < i' /\ key'[b] # 0
  BY <1>2 DEF Inv, Spells
<1>3. CASE Begin
  BY <1>2, <1>3 DEF Begin, Inv, TypeOK, Panics
<1>4. CASE Panic
  BY <1>2, <1>4 DEF Panic, Inv, TypeOK, Panics, High, Low
<1>5. CASE Finish
  BY <1>2, <1>5 DEF Finish, Inv, TypeOK, Panics
<1>6. CASE UNCHANGED vars
  BY <1>2, <1>6 DEF vars, Inv, TypeOK, Panics, High, Low
<1> QED
  BY <1>1, <1>3, <1>4, <1>5, <1>6 DEF Next

(* The inductive invariant holds in every run of the decoder.              *)
THEOREM InvHolds == Spec => []Inv
BY InitInv, NextInv, PTL DEF Spec

(* Every byte fits a byte and the index stays in the key.                  *)
THEOREM TypeCorrect == Spec => []TypeOK
<1>1. Inv => TypeOK
  BY DEF Inv
<1> QED
  BY <1>1, InvHolds, PTL

(* A build that carries a genesis key carries the one its text spells, and *)
(* not the all-zero id.                                                    *)
THEOREM KeyAlwaysSpelled == Spec => []KeyIsSpelled
<1>1. Inv => KeyIsSpelled
  BY GenesisAssumption DEF Inv, KeyIsSpelled
<1> QED
  BY <1>1, InvHolds, PTL

(* A build is refused only for the reason the panic gives.                 *)
THEOREM RefusalsHaveReasons == Spec => []PanicsForAReason
<1>1. Inv => PanicsForAReason
  <2> SUFFICES ASSUME Inv PROVE PanicsForAReason
    OBVIOUS
  <2>1. Size \in Nat /\ i \in Nat /\ hex \in Seq(Bytes)
    BY GenesisAssumption DEF Inv, TypeOK
  <2>2. ASSUME outcome = "NotHex"
        PROVE  \E c \in 1 .. Len(hex) : \A v \in 0 .. 15 : <<hex[c], v>> \notin HexTable
    <3>1. /\ i < Size /\ Len(hex) = 2 * Size
          /\ ~IsHex(hex[2 * i + 1]) \/ ~IsHex(hex[2 * i + 2])
      BY <2>2 DEF Inv, High, Low
    <3>2. 2 * i + 1 \in 1 .. Len(hex) /\ 2 * i + 2 \in 1 .. Len(hex)
      BY <2>1, <3>1
    <3>3. PICK c \in 1 .. Len(hex) : ~IsHex(hex[c])
      BY <3>1, <3>2
    <3>4. hex[c] \in Bytes
      BY <2>1
    <3> QED
      BY <3>3, <3>4, NibbleIsTable
  <2>3. ASSUME outcome = "AllZeros", NEW c \in 1 .. Len(hex)
        PROVE  hex[c] = 48
    <3>1. Len(hex) = 2 * Size /\ i = Size /\ ~nonzero
      BY <2>3 DEF Inv
    <3>2. PICK b \in 0 .. Size - 1 : c = 2 * b + 1 \/ c = 2 * b + 2
      <4>1. c \in Nat /\ c >= 1 /\ c <= 2 * Size
        BY <3>1
      <4> DEFINE b == (c - 1) \div 2
      <4>2. b \in 0 .. Size - 1 /\ (c = 2 * b + 1 \/ c = 2 * b + 2)
        BY <2>1, <4>1
      <4> QED
        BY <4>2
    <3>3. Spells(b) /\ key[b] = 0
      BY <2>1, <3>1 DEF Inv
    <3>4. PICK high \in 0 .. 15, low \in 0 .. 15 :
             /\ <<hex[2 * b + 1], high>> \in HexTable
             /\ <<hex[2 * b + 2], low>> \in HexTable
             /\ key[b] = 16 * high + low
      BY <3>3 DEF Spells
    <3>5. high = 0 /\ low = 0
      BY <3>3, <3>4
    <3>6. hex[2 * b + 1] = 48 /\ hex[2 * b + 2] = 48
      BY <3>4, <3>5 DEF HexTable
    <3> QED
      BY <3>2, <3>6
  <2> QED
    BY <2>2, <2>3 DEF PanicsForAReason, Inv
<1> QED
  BY <1>1, InvHolds, PTL
==============================================================================
