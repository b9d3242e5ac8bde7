-------------------------- MODULE AdminConfigProofs --------------------------
(***************************************************************************)
(* What the operations of AdminConfig check and write, for data of any     *)
(* content and length and any offset.  Every other proof about the slot    *)
(* rests on these lemmas.                                                  *)
(***************************************************************************)
EXTENDS AdminConfig, TLAPS

(* Writing the slot's window of an account long enough for it keeps the    *)
(* length and every other cell, and reads back as what was written.        *)
LEMMA SpliceWindow ==
    ASSUME NEW S, NEW d \in Seq(S), NEW o \in Nat, Len(d) >= o + Width,
           NEW h \in S, NEW n \in S
    PROVE  LET r == Splice(Slot(h, n), d, o)
           IN  /\ r \in Seq(S)
               /\ Len(r) = Len(d)
               /\ r # <<>>
               /\ ConfigAt(r, o) = Slot(h, n)
               /\ \A i \in 1 .. Len(d) : i \notin {o + 1, o + 2} => r[i] = d[i]
<1> DEFINE r == Splice(Slot(h, n), d, o)
<1>1. o + 1 \in 1 .. Len(d) /\ o + 2 \in 1 .. Len(d)
  BY DEF Width
<1>2. r = [[d EXCEPT ![o + 1] = h] EXCEPT ![o + 2] = n]
  BY DEF Splice, Slot
<1>3. r \in Seq(S) /\ Len(r) = Len(d)
  BY <1>1, <1>2
<1>4. r # <<>>
  BY <1>1, <1>3
<1>5. r[o + 1] = h /\ r[o + 2] = n
  BY <1>1, <1>2
<1>6. \A i \in 1 .. Len(d) : i \notin {o + 1, o + 2} => r[i] = d[i]
  BY <1>2
<1> QED
  BY <1>3, <1>4, <1>5, <1>6 DEF ConfigAt

------------------------------------------------------------------------------
(* What a handler that returns Ok has checked.                             *)

(* SlotAssert passes only the holder of a live slot, having signed.        *)
LEMMA SlotAssertOk ==
    ASSUME NEW slot, NEW signer, NEW auth
    PROVE  /\ SlotAssert(slot, signer, auth) \in
                {"Ok", "Renounced", "MissingSignature", "NotHolder"}
           /\ SlotAssert(slot, signer, auth) = "Ok" <=>
                /\ slot.holder # Default
                /\ signer \in auth
                /\ signer = slot.holder
BY DEF SlotAssert

(* A transfer that succeeds has the admin's signature and a new admin that *)
(* is owned and either signed or is the PDA the candidate derives.         *)
LEMMA TransferOk ==
    ASSUME NEW cfg, NEW current, NEW candidate, NEW new, NEW auth, NEW own,
           Transfer(cfg, current, candidate, new, auth, own).err = "Ok"
    PROVE  /\ cfg.holder # Default /\ current = cfg.holder /\ current \in auth
           /\ new # Default /\ new \in own
           /\ new \in auth \/ (candidate.kind # "Signer" /\ candidate.address = new)
<1>1. SlotAssert(cfg, current, auth) = "Ok"
  BY SlotAssertOk DEF Transfer, Then, AdminErrorFrom
<1>2. Validate(candidate, new, auth, own) = "Ok" /\ SlotInitialize(new) = "Ok"
  BY <1>1 DEF Transfer, Then, AdminErrorFrom, Validate, SlotInitialize
<1> QED
  BY <1>1, <1>2, SlotAssertOk DEF Validate, SlotInitialize

(* An acceptance that succeeds is signed by the nominee of a live slot,    *)
(* and the nominee is owned.                                               *)
LEMMA AcceptOk ==
    ASSUME NEW cfg, NEW signer, NEW auth, NEW own,
           Accept(cfg, signer, auth, own).err = "Ok"
    PROVE  /\ cfg.holder # Default
           /\ cfg.nominee # Default /\ signer = cfg.nominee
           /\ signer \in auth /\ signer \in own
BY DEF Accept, SlotAccept, AdminErrorFrom

(* A self-election that succeeds is signed by an owned caller, and its     *)
(* config names the caller and no nominee.                                 *)
LEMMA BootstrapResultOk ==
    ASSUME NEW caller, NEW auth, NEW own,
           BootstrapResult(Signer, caller, auth, own).err = "Ok"
    PROVE  /\ caller # Default /\ caller \in own
           /\ BootstrapResult(Signer, caller, auth, own).cfg = Slot(caller, Default)
<1>1. Validate(Signer, caller, auth, own) = "Ok"
  BY DEF BootstrapResult, ConfigInitialize, Then, AdminErrorFrom, Validate, SlotInitialize
<1>2. BootstrapResult(Signer, caller, auth, own).cfg = Slot(caller, Default)
  BY DEF BootstrapResult, ConfigInitialize
<1> QED
  BY <1>1, <1>2 DEF Validate, Signer

(* AssertAdmin passes exactly whom SlotAssert passes.                      *)
LEMMA AssertAdminOk ==
    ASSUME NEW cfg, NEW signer, NEW auth
    PROVE  AssertAdmin(cfg, signer, auth) = "Ok" <=>
             cfg.holder # Default /\ signer \in auth /\ signer = cfg.holder
BY SlotAssertOk DEF AssertAdmin, AdminErrorFrom

(* A windowed operation that succeeds found a slot, its transition         *)
(* succeeded, and it wrote exactly the transition's config.                *)
LEMMA SpliceResultOk ==
    ASSUME NEW d, NEW o, NEW res, SpliceResult(res, d, o).err = "Ok"
    PROVE  /\ d # <<>> /\ ~(Len(d) < o + Width)
           /\ res.err = "Ok"
           /\ SpliceResult(res, d, o).data = Splice(res.cfg, d, o)
<1>1. DecodeAtError(d, o) = "Ok" /\ res.err = "Ok"
  BY DEF SpliceResult, Load, Then, DecodeAtError
<1>2. d # <<>> /\ ~(Len(d) < o + Width)
  BY <1>1 DEF DecodeAtError
<1>3. SpliceResult(res, d, o).data = Splice(res.cfg, d, o)
  BY <1>1 DEF SpliceResult, Load, Then
<1> QED
  BY <1>1, <1>2, <1>3

------------------------------------------------------------------------------
(* Data that is exactly one slot.                                          *)

(* A sequence of two cells is given by them.                               *)
LEMMA TwoCells ==
    ASSUME NEW S, NEW r \in Seq(S), Len(r) = 2
    PROVE  r = <<r[1], r[2]>>
<1>1. DOMAIN r = 1 .. 2 /\ r = [i \in 1 .. 2 |-> r[i]]
  OBVIOUS
<1> QED
  BY <1>1

(* Over one slot or nothing the strict renounce, which replaces the whole  *)
(* data, does what the windowed one does at offset 0.                      *)
LEMMA RenounceFormsAgree ==
    ASSUME NEW S, NEW d \in Seq(S), Len(d) \in {0, Width}, Default \in S,
           NEW caller, NEW auth
    PROVE  PerformRenounce(d, caller, auth) = PerformRenounceAt(d, 0, caller, auth)
<1> DEFINE res == Renounce(ConfigAt(d, 0), caller, auth)
           spliced == Splice(res.cfg, d, 0)
<1>1. CASE d = <<>>
  BY <1>1 DEF PerformRenounce, PerformRenounceAt, SpliceResult, Load, Then,
              DecodeError, DecodeAtError
<1>2. CASE d # <<>>
  <2>1. Len(d) # 0
    BY <1>2
  <2>2. Len(d) = Width
    BY <2>1
  <2>3. Len(d) >= 0 + Width
    BY <2>2 DEF Width
  <2>4. res.cfg = Slot(Default, Default)
    BY DEF Renounce
  <2>5. /\ Splice(Slot(Default, Default), d, 0) \in Seq(S)
        /\ Len(Splice(Slot(Default, Default), d, 0)) = Len(d)
        /\ ConfigAt(Splice(Slot(Default, Default), d, 0), 0) = Slot(Default, Default)
    BY <2>3, SpliceWindow
  <2>6. /\ spliced \in Seq(S) /\ Len(spliced) = 2
        /\ ConfigAt(spliced, 0) = Slot(Default, Default)
    BY <2>2, <2>4, <2>5 DEF Width
  <2> HIDE DEF spliced
  <2>7. spliced = <<Default, Default>>
    BY <2>6, TwoCells DEF ConfigAt, Slot
  <2>8. Encode(res.cfg) = spliced
    BY <2>4, <2>7 DEF Encode, Slot
  <2>9. DecodeError(d) = "Ok" /\ DecodeAtError(d, 0) = "Ok"
    BY <1>2, <2>2 DEF DecodeError, DecodeAtError, Width
  <2>10. PerformRenounce(d, caller, auth) = Load("Ok", res, d, spliced)
    BY <2>8, <2>9 DEF PerformRenounce
  <2>11. PerformRenounceAt(d, 0, caller, auth) = Load("Ok", res, d, spliced)
    BY <2>9 DEF PerformRenounceAt, SpliceResult, spliced
  <2> QED
    BY <2>10, <2>11
<1> QED
  BY <1>1, <1>2
==============================================================================
