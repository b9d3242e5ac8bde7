------------------------- MODULE ConfigAccountProofs -------------------------
(***************************************************************************)
(* What the library guarantees to any caller, for data of any length, any  *)
(* offset and any evidence.                                                *)
(***************************************************************************)
EXTENDS ConfigAccount, AdminConfigProofs

(* What the four transitions have in common: the errors they can answer,   *)
(* "Renounced" exactly on a slot that is, and ids in the config they leave *)
(* that the slot held already or the caller passed.                        *)
Moves(res, cfg) ==
    /\ res.err \in {"Ok"} \cup (AdminErrors \ {"NotInitialized", "SlotOutOfBounds"})
    /\ res.err = "Renounced" <=> cfg.holder = Default
    /\ res.cfg = Slot(res.cfg.holder, res.cfg.nominee)
    /\ {res.cfg.holder, res.cfg.nominee} \subseteq Ids \cup {cfg.holder, cfg.nominee}

(* The transitions of a call that is not a renounce leave a live slot.      *)
Live(op, res) ==
    op \in {"Transfer", "Nominate", "Accept"} /\ res.err = "Ok" => res.cfg.holder # Default

------------------------------------------------------------------------------
(* Errors and their codes.                                                 *)

(* The sixteen errors by name.                                             *)
LEMMA ErrorNames ==
    AdminErrors = {"NotInitialized", "Renounced", "NotAdmin", "MissingSignature",
                   "InvalidCandidate", "UndeployedPda", "CandidateMismatch",
                   "EncodingFailed", "DecodingFailed", "AccountDataTooLarge",
                   "SlotOutOfBounds", "UnownedSigner", "NoNomination", "NotNominee",
                   "NotGenesisAdmin", "ConfigNotOwned"}
BY DEF AdminErrors, Code

(* Three of the reported codes belong to one error each.                   *)
LEMMA CodesAreOwn ==
    ASSUME NEW err \in {"Ok"} \cup AdminErrors
    PROVE  /\ (Reported(err) = 6101) <=> (err = "NotInitialized")
           /\ (Reported(err) = 6111) <=> (err = "SlotOutOfBounds")
           /\ (Reported(err) = 6102) <=> (err = "Renounced")
BY ErrorNames DEF Reported, Code

------------------------------------------------------------------------------
(* The transitions.                                                        *)

(* Validate refuses with one of four errors.                               *)
LEMMA ValidateErrors ==
    ASSUME NEW candidate, NEW new, NEW auth, NEW own
    PROVE  Validate(candidate, new, auth, own) \in
             {"Ok", "InvalidCandidate", "UnownedSigner", "CandidateMismatch", "UndeployedPda"}
BY DEF Validate

(* A transfer.                                                             *)
LEMMA TransferMoves ==
    ASSUME NEW cfg, NEW current, NEW candidate, NEW new \in Ids, NEW auth, NEW own
    PROVE  /\ Moves(Transfer(cfg, current, candidate, new, auth, own), cfg)
           /\ Live("Transfer", Transfer(cfg, current, candidate, new, auth, own))
<1> DEFINE asserted == SlotAssert(cfg, current, auth)
           validated == Validate(candidate, new, auth, own)
           res == Transfer(cfg, current, candidate, new, auth, own)
<1>1. /\ asserted \in {"Ok", "Renounced", "MissingSignature", "NotHolder"}
      /\ asserted = "Renounced" <=> cfg.holder = Default
  BY DEF SlotAssert
<1>2. validated \in {"Ok", "InvalidCandidate", "UnownedSigner", "CandidateMismatch",
                     "UndeployedPda"}
  BY ValidateErrors
<1>3. SlotInitialize(new) \in {"Ok", "InvalidCandidate"}
  BY DEF SlotInitialize
<1>4. /\ res.err = AdminErrorFrom(Then(asserted, Then(validated, SlotInitialize(new))))
      /\ res.cfg = Slot(new, Default)
  BY DEF Transfer
<1>5. res.cfg.holder = new /\ res.cfg.nominee = Default /\ Default \in Ids
  BY <1>4 DEF Slot, Ids
<1> HIDE DEF asserted, validated, res
<1>6. /\ res.err \in {"Ok"} \cup (AdminErrors \ {"NotInitialized", "SlotOutOfBounds"})
      /\ res.err = "Renounced" <=> cfg.holder = Default
      /\ res.err = "Ok" => SlotInitialize(new) = "Ok"
  BY <1>1, <1>2, <1>3, <1>4, ErrorNames DEF AdminErrorFrom, Then
<1>7. Live("Transfer", res)
  BY <1>5, <1>6 DEF Live, SlotInitialize
<1>8. Moves(res, cfg)
  BY <1>4, <1>5, <1>6 DEF Moves
<1> QED
  BY <1>7, <1>8 DEF res

(* What an assertion answers, as the two transitions below report it.       *)
LEMMA AssertAdminErrors ==
    ASSUME NEW cfg, NEW signer, NEW auth
    PROVE  /\ AssertAdmin(cfg, signer, auth)
                \in {"Ok", "Renounced", "MissingSignature", "NotAdmin"}
           /\ AssertAdmin(cfg, signer, auth) = "Renounced" <=> cfg.holder = Default
BY DEF AssertAdmin, AdminErrorFrom, SlotAssert

(* A nomination.                                                           *)
LEMMA NominateMoves ==
    ASSUME NEW cfg, NEW current, NEW new \in Ids, NEW auth
    PROVE  /\ Moves(Nominate(cfg, current, new, auth), cfg)
           /\ Live("Nominate", Nominate(cfg, current, new, auth))
<1> DEFINE res == Nominate(cfg, current, new, auth)
<1>1. res.err = AssertAdmin(cfg, current, auth) /\ res.cfg = Slot(cfg.holder, new)
  BY DEF Nominate
<1>2. res.cfg.holder = cfg.holder /\ res.cfg.nominee = new
  BY <1>1 DEF Slot
<1>3. /\ res.err \in {"Ok"} \cup (AdminErrors \ {"NotInitialized", "SlotOutOfBounds"})
      /\ res.err = "Renounced" <=> cfg.holder = Default
  BY <1>1, AssertAdminErrors, ErrorNames
<1>4. res.err = "Ok" => cfg.holder # Default
  BY <1>1, AssertAdminOk
<1> HIDE DEF res
<1>5. Moves(res, cfg) /\ Live("Nominate", res)
  BY <1>1, <1>2, <1>3, <1>4 DEF Moves, Live
<1> QED
  BY <1>5 DEF res

(* An acceptance.                                                          *)
LEMMA AcceptMoves ==
    ASSUME NEW cfg, NEW signer, NEW auth, NEW own
    PROVE  /\ Moves(Accept(cfg, signer, auth, own), cfg)
           /\ Live("Accept", Accept(cfg, signer, auth, own))
<1> DEFINE res == Accept(cfg, signer, auth, own)
<1>1. res.cfg = Slot(cfg.nominee, Default)
  BY DEF Accept
<1>2. res.cfg.holder = cfg.nominee /\ res.cfg.nominee = Default /\ Default \in Ids
  BY <1>1 DEF Slot, Ids
<1>3. /\ res.err \in {"Ok"} \cup (AdminErrors \ {"NotInitialized", "SlotOutOfBounds"})
      /\ res.err = "Renounced" <=> cfg.holder = Default
  BY ErrorNames DEF Accept, SlotAccept, AdminErrorFrom
<1>4. res.err = "Ok" => cfg.nominee # Default
  BY AcceptOk
<1> HIDE DEF res
<1>5. Moves(res, cfg) /\ Live("Accept", res)
  BY <1>1, <1>2, <1>3, <1>4 DEF Moves, Live
<1> QED
  BY <1>5 DEF res

(* A renounce.                                                             *)
LEMMA RenounceMoves ==
    ASSUME NEW cfg, NEW current, NEW auth
    PROVE  /\ Moves(Renounce(cfg, current, auth), cfg)
           /\ Live("Renounce", Renounce(cfg, current, auth))
<1> DEFINE res == Renounce(cfg, current, auth)
<1>1. res.err = AssertAdmin(cfg, current, auth) /\ res.cfg = Slot(Default, Default)
  BY DEF Renounce
<1>2. res.cfg.holder = Default /\ res.cfg.nominee = Default /\ Default \in Ids
  BY <1>1 DEF Slot, Ids
<1>3. /\ res.err \in {"Ok"} \cup (AdminErrors \ {"NotInitialized", "SlotOutOfBounds"})
      /\ res.err = "Renounced" <=> cfg.holder = Default
  BY <1>1, AssertAdminErrors, ErrorNames
<1> HIDE DEF res
<1>4. Moves(res, cfg) /\ Live("Renounce", res)
  BY <1>1, <1>2, <1>3 DEF Moves, Live
<1> QED
  BY <1>4 DEF res

(* A bootstrap answers the error of its candidate, and names the new admin. *)
LEMMA BootstrapResultMoves ==
    ASSUME NEW candidate, NEW new \in Ids, NEW auth, NEW own
    PROVE  /\ BootstrapResult(candidate, new, auth, own).err \in {"Ok"} \cup AdminErrors
           /\ BootstrapResult(candidate, new, auth, own).cfg = Slot(new, Default)
<1>1. BootstrapResult(candidate, new, auth, own).err
        = Then(AdminErrorFrom(Validate(candidate, new, auth, own)),
               AdminErrorFrom(SlotInitialize(new)))
  BY DEF BootstrapResult, ConfigInitialize
<1>2. BootstrapResult(candidate, new, auth, own).cfg = Slot(new, Default)
  BY DEF BootstrapResult, ConfigInitialize
<1>3. SlotInitialize(new) \in {"Ok", "InvalidCandidate"}
  BY DEF SlotInitialize
<1>4. BootstrapResult(candidate, new, auth, own).err \in {"Ok"} \cup AdminErrors
  BY <1>1, <1>3, ValidateErrors, ErrorNames DEF Then, AdminErrorFrom
<1> QED
  BY <1>2, <1>4

------------------------------------------------------------------------------
(* The calls.                                                              *)

(* Everything a step has to do.                                            *)
Behaves == TypeOK' /\ WritesItsWindow /\ LeavesItLive /\ LeavesItDead /\ CodeTells

(* A transition spliced into the data: it fails and changes nothing, or    *)
(* succeeds and changes the window.                                        *)
LEMMA SpliceResultKeeps ==
    ASSUME NEW d \in Seq(Cells), NEW o \in Nat, NEW res, Moves(res, ConfigAt(d, o))
    PROVE  LET r == SpliceResult(res, d, o)
           IN  /\ r.err = Then(DecodeAtError(d, o), res.err)
               /\ r.err # "Ok" => r.data = d
               /\ r.err = "Ok" => Fits(d, o) /\ ConfigAt(r.data, o) = res.cfg
               /\ r.data \in Seq(Cells) /\ Len(r.data) = Len(d)
               /\ \A i \in 1 .. Len(d) : i \notin {o + 1, o + 2} => r.data[i] = d[i]
<1> DEFINE r == SpliceResult(res, d, o)
<1>1. r.err = Then(DecodeAtError(d, o), res.err) /\ (r.err # "Ok" => r.data = d)
  BY DEF SpliceResult, Load
<1>2. CASE r.err # "Ok"
  BY <1>1, <1>2
<1>3. CASE r.err = "Ok"
  <2>1. /\ ~(Len(d) < o + Width)
        /\ r.data = Splice(res.cfg, d, o)
    BY <1>3, SpliceResultOk
  <2>2. Len(d) >= o + Width /\ o + 1 \in 1 .. Len(d) /\ o + 2 \in 1 .. Len(d)
    BY <2>1 DEF Width
  <2>3. ConfigAt(d, o).holder \in Cells /\ ConfigAt(d, o).nominee \in Cells
    BY <2>2 DEF ConfigAt, Slot
  <2> DEFINE h == res.cfg.holder
             n == res.cfg.nominee
  <2>4. h \in Cells /\ n \in Cells /\ res.cfg = Slot(h, n)
    BY <2>3 DEF Moves, Cells
  <2> HIDE DEF h, n
  <2>5. LET w == Splice(Slot(h, n), d, o)
        IN  /\ w \in Seq(Cells) /\ Len(w) = Len(d)
            /\ ConfigAt(w, o) = Slot(h, n)
            /\ \A i \in 1 .. Len(d) : i \notin {o + 1, o + 2} => w[i] = d[i]
    BY <2>2, <2>4, SpliceWindow
  <2> HIDE DEF r
  <2>6. Fits(d, o)
    BY <2>2 DEF Fits
  <2> QED
    BY <1>1, <1>3, <2>1, <2>4, <2>5, <2>6 DEF r
<1> QED
  BY <1>2, <1>3

(* A windowed management call.                                             *)
LEMMA WindowCall ==
    ASSUME TypeOK, NEW o \in Offsets, NEW res, Moves(res, ConfigAt(data, o)),
           NEW op \in {"Transfer", "Nominate", "Accept", "Renounce"}, Live(op, res),
           Return(op, o, SpliceResult(res, data, o))
    PROVE  Behaves
<1> DEFINE r == SpliceResult(res, data, o)
<1>1. /\ data' = r.data
      /\ call' = [op |-> op, offset |-> o, form |-> "window", err |-> r.err]
  BY DEF Return
<1>2. o \in Nat /\ data \in Seq(Cells)
  BY ConfigAccountAssumption DEF Offsets, TypeOK
<1>3. /\ r.err = Then(DecodeAtError(data, o), res.err)
      /\ r.err # "Ok" => r.data = data
      /\ r.err = "Ok" => Fits(data, o) /\ ConfigAt(r.data, o) = res.cfg
      /\ r.data \in Seq(Cells) /\ Len(r.data) = Len(data)
      /\ \A i \in 1 .. Len(data) : i \notin {o + 1, o + 2} => r.data[i] = data[i]
  BY <1>2, SpliceResultKeeps
<1> HIDE DEF r
<1>4. /\ call'.op = op /\ call'.offset = o /\ call'.form = "window" /\ call'.err = r.err
  BY <1>1
<1>5. DecodeAtError(data, o) = IF data = <<>> THEN "NotInitialized"
                               ELSE IF ~Fits(data, o) THEN "SlotOutOfBounds" ELSE "Ok"
  BY <1>2 DEF DecodeAtError, Fits, Width
<1>6. Fits(data, o) => data # <<>>
  BY <1>2 DEF Fits, Width
<1>7. r.err \in {"Ok"} \cup AdminErrors
  BY <1>3, <1>5, ErrorNames DEF Then, Moves
<1>8. TypeOK'
  BY <1>1, <1>3, <1>7 DEF TypeOK, Operations
<1>9. WritesItsWindow
  <2>1. \A i \in DOMAIN data : data'[i] # data[i] => i \in o + 1 .. o + Width
    BY <1>1, <1>2, <1>3 DEF Width
  <2> QED
    BY <1>1, <1>3, <1>4, <2>1 DEF WritesItsWindow
<1>10. LeavesItLive
  BY <1>1, <1>3, <1>4 DEF LeavesItLive, Live, Then
<1>11. r.err = "Renounced" <=> Fits(data, o) /\ ConfigAt(data, o).holder = Default
  BY <1>3, <1>5, <1>6 DEF Then, Moves
<1>12. LeavesItDead
  BY <1>1, <1>3, <1>4, <1>11 DEF LeavesItDead
<1>13. /\ r.err = "NotInitialized" <=> data = <<>>
       /\ r.err = "SlotOutOfBounds" <=> data # <<>> /\ ~Fits(data, o)
  BY <1>3, <1>5, <1>6 DEF Then, Moves
<1>14. CodeTells
  <2>1. call'.err \in {"Ok"} \cup AdminErrors
    BY <1>4, <1>7
  <2>2. /\ call'.err = "NotInitialized" <=> data = <<>>
        /\ call'.err = "SlotOutOfBounds" <=> data # <<>> /\ ~Fits(data, call'.offset)
        /\ call'.err = "Renounced" <=>
             Fits(data, call'.offset) /\ ConfigAt(data, call'.offset).holder = Default
    BY <1>4, <1>11, <1>13
  <2> DEFINE e == call'.err
  <2>3. /\ Reported(e) = 6101 <=> e = "NotInitialized"
        /\ Reported(e) = 6111 <=> e = "SlotOutOfBounds"
        /\ Reported(e) = 6102 <=> e = "Renounced"
    <3> HIDE DEF e
    <3>1. e \in {"Ok"} \cup AdminErrors
      BY <2>1 DEF e
    <3> QED
      BY <3>1, CodesAreOwn
  <2>4. /\ Reported(e) = 6101 <=> data = <<>>
        /\ Reported(e) = 6111 <=> data # <<>> /\ ~Fits(data, call'.offset)
        /\ Reported(e) = 6102 <=>
             Fits(data, call'.offset) /\ ConfigAt(data, call'.offset).holder = Default
    BY <2>2, <2>3
  <2> QED
    BY <2>4 DEF CodeTells
<1> QED
  BY <1>8, <1>9, <1>10, <1>12, <1>14 DEF Behaves

(* A renounce over the whole data.                                         *)
LEMMA WholeRenounce ==
    ASSUME TypeOK, NEW a \in Ids, NEW auth,
           ReturnWhole("Renounce", PerformRenounce(data, a, auth))
    PROVE  Behaves
<1> DEFINE res == Renounce(ConfigAt(data, 0), a, auth)
           r == PerformRenounce(data, a, auth)
<1>1. /\ data' = r.data
      /\ call' = [op |-> "Renounce", offset |-> 0, form |-> "whole", err |-> r.err]
  BY DEF ReturnWhole
<1>2. /\ r.err = Then(DecodeError(data), res.err)
      /\ r.data = IF r.err = "Ok" THEN <<Default, Default>> ELSE data
  BY DEF PerformRenounce, Load, Encode, Renounce, Slot
<1>3. Moves(res, ConfigAt(data, 0))
  BY RenounceMoves
<1> HIDE DEF r, res
<1>4. DecodeError(data) \in {"Ok", "NotInitialized", "DecodingFailed"}
  BY DEF DecodeError
<1>5. r.err \in {"Ok"} \cup AdminErrors
  BY <1>2, <1>3, <1>4, ErrorNames DEF Then, Moves
<1>6. <<Default, Default>> \in Seq(Cells)
  BY DEF Cells, Ids
<1>7. 0 \in Offsets
  BY ConfigAccountAssumption DEF Offsets
<1>8. TypeOK'
  BY <1>1, <1>2, <1>5, <1>6, <1>7 DEF TypeOK, Operations
<1>9. WritesItsWindow /\ LeavesItLive /\ CodeTells
  BY <1>1, <1>2 DEF WritesItsWindow, LeavesItLive, CodeTells
<1>10. ConfigAt(data, 0).holder = Default => r.err # "Ok"
  BY <1>2, <1>3, <1>4 DEF Then, Moves
<1>11. LeavesItDead
  BY <1>1, <1>2, <1>10 DEF LeavesItDead
<1> QED
  BY <1>8, <1>9, <1>11 DEF Behaves

(* A bootstrap over the whole data.                                        *)
LEMMA WholeBootstrap ==
    ASSUME TypeOK, NEW candidate, NEW a \in Ids, NEW auth, NEW own,
           ReturnWhole("Bootstrap", Bootstrap(data, candidate, a, auth, own))
    PROVE  Behaves
<1> DEFINE res == BootstrapResult(candidate, a, auth, own)
           r == Bootstrap(data, candidate, a, auth, own)
<1>1. /\ data' = r.data
      /\ call' = [op |-> "Bootstrap", offset |-> 0, form |-> "whole", err |-> r.err]
  BY DEF ReturnWhole
<1>2. res.err \in {"Ok"} \cup AdminErrors /\ res.cfg = Slot(a, Default)
  BY BootstrapResultMoves
<1>3. r.err = res.err /\ r.data = IF r.err = "Ok" THEN Encode(res.cfg) ELSE data
  BY DEF Bootstrap, Load, Then
<1>4. Encode(res.cfg) = <<a, Default>>
  BY <1>2 DEF Encode, Slot
<1> HIDE DEF r, res
<1>5. <<a, Default>> \in Seq(Cells)
  BY DEF Cells, Ids
<1>6. 0 \in Offsets
  BY ConfigAccountAssumption DEF Offsets
<1>7. TypeOK'
  BY <1>1, <1>2, <1>3, <1>4, <1>5, <1>6 DEF TypeOK, Operations
<1>8. WritesItsWindow /\ LeavesItLive /\ LeavesItDead /\ CodeTells
  BY <1>1, <1>3 DEF WritesItsWindow, LeavesItLive, LeavesItDead, CodeTells
<1> QED
  BY <1>7, <1>8 DEF Behaves

(* A bootstrap at an offset splices, when the window is in the data.        *)
LEMMA WindowBootstrap ==
    ASSUME TypeOK, NEW o \in Offsets, NEW candidate, NEW a \in Ids, NEW auth, NEW own,
           Return("Bootstrap", o, BootstrapAt(data, o, candidate, a, auth, own))
    PROVE  Behaves
<1> DEFINE res == BootstrapResult(candidate, a, auth, own)
           r == BootstrapAt(data, o, candidate, a, auth, own)
<1>1. /\ data' = r.data
      /\ call' = [op |-> "Bootstrap", offset |-> o, form |-> "window", err |-> r.err]
  BY DEF Return
<1>2. res.err \in {"Ok"} \cup AdminErrors /\ res.cfg = Slot(a, Default)
  BY BootstrapResultMoves
<1>3. /\ r.err = Then(res.err, WriteToAtError(data, o))
      /\ r.data = IF r.err = "Ok" THEN Splice(Slot(a, Default), data, o) ELSE data
  BY <1>2 DEF BootstrapAt
<1> HIDE DEF r, res
<1>4. o \in Nat /\ data \in Seq(Cells) /\ a \in Cells /\ Default \in Cells
  BY ConfigAccountAssumption DEF Offsets, TypeOK, Cells, Ids
<1>5. r.err \in {"Ok"} \cup AdminErrors
  BY <1>2, <1>3, ErrorNames DEF Then, WriteToAtError
<1>6. r.err = "Ok" => Len(data) >= o + Width
  BY <1>3, <1>4 DEF Then, WriteToAtError, Width
<1>7. /\ r.data \in Seq(Cells) /\ Len(r.data) = Len(data)
      /\ \A i \in 1 .. Len(data) : i \notin {o + 1, o + 2} => r.data[i] = data[i]
  <2>1. CASE r.err # "Ok"
    BY <1>3, <1>4, <2>1
  <2>2. CASE r.err = "Ok"
    BY <1>3, <1>4, <1>6, <2>2, SpliceWindow
  <2> QED
    BY <2>1, <2>2
<1>8. TypeOK'
  BY <1>1, <1>5, <1>7 DEF TypeOK, Operations
<1>9. WritesItsWindow
  <2>1. \A i \in DOMAIN data : data'[i] # data[i] => i \in o + 1 .. o + Width
    BY <1>1, <1>4, <1>7 DEF Width
  <2> QED
    BY <1>1, <1>3, <1>7, <2>1 DEF WritesItsWindow
<1>10. LeavesItLive /\ LeavesItDead /\ CodeTells
  BY <1>1 DEF LeavesItLive, LeavesItDead, CodeTells
<1> QED
  BY <1>8, <1>9, <1>10 DEF Behaves

------------------------------------------------------------------------------
(* The theorems.                                                           *)

(* Every call behaves.                                                     *)
LEMMA NextBehaves == TypeOK /\ Next => Behaves
<1> SUFFICES ASSUME TypeOK, Next PROVE Behaves
  OBVIOUS
<1>1. CASE CallTransfer
  <2>1. PICK o \in Offsets, c \in Candidates, a \in Ids, b \in Ids :
           \E e \in Evidence({a, b}) :
             Return("Transfer", o, PerformTransferAt(data, o, a, c, b, e.auth, e.own))
    BY <1>1 DEF CallTransfer
  <2>2. PICK e \in Evidence({a, b}) :
           Return("Transfer", o, PerformTransferAt(data, o, a, c, b, e.auth, e.own))
    BY <2>1
  <2> QED
    BY <2>2, TransferMoves, WindowCall DEF PerformTransferAt
<1>2. CASE CallNominate
  <2>1. PICK o \in Offsets, a \in Ids, b \in Ids :
           \E e \in Evidence({a}) :
             Return("Nominate", o, PerformNominateAt(data, o, a, b, e.auth))
    BY <1>2 DEF CallNominate
  <2> QED
    BY <2>1, NominateMoves, WindowCall DEF PerformNominateAt
<1>3. CASE CallAccept
  <2>1. PICK o \in Offsets, a \in Ids :
           \E e \in Evidence({a}) :
             Return("Accept", o, PerformAcceptAt(data, o, a, e.auth, e.own))
    BY <1>3 DEF CallAccept
  <2> QED
    BY <2>1, AcceptMoves, WindowCall DEF PerformAcceptAt
<1>4. CASE CallRenounceAt
  <2>1. PICK o \in Offsets, a \in Ids :
           \E e \in Evidence({a}) :
             Return("Renounce", o, PerformRenounceAt(data, o, a, e.auth))
    BY <1>4 DEF CallRenounceAt
  <2> QED
    BY <2>1, RenounceMoves, WindowCall DEF PerformRenounceAt
<1>5. CASE CallRenounce
  BY <1>5, WholeRenounce DEF CallRenounce
<1>6. CASE CallBootstrapAt
  BY <1>6, WindowBootstrap DEF CallBootstrapAt
<1>7. CASE CallBootstrap
  BY <1>7, WholeBootstrap DEF CallBootstrap
<1> QED
  BY <1>1, <1>2, <1>3, <1>4, <1>5, <1>6, <1>7 DEF Next

(* Type correctness: the data stays a sequence of cells, and every call    *)
(* answers Ok or one of the library's errors.                              *)
THEOREM TypeCorrect == Spec => []TypeOK
<1>1. Init => TypeOK
  <2> SUFFICES ASSUME Init PROVE TypeOK
    OBVIOUS
  <2>1. 0 \in Offsets
    BY ConfigAccountAssumption DEF Offsets
  <2>2. PICK n \in 0 .. MaxLen : data \in [1 .. n -> Cells]
    BY DEF Init
  <2>3. data \in Seq(Cells)
    BY <2>2, ConfigAccountAssumption
  <2> QED
    BY <2>1, <2>3 DEF Init, TypeOK, Operations
<1>2. TypeOK /\ [Next]_vars => TypeOK'
  <2>1. TypeOK /\ UNCHANGED vars => TypeOK'
    BY DEF TypeOK, vars
  <2> QED
    BY <2>1, NextBehaves DEF Behaves
<1> QED
  BY <1>1, <1>2, PTL DEF Spec

(* Windowed calls write their window, and failing calls write nothing.      *)
THEOREM WritesAreLocal == Spec => SpliceIsLocal
<1>1. TypeOK /\ [Next]_vars => [WritesItsWindow]_vars
  BY NextBehaves DEF Behaves
<1> QED
  BY <1>1, TypeCorrect, PTL DEF Spec, SpliceIsLocal

(* No call but a renounce writes the sentinel into a live slot.             *)
THEOREM OnlyRenounceEnds == Spec => OnlyRenounceRenounces
<1>1. TypeOK /\ [Next]_vars => [LeavesItLive]_vars
  BY NextBehaves DEF Behaves
<1> QED
  BY <1>1, TypeCorrect, PTL DEF Spec, OnlyRenounceRenounces

(* A renounced slot refuses every management call.                          *)
THEOREM RenouncedStaysDead == Spec => RenouncedWindowIsDead
<1>1. TypeOK /\ [Next]_vars => [LeavesItDead]_vars
  BY NextBehaves DEF Behaves
<1> QED
  BY <1>1, TypeCorrect, PTL DEF Spec, RenouncedWindowIsDead

(* The reported code tells the state of the slot.                           *)
THEOREM CodesTell == Spec => CodesTellTheState
<1>1. TypeOK /\ [Next]_vars => [CodeTells]_vars
  BY NextBehaves DEF Behaves
<1> QED
  BY <1>1, TypeCorrect, PTL DEF Spec, CodesTellTheState
==============================================================================
