----------------------------- MODULE AdminConfig -----------------------------
(***************************************************************************)
(* The admin slot as admin-authority/src/config.rs wraps it: decoding,     *)
(* asserting, handing over, and the two forms of every operation, one over *)
(* a whole Config PDA and one over a window of an embedding account.       *)
(*                                                                         *)
(* Account data is a sequence of cells of 32 bytes.  A cell is an account  *)
(* id when it lies in the slot's window and consumer state elsewhere; the  *)
(* 64-byte slot is two cells, the holder and then the nominee, and an      *)
(* offset counts cells.  Every 64 bytes decode, so decoding fails only on  *)
(* the length.  All the operators are pure; a result is a record with the  *)
(* error ("Ok" when there is none) and the config or data left behind.     *)
(***************************************************************************)
EXTENDS AuthoritySlot, Naturals, Sequences

Width == 2          \* FixedBorshSize::SIZE, 64 bytes

(* A plausible bug in a definition is written next to it and named for the *)
(* bug; nothing uses it but a run that must then fail.                     *)
AdminErrorFromNoRename(e) == e

(* impl From<AuthorityError> for AdminError: only NotHolder is renamed.    *)
AdminErrorFrom(e) == IF e = "NotHolder" THEN "NotAdmin" ELSE e

(* AdminError::code, one stable number for each error.                     *)
Code == [NotInitialized |-> 101, Renounced |-> 102, NotAdmin |-> 103,
         MissingSignature |-> 104, InvalidCandidate |-> 105, UndeployedPda |-> 106,
         CandidateMismatch |-> 107, EncodingFailed |-> 108, DecodingFailed |-> 109,
         AccountDataTooLarge |-> 110, SlotOutOfBounds |-> 111, UnownedSigner |-> 112,
         NoNomination |-> 113, NotNominee |-> 114, NotGenesisAdmin |-> 115,
         ConfigNotOwned |-> 116]

AdminErrors == DOMAIN Code

(* What LEZ reports of it (From<AdminError> for SpelError), 0 for success.  *)
Reported(err) == IF err = "Ok" THEN 0 ELSE 6000 + Code[err]

------------------------------------------------------------------------------
(* Reading and writing the slot.                                           *)

ConfigAt(data, offset) == Slot(data[offset + 1], data[offset + 2])

EncodeTooWide(cfg) == <<cfg.holder, cfg.nominee, Default>>

Encode(cfg) == <<cfg.holder, cfg.nominee>>

DecodeError(data) ==
    IF data = <<>> THEN "NotInitialized"
    ELSE IF Len(data) # Width THEN "DecodingFailed"
    ELSE "Ok"

DecodeAtError(data, offset) ==
    IF data = <<>> THEN "NotInitialized"
    ELSE IF Len(data) < offset + Width THEN "SlotOutOfBounds"
    ELSE "Ok"

WriteToAtError(data, offset) ==
    IF Len(data) < offset + Width THEN "SlotOutOfBounds" ELSE "Ok"

SpliceCutsTail(cfg, data, offset) == SubSeq(data, 1, offset) \o Encode(cfg)

Splice(cfg, data, offset) ==
    [data EXCEPT ![offset + 1] = cfg.holder, ![offset + 2] = cfg.nominee]

------------------------------------------------------------------------------
(* The state transitions of AdminConfig.                                   *)

ConfigInitialize(admin) ==
    [err |-> AdminErrorFrom(SlotInitialize(admin)), cfg |-> Slot(admin, Default)]

AssertAdmin(cfg, signer, auth) == AdminErrorFrom(SlotAssert(cfg, signer, auth))

TransferUnvalidated(cfg, current, candidate, new, auth, own) ==
    [err |-> AdminErrorFrom(Then(SlotAssert(cfg, current, auth), SlotInitialize(new))),
     cfg |-> Slot(new, Default)]

TransferInstallsDefault(cfg, current, candidate, new, auth, own) ==
    [err |-> AdminErrorFrom(Then(SlotAssert(cfg, current, auth),
                                 Validate(candidate, new, auth, own))),
     cfg |-> Slot(new, Default)]

TransferKeepsNominee(cfg, current, candidate, new, auth, own) ==
    LET err == Then(SlotAssert(cfg, current, auth),
                    Then(Validate(candidate, new, auth, own), SlotInitialize(new)))
    IN  [err |-> AdminErrorFrom(err), cfg |-> Slot(new, cfg.nominee)]

Transfer(cfg, current, candidate, new, auth, own) ==
    LET err == Then(SlotAssert(cfg, current, auth),
                    Then(Validate(candidate, new, auth, own), SlotInitialize(new)))
    IN  [err |-> AdminErrorFrom(err), cfg |-> Slot(new, Default)]

NominateInstalls(cfg, current, new, auth) ==
    [err |-> AssertAdmin(cfg, current, auth), cfg |-> Slot(new, Default)]

Nominate(cfg, current, new, auth) ==
    [err |-> AssertAdmin(cfg, current, auth), cfg |-> Slot(cfg.holder, new)]

AcceptAfterRenounce(cfg, signer, auth, own) ==
    [err |-> AdminErrorFrom(SlotAccept(cfg, signer, auth, own)),
     cfg |-> Slot(cfg.nominee, Default)]

AcceptKeepsNominee(cfg, signer, auth, own) ==
    [err |-> IF cfg.holder = Default THEN "Renounced"
             ELSE AdminErrorFrom(SlotAccept(cfg, signer, auth, own)),
     cfg |-> Slot(cfg.nominee, cfg.nominee)]

Accept(cfg, signer, auth, own) ==
    [err |-> IF cfg.holder = Default THEN "Renounced"
             ELSE AdminErrorFrom(SlotAccept(cfg, signer, auth, own)),
     cfg |-> Slot(cfg.nominee, Default)]

Renounce(cfg, current, auth) ==
    [err |-> AssertAdmin(cfg, current, auth), cfg |-> Slot(Default, Default)]

------------------------------------------------------------------------------
(* Load, transition, write back.  The data is written only when every step *)
(* succeeded.                                                              *)

Load(err, res, data, written) ==
    LET e == Then(err, res.err)
    IN  [err |-> e, data |-> IF e = "Ok" THEN written ELSE data]

SpliceResult(res, data, offset) ==
    Load(DecodeAtError(data, offset), res, data, Splice(res.cfg, data, offset))

PerformTransferAt(data, offset, current, candidate, new, auth, own) ==
    SpliceResult(Transfer(ConfigAt(data, offset), current, candidate, new, auth, own),
                 data, offset)

PerformNominateAt(data, offset, current, new, auth) ==
    SpliceResult(Nominate(ConfigAt(data, offset), current, new, auth), data, offset)

PerformAcceptAt(data, offset, signer, auth, own) ==
    SpliceResult(Accept(ConfigAt(data, offset), signer, auth, own), data, offset)

PerformRenounceAt(data, offset, current, auth) ==
    SpliceResult(Renounce(ConfigAt(data, offset), current, auth), data, offset)

PerformTransfer(data, current, candidate, new, auth, own) ==
    PerformTransferAt(data, 0, current, candidate, new, auth, own)

PerformNominate(data, current, new, auth) == PerformNominateAt(data, 0, current, new, auth)

PerformAccept(data, signer, auth, own) == PerformAcceptAt(data, 0, signer, auth, own)

PerformRenounceKeepsNominee(data, current, auth) ==
    LET cfg == ConfigAt(data, 0)
    IN  Load(DecodeError(data), Renounce(cfg, current, auth), data,
             Encode(Slot(Default, cfg.nominee)))

(* The one dedicated form that does not go through its _at twin: it decodes *)
(* the whole data and replaces the whole data.                              *)
PerformRenounce(data, current, auth) ==
    LET res == Renounce(ConfigAt(data, 0), current, auth)
    IN  Load(DecodeError(data), res, data, Encode(res.cfg))

(* bootstrap replaces the whole data, bootstrap_at splices.                 *)
BootstrapResult(candidate, new, auth, own) ==
    LET first == ConfigInitialize(new)
    IN  [first EXCEPT !.err = Then(AdminErrorFrom(Validate(candidate, new, auth, own)), @)]

BootstrapSplices(data, candidate, new, auth, own) ==
    LET res == BootstrapResult(candidate, new, auth, own)
        err == Then(res.err, WriteToAtError(data, 0))
    IN  [err |-> err, data |-> IF err = "Ok" THEN Splice(res.cfg, data, 0) ELSE data]

Bootstrap(data, candidate, new, auth, own) ==
    LET res == BootstrapResult(candidate, new, auth, own)
    IN  Load("Ok", res, data, Encode(res.cfg))

BootstrapAt(data, offset, candidate, new, auth, own) ==
    LET res == BootstrapResult(candidate, new, auth, own)
        err == Then(res.err, WriteToAtError(data, offset))
    IN  [err |-> err, data |-> IF err = "Ok" THEN Splice(res.cfg, data, offset) ELSE data]

------------------------------------------------------------------------------
(* Readers outside the gate, which are not pinned to the program by a PDA   *)
(* constraint: the account's owner is checked before anything is decoded.   *)

FromOwnedAccountError(data, owned) ==
    IF ~owned THEN "ConfigNotOwned" ELSE DecodeError(data)

FromOwnedAccountAtError(data, offset, owned) ==
    IF ~owned THEN "ConfigNotOwned" ELSE DecodeAtError(data, offset)
==============================================================================
