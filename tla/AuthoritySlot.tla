---------------------------- MODULE AuthoritySlot ----------------------------
(***************************************************************************)
(* The `authority` crate (spel-authority v0.2.0): the slot that holds an   *)
(* authority and its nominee, and the candidate a handover names.  The     *)
(* crate is a dependency outside this repository; its operators are        *)
(* modelled from the calls in admin-authority/src/config.rs, the error     *)
(* conversion in errors.rs and the tests that observe it.                  *)
(*                                                                         *)
(* An AccountWithMetadata is an id together with two sets: `auth`, the     *)
(* accounts whose is_authorized flag is set in the transaction, and        *)
(* `own`, the accounts some program owns (program_owner is not default).   *)
(***************************************************************************)
CONSTANT Default    \* AccountId::default(), the all-zero id

(***************************************************************************)
(* A result is "Ok" or the name of an error; Then is Rust's `?`: the       *)
(* second check runs only when the first succeeded.                        *)
(***************************************************************************)
Then(first, second) == IF first = "Ok" THEN second ELSE first

Slot(holder, nominee) == [holder |-> holder, nominee |-> nominee]

SlotInitialize(id) == IF id = Default THEN "InvalidCandidate" ELSE "Ok"

SlotAssert(slot, signer, auth) ==
    IF slot.holder = Default THEN "Renounced"
    ELSE IF signer \notin auth THEN "MissingSignature"
    ELSE IF signer # slot.holder THEN "NotHolder"
    ELSE "Ok"

(* What AuthoritySlot::accept refuses, in the order config.rs documents.   *)
SlotAccept(slot, signer, auth, own) ==
    IF slot.nominee = Default THEN "NoNomination"
    ELSE IF signer \notin auth THEN "MissingSignature"
    ELSE IF signer # slot.nominee THEN "NotNominee"
    ELSE IF signer \notin own THEN "UnownedSigner"
    ELSE "Ok"

(* AuthorityCandidate: Signer, or Pda with the address its program id and  *)
(* seed derive.                                                            *)
Signer == [kind |-> "Signer", address |-> Default]
Pda(address) == [kind |-> "Pda", address |-> address]

(* AuthorityCandidate::validate against the evidence account `new`.        *)
Validate(candidate, new, auth, own) ==
    IF candidate.kind = "Signer"
    THEN IF new \notin auth \/ new = Default THEN "InvalidCandidate"
         ELSE IF new \notin own THEN "UnownedSigner"
         ELSE "Ok"
    ELSE IF candidate.address # new THEN "CandidateMismatch"
         ELSE IF new \notin own THEN "UndeployedPda"
         ELSE "Ok"
==============================================================================
