---------------------------- MODULE AdminAuthority ----------------------------
(***************************************************************************)
(* The four management instructions of admin-authority/src/lib.rs over the *)
(* account that holds the slot, as transactions of the ledger.  They are   *)
(* the same in both modes: Offset is the cell at which the slot starts,    *)
(* which the framework stamps at every dispatch (Cargo.toml, bound_args),  *)
(* 0 for a Config PDA.  How the account comes to exist is left to the      *)
(* modules that extend this one.                                           *)
(*                                                                         *)
(* An instruction that fails changes nothing, so every action below is a   *)
(* transaction that succeeds: LEZ admits its accounts, the framework's     *)
(* checks on them pass (the config is the PDA, the caller signed) and the  *)
(* handler returns Ok.                                                     *)
(***************************************************************************)
EXTENDS Ledger

CONSTANT Offset

ASSUME OffsetAssumption == Offset \in Nat

VARIABLES data,         \* the data of the config account
          nominatedBy,  \* history: the caller of the last admin_nominate to land
          births        \* history: the callers of the initializations to land

authorityVars == <<owned, stranded, witness, data, nominatedBy, births>>

Created == data # <<>>
Cfg == ConfigAt(data, Offset)
Holder == IF Created THEN Cfg.holder ELSE Default
Nominee == IF Created THEN Cfg.nominee ELSE Default
Initialised == Created /\ Cfg.holder # Default
Renounced == Created /\ Cfg.holder = Default

Candidates == {Signer} \cup {Pda(p) : p \in Pdas \cup {Config}}

(* A landed management instruction: the handler's result is the new data.   *)
Execute(accounts, caller, auth, res) ==
    /\ Admitted(accounts, auth)
    /\ caller \in auth
    /\ res.err = "Ok"
    /\ data' = res.data
    /\ Land(auth, {})

AdminTransfer(caller, new, candidate, auth) ==
    /\ Execute(<<Config, caller, new>>, caller, auth,
               PerformTransferAt(data, Offset, caller, candidate, new, auth, owned))
    /\ UNCHANGED <<nominatedBy, births>>

AdminRenounce(caller, auth) ==
    /\ Execute(<<Config, caller>>, caller, auth,
               PerformRenounceAt(data, Offset, caller, auth))
    /\ UNCHANGED <<nominatedBy, births>>

AdminNominate(caller, new, auth) ==
    /\ Execute(<<Config, caller>>, caller, auth,
               PerformNominateAt(data, Offset, caller, new, auth))
    /\ nominatedBy' = caller
    /\ UNCHANGED births

AdminAccept(caller, auth) ==
    /\ Execute(<<Config, caller>>, caller, auth,
               PerformAcceptAt(data, Offset, caller, auth, owned))
    /\ UNCHANGED <<nominatedBy, births>>

Management ==
    \E auth \in SUBSET Authorisable, caller \in Ids :
        \/ \E new \in Ids, candidate \in Candidates :
              AdminTransfer(caller, new, candidate, auth)
        \/ \E new \in Ids : AdminNominate(caller, new, auth)
        \/ AdminAccept(caller, auth)
        \/ AdminRenounce(caller, auth)

(* The prologue #[require_admin] puts before a gated handler.               *)
RequireAdmin(caller, auth) ==
    Then(DecodeAtError(data, Offset), AssertAdmin(Cfg, caller, auth))

AuthorityInit ==
    /\ LedgerInit
    /\ data = <<>>
    /\ nominatedBy = Default
    /\ births = <<>>

------------------------------------------------------------------------------
(* Properties.                                                             *)

(* The admin can always act: a renounce signed by the holder alone would   *)
(* land now.  The holder is never an account LEZ refuses to list, never    *)
(* the config account itself, and its slot always decodes.                 *)
HolderCanAct ==
    Initialised =>
        /\ Admitted(<<Config, Holder>>, {Holder})
        /\ Holder \in owned
        /\ PerformRenounceAt(data, Offset, Holder, {Holder}).err = "Ok"

(* A nomination that stands was made by the admin who holds the role now:  *)
(* none survives the admin who made it.                                    *)
NominationStandsByHolder ==
    Nominee # Default => Holder # Default /\ nominatedBy = Holder

(* A reader that insists on the owner (from_owned_account_at) sees every   *)
(* slot the gate sees: data never exists without this program's claim, and *)
(* the slot's window always fits.                                          *)
OwnedReadersAgree ==
    Created => FromOwnedAccountAtError(data, Offset, Config \in owned) = "Ok"

(* A step moves the role only with consent: the old admin signed, and the  *)
(* new one signed too or is a deployed PDA, or the new admin signed and    *)
(* the old one had nominated it.  The old admin alone can only renounce.   *)
Consent ==
    Initialised /\ Holder' # Holder =>
        \/ Holder \in witness' /\ Renounced'
        \/ Holder \in witness' /\ Holder' \in witness' \cup Pdas /\ Holder' \in owned
        \/ Holder' \in witness' /\ Holder' = Nominee /\ nominatedBy = Holder

HandoverByConsent == [][Consent]_authorityVars

(* The inductive invariant behind them.  The account's data is a sequence  *)
(* of cells from S, long enough for the slot once it exists.               *)
Layout(S) ==
    /\ Ids \subseteq S
    /\ data \in Seq(S)
    /\ Created => Len(data) >= Offset + Width
    /\ Holder \in Ids /\ Nominee \in Ids

(* The holder is owned, which no step takes back, and is an account that   *)
(* can be authorised, so it is never the config; a nomination is the       *)
(* holder's own.                                                           *)
AuthorityInv ==
    /\ LedgerTypeOK
    /\ owned \cap stranded = {}
    /\ Created => Config \in owned
    /\ Holder # Default => Holder \in owned \cap Authorisable
    /\ NominationStandsByHolder
    /\ nominatedBy \in Ids /\ births \in Seq(Accounts)

(* The lifecycle the library promises, read off the account's data.        *)
Phase == IF ~Created THEN "Uninitialized"
         ELSE IF Cfg.holder = Default THEN "Renounced" ELSE "Initialized"

Lifecycle == INSTANCE AdminLifecycle WITH
    Candidates <- Accounts,
    NoOne <- Default,
    phase <- Phase,
    admin <- Holder,
    nominee <- Nominee

ImplementsLifecycle == Lifecycle!Spec
==============================================================================
