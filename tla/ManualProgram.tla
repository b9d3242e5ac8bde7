----------------------------- MODULE ManualProgram -----------------------------
(***************************************************************************)
(* A program that writes its own handlers over the library                 *)
(* (admin-authority-sample-manual): one instruction creates the Config PDA *)
(* and the program's own PDA together, a transfer and a renounce are gated *)
(* and then checked again by the library, and there is no nomination.  The *)
(* renounce is the strict one, over the whole data.                        *)
(***************************************************************************)
EXTENDS AdminAuthority

CONSTANT Values     \* what update_value can store

ASSUME ManualAssumption == Offset = 0

VARIABLES program,  \* the program_config PDA: "Fresh", "Owned" or "Stranded"
          value     \* what it stores, NoValue before the first update

vars == <<owned, stranded, witness, data, nominatedBy, births, program, value>>

NoValue == Default

InitializeReusesProgram(caller, auth) ==
    LET res == Bootstrap(data, Signer, caller, auth, owned)
    IN  /\ Admitted(<<Config, caller>>, auth)
        /\ program # "Stranded"
        /\ caller \in auth
        /\ res.err = "Ok"
        /\ data' = res.data
        /\ program' = "Owned"
        /\ Land(auth, {Config})
        /\ births' = Append(births, caller)
        /\ UNCHANGED <<nominatedBy, value>>

InitializeForgetsProgram(caller, auth) ==
    LET res == Bootstrap(data, Signer, caller, auth, owned)
    IN  /\ Admitted(<<Config, caller>>, auth)
        /\ Fresh(Config) /\ ~Created
        /\ caller \in auth
        /\ res.err = "Ok"
        /\ data' = res.data
        /\ Land(auth, {Config})
        /\ births' = Append(births, caller)
        /\ UNCHANGED <<nominatedBy, program, value>>

(* Both accounts are #[account(init)], and both are claimed.                *)
Initialize(caller, auth) ==
    LET res == Bootstrap(data, Signer, caller, auth, owned)
    IN  /\ Admitted(<<Config, caller>>, auth)
        /\ Fresh(Config) /\ ~Created
        /\ program = "Fresh"
        /\ caller \in auth
        /\ res.err = "Ok"
        /\ data' = res.data
        /\ program' = "Owned"
        /\ Land(auth, {Config})
        /\ births' = Append(births, caller)
        /\ UNCHANGED <<nominatedBy, value>>

UpdateValue(caller, auth, v) ==
    /\ Admitted(<<Config, caller>>, auth)
    /\ program # "Stranded"
    /\ caller \in auth
    /\ RequireAdmin(caller, auth) = "Ok"
    /\ value' = v
    /\ Land(auth, {})
    /\ UNCHANGED <<data, nominatedBy, births, program>>

GatedTransfer(caller, new, candidate, auth) ==
    /\ RequireAdmin(caller, auth) = "Ok"
    /\ Execute(<<Config, caller, new>>, caller, auth,
               PerformTransfer(data, caller, candidate, new, auth, owned))
    /\ UNCHANGED <<nominatedBy, births, program, value>>

GatedRenounceErases(caller, auth) ==
    /\ RequireAdmin(caller, auth) = "Ok"
    /\ Execute(<<Config, caller>>, caller, auth,
               [err |-> PerformRenounce(data, caller, auth).err, data |-> <<>>])
    /\ UNCHANGED <<nominatedBy, births, program, value>>

GatedRenounce(caller, auth) ==
    /\ RequireAdmin(caller, auth) = "Ok"
    /\ Execute(<<Config, caller>>, caller, auth, PerformRenounce(data, caller, auth))
    /\ UNCHANGED <<nominatedBy, births, program, value>>

(* A balance arrives at program_config before the program creates it.       *)
FundProgram ==
    /\ program = "Fresh"
    /\ program' = "Stranded"
    /\ witness' = {}
    /\ UNCHANGED <<owned, stranded, data, nominatedBy, births, value>>

Init ==
    /\ AuthorityInit
    /\ program = "Fresh"
    /\ value = NoValue

Next ==
    \/ \E auth \in SUBSET Authorisable, caller \in Ids :
          \/ Initialize(caller, auth)
          \/ \E v \in Values : UpdateValue(caller, auth, v)
          \/ \E new \in Ids, candidate \in Candidates :
                GatedTransfer(caller, new, candidate, auth)
          \/ GatedRenounce(caller, auth)
    \/ FundProgram
    \/ Environment /\ UNCHANGED <<data, nominatedBy, births, program, value>>

Spec == Init /\ [][Next]_vars

------------------------------------------------------------------------------
(* Properties.                                                             *)

(* The Config PDA is untouched or one slot, and nobody is ever nominated.  *)
TypeOK ==
    /\ LedgerTypeOK
    /\ data \in Seq(Ids) /\ Len(data) \in {0, Width}
    /\ Nominee = Default /\ nominatedBy = Default
    /\ births \in Seq(Accounts)
    /\ program \in {"Fresh", "Owned", "Stranded"}
    /\ value \in Values \cup {NoValue}

(* The two accounts are born in one transaction: there is never an admin   *)
(* without the program's state, nor that state without an admin who was    *)
(* installed with it, and a value was written only by an admin.            *)
BornTogether ==
    /\ Created <=> program = "Owned"
    /\ Created <=> births # <<>>
    /\ value # NoValue => Created

(* The gate in front of the library's own check changes no answer: what it *)
(* lets through and refuses is what the handler would.                     *)
GateIsTheHandlersCheck ==
    \A caller \in Ids, auth \in SUBSET Authorisable :
        LET gate == RequireAdmin(caller, auth)
            renounce == PerformRenounce(data, caller, auth).err
        IN  /\ renounce = gate
            /\ \A new \in Ids, candidate \in Candidates :
                  gate # "Ok" =>
                    PerformTransfer(data, caller, candidate, new, auth, owned).err = gate

(* Renouncing ends it: the slot and the gated value stay as they are.      *)
RenounceIsTerminal == [][Renounced => UNCHANGED <<data, value>>]_vars
==============================================================================
