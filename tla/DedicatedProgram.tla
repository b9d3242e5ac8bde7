--------------------------- MODULE DedicatedProgram ---------------------------
(***************************************************************************)
(* A program in dedicated mode: `#[admin_authority]` over the Config PDA,  *)
(* with the five injected instructions and one gated instruction of the    *)
(* program's own (admin-authority-sample, update_value).                   *)
(***************************************************************************)
EXTENDS AdminAuthority

CONSTANTS Genesis,  \* SPEL_ADMIN_GENESIS, or NoGenesis when the build sets none
          NoGenesis,
          Values    \* what update_value can store in program_config

ASSUME DedicatedAssumption ==
    /\ Offset = 0                           \* bound_args: default = 0
    /\ NoGenesis \notin Ids
    /\ Genesis \in Accounts \cup {NoGenesis}

VARIABLE value      \* the program's own state, behind the gate

vars == <<owned, stranded, witness, data, nominatedBy, births, value>>

RequireGenesisOff(caller) == "Ok"

RequireGenesis(caller) ==
    IF Genesis # NoGenesis /\ caller # Genesis THEN "NotGenesisAdmin" ELSE "Ok"

AdminInitializeTwice(caller, auth) ==
    LET res == Bootstrap(data, Signer, caller, auth, owned)
    IN  /\ Admitted(<<Config, caller>>, auth)
        /\ caller \in auth
        /\ Then(RequireGenesis(caller), res.err) = "Ok"
        /\ data' = res.data
        /\ Land(auth, {Config})
        /\ births' = Append(births, caller)
        /\ UNCHANGED <<nominatedBy, value>>

AdminInitializeUnclaimed(caller, auth) ==
    LET res == Bootstrap(data, Signer, caller, auth, owned)
    IN  /\ Admitted(<<Config, caller>>, auth)
        /\ Fresh(Config) /\ ~Created
        /\ caller \in auth
        /\ Then(RequireGenesis(caller), res.err) = "Ok"
        /\ data' = res.data
        /\ Land(auth, {})
        /\ births' = Append(births, caller)
        /\ UNCHANGED <<nominatedBy, value>>

(* #[account(init)] wants Account::default(); then the handler's own checks. *)
CanInitialize(caller, auth) ==
    /\ Admitted(<<Config, caller>>, auth)
    /\ Fresh(Config) /\ ~Created
    /\ caller \in auth
    /\ Then(RequireGenesis(caller), Bootstrap(data, Signer, caller, auth, owned).err) = "Ok"

(* The slot is written and the PDA is claimed.                              *)
AdminInitialize(caller, auth) ==
    /\ CanInitialize(caller, auth)
    /\ data' = Bootstrap(data, Signer, caller, auth, owned).data
    /\ Land(auth, {Config})
    /\ births' = Append(births, caller)
    /\ UNCHANGED <<nominatedBy, value>>

UpdateValue(caller, auth, v) ==
    /\ Admitted(<<Config, caller>>, auth)
    /\ caller \in auth
    /\ RequireAdmin(caller, auth) = "Ok"
    /\ value' = v
    /\ Land(auth, {})
    /\ UNCHANGED <<data, nominatedBy, births>>

Init == AuthorityInit /\ value \in Values

Next ==
    \/ \E auth \in SUBSET Authorisable, caller \in Ids :
          \/ AdminInitialize(caller, auth)
          \/ \E v \in Values : UpdateValue(caller, auth, v)
    \/ Management /\ UNCHANGED value
    \/ Environment /\ UNCHANGED <<data, nominatedBy, births, value>>

Spec == Init /\ [][Next]_vars

------------------------------------------------------------------------------
(* Properties.                                                             *)

(* The config PDA is untouched, or holds exactly one slot.                 *)
TypeOK ==
    /\ LedgerTypeOK
    /\ data \in Seq(Ids) /\ Len(data) \in {0, Width}
    /\ nominatedBy \in Ids
    /\ births \in Seq(Accounts)
    /\ value \in Values

(* The role is born once, whatever happens to it afterwards: after any     *)
(* number of handovers and after a renounce no initialization ever lands   *)
(* again, not even of the account that came first, and the slot never      *)
(* exists but by that one birth.                                           *)
BornOnce == Len(births) = IF Created THEN 1 ELSE 0

(* The initialization window (docs/authority-lifecycle.md): until the role *)
(* is born any key with an owner, or only the genesis key, could           *)
(* initialize now, alone.  Nothing shuts the window before that except a   *)
(* balance sent to the PDA, which makes it another account than init       *)
(* wants.                                                                  *)
WindowIsOpen ==
    ~Created =>
        \A k \in Keys :
            CanInitialize(k, {k})
                <=> k \in owned /\ Genesis \in {NoGenesis, k} /\ Config \notin stranded

(* Over every state of the Config PDA the strict forms, which read and     *)
(* write the whole data, do what the windowed forms do at offset 0: one    *)
(* code path for both modes, as long as the data is one slot long.         *)
StrictFormsAgree ==
    /\ \A caller \in Ids, auth \in SUBSET Authorisable :
          PerformRenounce(data, caller, auth) = PerformRenounceAt(data, Offset, caller, auth)
    /\ FromOwnedAccountError(data, Config \in owned)
          = FromOwnedAccountAtError(data, Offset, Config \in owned)

(* Renouncing ends it: no instruction changes the slot or passes the gate  *)
(* again, whoever was admin or nominee before.                             *)
RenounceIsTerminal == [][Renounced => UNCHANGED <<data, value>>]_vars

(* A nominated key that wants the role gets it, unless the nomination is   *)
(* replaced or withdrawn first or the key gets stranded.                   *)
NominationResolves ==
    \A k \in Keys :
        Nominee = k ~> (k \in stranded \/ Nominee # k)
==============================================================================
