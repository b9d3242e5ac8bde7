--------------------------- MODULE EmbeddedProgram ---------------------------
(***************************************************************************)
(* A program in embedded mode (admin-authority-sample-embedded): the slot  *)
(* lives inside the program's own account, after its value and padding.    *)
(* There is no admin_initialize; the instruction that creates the account  *)
(* bootstraps the slot, through the statement #[admin_initialize] puts     *)
(* before the last one of its body.  The management instructions are the   *)
(* library's, retargeted to this account at this Offset.                   *)
(***************************************************************************)
EXTENDS AdminAuthority

CONSTANT Values     \* what update_value can store, other than zero

ASSUME EmbeddedAssumption ==
    /\ Offset >= 1              \* the value comes before the slot
    /\ Values \cap Ids = {}

Cells == Ids \cup Values

(* ProgConfig and its borsh layout; a cell of zero bytes is Default.        *)
ProgConfig(value, padding, admin) ==
    [value |-> value, padding |-> padding, admin |-> admin]

EncodeProgConfig(s) == <<s.value>> \o s.padding \o Encode(s.admin)

(* Behind the gate the data is one whole struct (TypeOK), so decoding it     *)
(* never fails.                                                             *)
DecodeProgConfig(d) ==
    ProgConfig(d[1], SubSeq(d, 2, Offset), ConfigAt(d, Offset))

NewProgConfig ==
    ProgConfig(Default, [i \in 1 .. Offset - 1 |-> Default], Slot(Default, Default))

InitializeResultBeforeWrite(caller, auth, own) ==
    [err |-> BootstrapResult(Signer, caller, auth, own).err,
     data |-> EncodeProgConfig(NewProgConfig)]

(* The creating instruction as it expands: write the struct, then bootstrap *)
(* the slot into it.                                                        *)
InitializeResult(caller, auth, own) ==
    BootstrapAt(EncodeProgConfig(NewProgConfig), Offset, Signer, caller, auth, own)

InitializeTwice(caller, auth) ==
    LET res == InitializeResult(caller, auth, owned)
    IN  /\ Admitted(<<caller, Config>>, auth)
        /\ caller \in auth
        /\ res.err = "Ok"
        /\ data' = res.data
        /\ Land(auth, {Config})
        /\ births' = Append(births, caller)
        /\ UNCHANGED nominatedBy

Initialize(caller, auth) ==
    LET res == InitializeResult(caller, auth, owned)
    IN  /\ Admitted(<<caller, Config>>, auth)
        /\ Fresh(Config) /\ ~Created
        /\ caller \in auth
        /\ res.err = "Ok"
        /\ data' = res.data
        /\ Land(auth, {Config})
        /\ births' = Append(births, caller)
        /\ UNCHANGED nominatedBy

UpdateValueResets(caller, auth, v) ==
    /\ Admitted(<<caller, Config>>, auth)
    /\ caller \in auth
    /\ RequireAdmin(caller, auth) = "Ok"
    /\ data' = EncodeProgConfig([NewProgConfig EXCEPT !.value = v])
    /\ Land(auth, {})
    /\ UNCHANGED <<nominatedBy, births>>

UpdateValueDropsPadding(caller, auth, v) ==
    /\ Admitted(<<caller, Config>>, auth)
    /\ caller \in auth
    /\ RequireAdmin(caller, auth) = "Ok"
    /\ data' = EncodeProgConfig(ProgConfig(v, <<>>, Cfg))
    /\ Land(auth, {})
    /\ UNCHANGED <<nominatedBy, births>>

(* Gated: decode the whole struct, set the value, write the whole struct.   *)
UpdateValue(caller, auth, v) ==
    LET state == DecodeProgConfig(data)
    IN  /\ Admitted(<<caller, Config>>, auth)
        /\ caller \in auth
        /\ RequireAdmin(caller, auth) = "Ok"
        /\ data' = EncodeProgConfig([state EXCEPT !.value = v])
        /\ Land(auth, {})
        /\ UNCHANGED <<nominatedBy, births>>

(* Gated, and touches nothing.                                              *)
Poke(caller, auth) ==
    /\ Admitted(<<Config, caller>>, auth)
    /\ caller \in auth
    /\ RequireAdmin(caller, auth) = "Ok"
    /\ Land(auth, {})
    /\ UNCHANGED <<data, nominatedBy, births>>

Init == AuthorityInit

Next ==
    \/ \E auth \in SUBSET Authorisable, caller \in Ids :
          \/ Initialize(caller, auth)
          \/ \E v \in Values \cup {Default} : UpdateValue(caller, auth, v)
          \/ Poke(caller, auth)
    \/ Management
    \/ Environment /\ UNCHANGED <<data, nominatedBy, births>>

Spec == Init /\ [][Next]_authorityVars

------------------------------------------------------------------------------
(* Properties.                                                             *)

(* The account does not exist, or holds one whole ProgConfig.              *)
TypeOK ==
    /\ LedgerTypeOK
    /\ data \in Seq(Cells) /\ Len(data) \in {0, Offset + Width}
    /\ Created => Holder \in Ids /\ Nominee \in Ids
    /\ nominatedBy \in Ids
    /\ births \in Seq(Accounts)

(* Once the account exists no step writes both the program's bytes and the *)
(* slot: a whole-struct update keeps the slot it read, and a management    *)
(* instruction keeps every byte around the slot.                           *)
FieldsHaveOneWriter ==
    [][Created =>
         \/ SubSeq(data', 1, Offset) = SubSeq(data, 1, Offset)
         \/ Len(data') = Len(data) /\ Cfg' = Cfg]_authorityVars

(* Renouncing ends it for the whole account: its slot never changes again, *)
(* and neither do the gated bytes beside it.                               *)
RenounceIsTerminal == [][Renounced => data' = data]_authorityVars

(* docs/adr/0007: there is no initialization window in embedded mode, so   *)
(* who can create the account is not a race.                               *)
NoInitializationWindow ==
    ~Created /\ Fresh(Config) =>
        \A a, b \in Keys \ stranded :
            /\ InitializeResult(a, {a}, owned).err = "Ok"
            /\ InitializeResult(b, {b}, owned).err = "Ok"
            => a = b
==============================================================================
