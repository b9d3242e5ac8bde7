--------------------------- MODULE ConsumerFixture ---------------------------
(***************************************************************************)
(* The program CI builds as a realistic consumer                           *)
(* (ci/consumer-fixture): the dedicated mode of DedicatedProgram, and a    *)
(* second account, program_config, with two writers.  Anybody may create   *)
(* it with `initialize`, which is not gated; only the admin may change it  *)
(* with `update_value`, which does not ask whether it was created.  The    *)
(* two PDAs are born by different instructions, in either order.           *)
(***************************************************************************)
EXTENDS DedicatedProgram

CONSTANT Zero       \* the value initialize stores

ASSUME FixtureAssumption == Zero \in Values

VARIABLE program    \* the program_config PDA: "Fresh", "Owned" or "Stranded"

fixtureVars == <<vars, program>>

InitializeAgain(owner, auth) ==
    /\ Admitted(<<owner>>, auth)
    /\ program # "Stranded"
    /\ owner \in auth
    /\ value' = Zero
    /\ program' = "Owned"
    /\ Land(auth, {})
    /\ UNCHANGED <<data, nominatedBy, births>>

(* #[account(init)] on program_config, and any signer at all.               *)
Initialize(owner, auth) ==
    /\ Admitted(<<owner>>, auth)
    /\ program = "Fresh"
    /\ owner \in auth
    /\ value' = Zero
    /\ program' = "Owned"
    /\ Land(auth, {})
    /\ UNCHANGED <<data, nominatedBy, births>>

(* The gated write.  On an account nobody created the chain either claims  *)
(* it for the program or leaves bytes nobody owns, and so strands it: the  *)
(* source says neither.                                                    *)
UpdateProgram(caller, auth, v) ==
    /\ program # "Stranded"
    /\ UpdateValue(caller, auth, v)
    /\ program' \in IF program = "Fresh" THEN {"Owned", "Stranded"} ELSE {program}

(* A balance arrives at program_config before anybody creates it.           *)
FundProgram ==
    /\ program = "Fresh"
    /\ program' = "Stranded"
    /\ witness' = {}
    /\ UNCHANGED <<owned, stranded, data, nominatedBy, births, value>>

FixtureInit == Init /\ value = Zero /\ program = "Fresh"

FixtureNext ==
    \/ \E auth \in SUBSET Authorisable, caller \in Ids :
          \/ Initialize(caller, auth)
          \/ AdminInitialize(caller, auth) /\ UNCHANGED program
          \/ \E v \in Values : UpdateProgram(caller, auth, v)
    \/ Management /\ UNCHANGED <<value, program>>
    \/ Environment /\ UNCHANGED <<data, nominatedBy, births, value, program>>
    \/ FundProgram

FixtureSpec == FixtureInit /\ [][FixtureNext]_fixtureVars

(* A nominee keeps sending admin_accept, and before that gives its key an  *)
(* owner; the sequencer includes what stays valid.                         *)
FixtureFairness ==
    \A k \in Keys :
        /\ WF_fixtureVars(/\ WalletInit(k)
                          /\ UNCHANGED <<data, nominatedBy, births, value, program>>)
        /\ WF_fixtureVars(AdminAccept(k, {k}) /\ UNCHANGED <<value, program>>)

FixtureFairSpec == FixtureSpec /\ FixtureFairness

------------------------------------------------------------------------------
(* Properties.                                                             *)

(* Whoever creates program_config, and whenever, only the admin of the     *)
(* moment ever changes what it stores: the open initialize comes before    *)
(* every admin's write or not at all.                                      *)
OnlyAdminChangesValue == [][value' # value => Initialised /\ Holder \in witness']_fixtureVars
==============================================================================
