------------------------ MODULE DedicatedProgramProofs ------------------------
(***************************************************************************)
(* The properties of a program in dedicated mode, for every set of keys    *)
(* and PDAs, with or without a genesis key; of the consumer fixture, which *)
(* adds an account to such a program; and of the witness exchange, which   *)
(* sends such a program its transactions, for any number of files and any  *)
(* bound on the nonces.                                                    *)
(***************************************************************************)
EXTENDS WitnessExchange, ConsumerFixture, AdminAuthorityProofs

(* The inductive invariant: the shared one, over a Config PDA that holds   *)
(* one slot or nothing, plus what makes the role be born once and keeps    *)
(* the PDA unclaimed until then.                                           *)
Inv ==
    /\ AuthorityInv
    /\ Layout(Ids)
    /\ Len(data) \in {0, Width}
    /\ ~Created => births = <<>> /\ Config \notin owned
    /\ BornOnce
    /\ value \in Values

(* Any other step of the program changes the slot through a management     *)
(* instruction, or not at all.                                             *)
Quiet == UNCHANGED <<data, nominatedBy, births>>

(* admin_initialize creates the account with its caller, an owned account  *)
(* other than the config, as admin, and only where there was none.         *)
LEMMA InitializeEffect ==
    ASSUME NEW auth \in SUBSET Authorisable, NEW caller \in Ids,
           AdminInitialize(caller, auth)
    PROVE  /\ ~Created /\ data' = <<caller, Default>>
           /\ caller \in auth /\ caller \in owned /\ caller # Default
           /\ Genesis # NoGenesis => caller = Genesis
           /\ Land(auth, {Config})
           /\ births' = Append(births, caller)
           /\ UNCHANGED <<nominatedBy, value>>
<1> DEFINE res == BootstrapResult(Signer, caller, auth, owned)
<1>1. res.err = "Ok" /\ RequireGenesis(caller) = "Ok" /\ data' = Encode(res.cfg)
  BY DEF AdminInitialize, CanInitialize, Bootstrap, Load, Then, RequireGenesis
<1>2. caller # Default /\ caller \in owned /\ res.cfg = Slot(caller, Default)
  BY <1>1, BootstrapResultOk
<1> HIDE DEF res
<1>3. data' = <<caller, Default>>
  BY <1>1, <1>2 DEF Encode, Slot
<1>4. Genesis # NoGenesis => caller = Genesis
  BY <1>1 DEF RequireGenesis
<1> QED
  BY <1>2, <1>3, <1>4 DEF AdminInitialize, CanInitialize

(* The invariant holds before anything exists.                             *)
LEMMA InitInv == Init => Inv
<1> SUFFICES ASSUME Init PROVE Inv
  OBVIOUS
<1>1. data = <<>> /\ ~Created /\ Holder = Default /\ Nominee = Default
  BY DEF Init, AuthorityInit, Created, Holder, Nominee
<1>2. Layout(Ids) /\ Len(data) \in {0, Width}
  BY <1>1 DEF Layout, Ids
<1>3. AuthorityInv
  BY <1>1 DEF Init, AuthorityInit, LedgerInit, AuthorityInv, LedgerTypeOK,
              NominationStandsByHolder, Ids
<1>4. BornOnce /\ births = <<>> /\ value \in Values
  BY <1>1 DEF Init, AuthorityInit, BornOnce
<1>5. Config \notin owned
  BY DEF Init, AuthorityInit, LedgerInit
<1> QED
  BY <1>1, <1>2, <1>3, <1>4, <1>5 DEF Inv

(* Every step keeps it.                                                    *)
LEMMA NextInv == Inv /\ [Next]_vars => Inv'
<1> SUFFICES ASSUME Inv, [Next]_vars PROVE Inv'
  OBVIOUS
<1> USE DEF Inv
<1>1. ASSUME NEW auth \in SUBSET Authorisable, NEW caller \in Ids,
             AdminInitialize(caller, auth)
      PROVE  Inv'
  <2>1. /\ ~Created /\ data' = <<caller, Default>>
        /\ caller \in auth /\ caller \in owned /\ caller # Default
        /\ Genesis # NoGenesis => caller = Genesis
        /\ Land(auth, {Config})
        /\ births' = Append(births, caller)
        /\ UNCHANGED <<nominatedBy, value>>
    BY <1>1, InitializeEffect
  <2>2. /\ Created' /\ Holder' = caller /\ Nominee' = Default
        /\ Len(data') = Width /\ Layout(Ids)'
    BY <2>1, FreshConfig, DedicatedAssumption
  <2>3. {Config} \subseteq Accounts /\ caller \in Authorisable /\ caller \in Accounts
    BY <2>1 DEF Accounts, Authorisable
  <2>4. /\ LedgerTypeOK' /\ (owned \cap stranded)' = {}
        /\ owned \subseteq owned' /\ {Config} \subseteq owned'
    BY <2>1, <2>3, LandKeeps DEF AuthorityInv
  <2>5. births' = <<caller>>
    BY <2>1
  <2>6. AuthorityInv'
    BY <2>1, <2>2, <2>3, <2>4, <2>5, InstallKeepsInv
  <2>7. BornOnce'
    BY <2>2, <2>5 DEF BornOnce
  <2> QED
    BY <2>1, <2>2, <2>6, <2>7
<1>2. ASSUME NEW auth \in SUBSET Authorisable, NEW caller \in Ids, NEW v \in Values,
             UpdateValue(caller, auth, v)
      PROVE  Inv'
  <2>1. Land(auth, {}) /\ Quiet /\ value' \in Values
    BY <1>2 DEF UpdateValue, Quiet
  <2>2. /\ LedgerTypeOK' /\ (owned \cap stranded)' = {} /\ owned \subseteq owned'
    BY <2>1, LandKeeps DEF AuthorityInv
  <2>3. Created' = Created /\ Holder' = Holder /\ Nominee' = Nominee /\ Layout(Ids)'
    BY <2>1 DEF Quiet, Created, Holder, Nominee, Cfg, Layout, Ids
  <2>4. AuthorityInv'
    BY <2>1, <2>2, <2>3, SlotUntouchedKeepsInv DEF Quiet
  <2>5. owned' = owned
    BY <2>1 DEF Land
  <2> QED
    BY <2>1, <2>3, <2>4, <2>5 DEF Quiet, BornOnce
<1>3. CASE Management /\ UNCHANGED value
  <2>1. AuthorityInv' /\ Layout(Ids)' /\ Len(data') = Len(data)
    BY <1>3, ManagementKeepsInv
  <2>2. Created /\ UNCHANGED births
    BY <1>3, ManagementImplements, ManagementQuiet DEF Initialised
  <2>3. Created'
    BY <2>1, <2>2 DEF Layout, Created
  <2> QED
    BY <1>3, <2>1, <2>2, <2>3 DEF BornOnce
<1>4. CASE Environment /\ Quiet /\ UNCHANGED value
  <2>1. AuthorityInv'
    BY <1>4, EnvironmentKeepsInv DEF Quiet
  <2>2. Created' = Created /\ Layout(Ids)'
    BY <1>4 DEF Quiet, Created, Holder, Nominee, Cfg, Layout, Ids
  <2>3. Config \notin owned => Config \notin owned'
    BY <1>4, LedgerAssumption DEF Environment, WalletInit, SignElsewhere, DeployPda, Fund, Land
  <2> QED
    BY <1>4, <2>1, <2>2, <2>3 DEF Quiet, BornOnce
<1>5. CASE UNCHANGED vars
  <2>1. AuthorityInv' /\ Layout(Ids)' /\ BornOnce' /\ Created' = Created
    BY <1>5 DEF vars, AuthorityInv, LedgerTypeOK, NominationStandsByHolder,
                Layout, Holder, Nominee, Cfg, Created, BornOnce
  <2> QED
    BY <1>5, <2>1 DEF vars
<1> QED
  BY <1>1, <1>2, <1>3, <1>4, <1>5 DEF Next, Quiet

(* The inductive invariant holds in every behaviour of the program.        *)
THEOREM InvHolds == Spec => []Inv
BY InitInv, NextInv, PTL DEF Spec

------------------------------------------------------------------------------
(* State properties.                                                       *)

(* Type correctness: the Config PDA is empty or exactly one slot.          *)
THEOREM TypeCorrect == Spec => []TypeOK
<1>1. Inv => TypeOK
  BY DEF Inv, AuthorityInv, Layout, TypeOK
<1> QED
  BY <1>1, InvHolds, PTL

(* The admin of a live role can always act on it alone.                    *)
THEOREM HolderAlwaysCanAct == Spec => []HolderCanAct
<1>1. Inv => HolderCanAct
  BY InvHolderCanAct DEF Inv
<1> QED
  BY <1>1, InvHolds, PTL

(* No nomination outlives the admin who made it.                           *)
THEOREM NominationsStand == Spec => []NominationStandsByHolder
<1>1. Inv => NominationStandsByHolder
  BY DEF Inv, AuthorityInv
<1> QED
  BY <1>1, InvHolds, PTL

(* admin_initialize lands once in the life of a program, whoever sent it   *)
(* and whatever became of the role since.                                  *)
THEOREM RoleBornOnce == Spec => []BornOnce
<1>1. Inv => BornOnce
  BY DEF Inv
<1> QED
  BY <1>1, InvHolds, PTL

(* Until the role is born the window is open to whom it should be, and     *)
(* only a balance on the PDA shuts it: nothing but initialization claims   *)
(* the PDA, its data is empty, so init finds it fresh, and the first slot  *)
(* is written whole, not into a window that is not there yet.              *)
LEMMA InvWindowIsOpen == Inv => WindowIsOpen
<1> SUFFICES ASSUME Inv, ~Created, NEW k \in Keys
             PROVE  CanInitialize(k, {k})
                    <=> k \in owned /\ Genesis \in {NoGenesis, k} /\ Config \notin stranded
  BY DEF WindowIsOpen
<1>1. k # Config /\ k # Default /\ k \in Authorisable /\ Config \notin owned
  BY LedgerAssumption DEF Authorisable, Inv
<1>2. k \in owned => k \notin stranded
  BY DEF Inv, AuthorityInv
<1>3. Bootstrap(data, Signer, k, {k}, owned).err = "Ok" <=> k \in owned
  BY <1>1 DEF Bootstrap, Load, Then, BootstrapResult, ConfigInitialize, SlotInitialize,
              AdminErrorFrom, Validate, Signer
<1>4. RequireGenesis(k) = "Ok" <=> Genesis \in {NoGenesis, k}
  BY DEF RequireGenesis
<1>5. Admitted(<<Config, k>>, {k}) <=> Config \notin stranded /\ k \notin stranded
  BY <1>1 DEF Admitted
<1>6. Fresh(Config) <=> Config \notin stranded
  BY <1>1 DEF Fresh
<1>7. ASSUME NEW a, NEW b PROVE Then(a, b) = "Ok" <=> a = "Ok" /\ b = "Ok"
  BY DEF Then
<1> QED
  BY <1>2, <1>3, <1>4, <1>5, <1>6, <1>7 DEF CanInitialize

(* Any owned key, or the genesis key alone, can take the role while it is  *)
(* not born.                                                               *)
THEOREM WindowStaysOpen == Spec => []WindowIsOpen
BY InvWindowIsOpen, InvHolds, PTL

(* Every slot is visible to a reader that insists on the owner.            *)
THEOREM OwnedReadersAlwaysAgree == Spec => []OwnedReadersAgree
<1>1. Inv => OwnedReadersAgree
  BY InvOwnedReadersAgree DEF Inv
<1> QED
  BY <1>1, InvHolds, PTL

(* The strict forms do over every state of the Config PDA what the         *)
(* windowed forms do at offset 0.                                          *)
THEOREM StrictFormsAlwaysAgree == Spec => []StrictFormsAgree
<1>1. Inv => StrictFormsAgree
  <2> SUFFICES ASSUME Inv PROVE StrictFormsAgree
    OBVIOUS
  <2>1. data \in Seq(Ids) /\ Len(data) \in {0, Width} /\ Default \in Ids /\ Offset = 0
    BY DedicatedAssumption DEF Inv, Layout, Ids
  <2>2. \A caller \in Ids, auth \in SUBSET Authorisable :
           PerformRenounce(data, caller, auth) = PerformRenounceAt(data, Offset, caller, auth)
    BY <2>1, RenounceFormsAgree
  <2>3. DecodeError(data) = DecodeAtError(data, Offset)
    BY <2>1 DEF DecodeError, DecodeAtError, Width
  <2> QED
    BY <2>2, <2>3 DEF StrictFormsAgree, FromOwnedAccountError, FromOwnedAccountAtError
<1> QED
  BY <1>1, InvHolds, PTL

------------------------------------------------------------------------------
(* Step properties.                                                        *)

(* A step that changes the data is an initialization of an absent account  *)
(* or a management instruction.                                            *)
LEMMA DataWriters ==
    ASSUME Inv, [Next]_vars
    PROVE  \/ \E auth \in SUBSET Authorisable, caller \in Ids :
                AdminInitialize(caller, auth)
           \/ Management /\ UNCHANGED value
           \/ /\ UNCHANGED data
              /\ \/ UNCHANGED value
                 \/ Initialised
<1>1. ASSUME NEW auth \in SUBSET Authorisable, NEW caller \in Ids, NEW v \in Values,
             UpdateValue(caller, auth, v)
      PROVE  UNCHANGED data /\ Initialised
  <2>1. DecodeAtError(data, Offset) = "Ok" /\ AssertAdmin(Cfg, caller, auth) = "Ok"
    BY <1>1 DEF UpdateValue, RequireAdmin, Then, DecodeAtError
  <2> QED
    BY <1>1, <2>1, AssertAdminOk DEF UpdateValue, Initialised, Created, DecodeAtError
<1>2. CASE Environment /\ UNCHANGED <<data, nominatedBy, births, value>>
  BY <1>2
<1>3. CASE UNCHANGED vars
  BY <1>3 DEF vars
<1> QED
  BY <1>1, <1>2, <1>3 DEF Next

(* A step leaves a renounced role as it is: nobody initializes again, no   *)
(* management instruction succeeds and the gate is shut.                   *)
LEMMA StepsKeepRenounced ==
    ASSUME Inv, [Next]_vars, Renounced
    PROVE  UNCHANGED <<data, value>>
<1>1. ~Initialised /\ Created
  BY DEF Renounced, Initialised
<1>2. ASSUME NEW auth \in SUBSET Authorisable, NEW caller \in Ids,
             AdminInitialize(caller, auth)
      PROVE  FALSE
  BY <1>1, <1>2, InitializeEffect
<1>3. ~Management
  BY <1>1, ManagementImplements DEF Inv
<1> QED
  BY <1>1, <1>2, <1>3, DataWriters

(* Once renounced, the slot never changes and the gate never opens.        *)
THEOREM RenounceEndsIt == Spec => RenounceIsTerminal
<1>1. Inv /\ [Next]_vars => [Renounced => UNCHANGED <<data, value>>]_vars
  BY StepsKeepRenounced
<1> QED
  BY <1>1, InvHolds, PTL DEF Spec, RenounceIsTerminal

(* A step that moves the role has the consent it takes: installing comes   *)
(* before anybody is admin, and managing is the admin's or the nominee's.  *)
LEMMA StepsConsent ==
    ASSUME Inv, [Next]_vars
    PROVE  Consent
<1>1. ASSUME NEW auth \in SUBSET Authorisable, NEW caller \in Ids,
             AdminInitialize(caller, auth)
      PROVE  Consent
  BY <1>1, InitializeEffect DEF Consent, Initialised
<1>2. CASE Management
  BY <1>2, ManagementImplements DEF Inv
<1>3. CASE UNCHANGED data
  BY <1>3, SlotUntouchedStutters DEF Created, Cfg
<1> QED
  BY <1>1, <1>2, <1>3, DataWriters

(* The role moves only with the consent of the old admin and the new one.  *)
THEOREM RoleMovesByConsent == Spec => HandoverByConsent
<1>1. Inv /\ [Next]_vars => [Consent]_authorityVars
  BY StepsConsent
<1> QED
  BY <1>1, InvHolds, PTL DEF Spec, HandoverByConsent

------------------------------------------------------------------------------
(* Refinement.                                                             *)

(* admin_initialize is the lifecycle's Install.                            *)
LEMMA InitializeInstalls ==
    ASSUME Inv, NEW auth \in SUBSET Authorisable, NEW caller \in Ids,
           AdminInitialize(caller, auth)
    PROVE  Lifecycle!Next
<1>1. /\ ~Created /\ data' = <<caller, Default>> /\ caller # Default
      /\ caller \in auth
  BY InitializeEffect
<1>2. Created' /\ Holder' = caller /\ Nominee' = Default
  BY <1>1, FreshConfig, DedicatedAssumption
<1>3. Phase = "Uninitialized" /\ Phase' = "Initialized"
  BY <1>1, <1>2 DEF Phase, Holder
<1>4. Lifecycle!Install(caller)
  BY <1>2, <1>3 DEF Lifecycle!Install
<1>5. caller \in Accounts
  BY <1>1 DEF Accounts, Authorisable
<1> QED
  BY <1>4, <1>5 DEF Lifecycle!Next

(* Every step is a step of the lifecycle, or moves nothing of it.          *)
LEMMA StepsImplement ==
    ASSUME Inv, [Next]_vars
    PROVE  Lifecycle!Next \/ UNCHANGED <<Phase, Holder, Nominee>>
<1>1. ASSUME NEW auth \in SUBSET Authorisable, NEW caller \in Ids,
             AdminInitialize(caller, auth)
      PROVE  Lifecycle!Next
  BY <1>1, InitializeInstalls
<1>2. CASE Management
  BY <1>2, ManagementImplements DEF Inv
<1>3. CASE UNCHANGED data
  BY <1>3, SlotUntouchedStutters DEF Created, Cfg
<1> QED
  BY <1>1, <1>2, <1>3, DataWriters

LEMMA InitImplements == Init => Lifecycle!Init
BY DEF Init, AuthorityInit, Lifecycle!Init, Phase, Holder, Nominee, Created

(* The program implements the lifecycle its documentation promises.        *)
THEOREM ProgramImplementsLifecycle == Spec => ImplementsLifecycle
<1>1. Inv /\ [Next]_vars => [Lifecycle!Next]_(Lifecycle!lifecycleVars)
  BY StepsImplement DEF Lifecycle!lifecycleVars
<1> QED
  BY <1>1, InitImplements, InvHolds, PTL DEF Spec, ImplementsLifecycle, Lifecycle!Spec

------------------------------------------------------------------------------
(* The consumer fixture: the program's invariant, and program_config holds *)
(* what initialize would store as long as nobody created it.               *)
FixtureInv ==
    /\ Inv
    /\ program \in {"Fresh", "Owned", "Stranded"}
    /\ program = "Fresh" => value = Zero

(* Every step of the fixture is one of the program, or creates or strands  *)
(* program_config and changes nothing that the program stores.             *)
LEMMA FixtureStep ==
    ASSUME FixtureInv, [FixtureNext]_fixtureVars
    PROVE  \/ [Next]_vars
           \/ /\ UNCHANGED <<data, nominatedBy, births, value>>
              /\ \/ UNCHANGED <<owned, stranded>> /\ witness' = {}
                 \/ \E auth \in SUBSET Authorisable : Land(auth, {})
<1>1. ASSUME NEW auth \in SUBSET Authorisable, NEW caller \in Ids, Initialize(caller, auth)
      PROVE  UNCHANGED <<data, nominatedBy, births, value>> /\ Land(auth, {})
  BY <1>1 DEF Initialize, FixtureInv
<1>2. ASSUME NEW auth \in SUBSET Authorisable, NEW caller \in Ids, AdminInitialize(caller, auth)
      PROVE  Next
  BY <1>2 DEF Next
<1>3. ASSUME NEW auth \in SUBSET Authorisable, NEW caller \in Ids, NEW v \in Values,
             UpdateProgram(caller, auth, v)
      PROVE  Next
  BY <1>3 DEF UpdateProgram, Next
<1>4. CASE Management /\ UNCHANGED <<value, program>>
  BY <1>4 DEF Next
<1>5. CASE Environment /\ UNCHANGED <<data, nominatedBy, births, value, program>>
  BY <1>5 DEF Next
<1>6. CASE FundProgram
  BY <1>6 DEF FundProgram
<1>7. CASE UNCHANGED fixtureVars
  BY <1>7 DEF fixtureVars
<1> QED
  BY <1>1, <1>2, <1>3, <1>4, <1>5, <1>6, <1>7 DEF FixtureNext

(* The slot, its owners and the birth of the role survive such a step.     *)
LEMMA FixtureKeepsInv ==
    ASSUME FixtureInv, [FixtureNext]_fixtureVars
    PROVE  Inv'
<1>1. CASE [Next]_vars
  BY <1>1, NextInv DEF FixtureInv
<1>2. ASSUME UNCHANGED <<data, nominatedBy, births, value>>,
             \/ UNCHANGED <<owned, stranded>> /\ witness' = {}
             \/ \E auth \in SUBSET Authorisable : Land(auth, {})
      PROVE  Inv'
  <2>1. LedgerTypeOK /\ owned \cap stranded = {} /\ Inv /\ AuthorityInv
    BY DEF FixtureInv, Inv, AuthorityInv
  <2>2. LedgerTypeOK' /\ (owned \cap stranded)' = {} /\ owned \subseteq owned'
    <3>1. CASE UNCHANGED <<owned, stranded>> /\ witness' = {}
      BY <2>1, <3>1 DEF LedgerTypeOK
    <3>2. ASSUME NEW auth \in SUBSET Authorisable, Land(auth, {})
          PROVE  LedgerTypeOK' /\ (owned \cap stranded)' = {} /\ owned \subseteq owned'
      BY <2>1, <3>2, LandKeeps
    <3> QED
      BY <1>2, <3>1, <3>2
  <2>3. Created' = Created /\ Holder' = Holder /\ Nominee' = Nominee /\ Layout(Ids)'
    BY <1>2, <2>1 DEF Inv, Created, Holder, Nominee, Cfg, Layout, Ids
  <2>4. AuthorityInv'
    BY <1>2, <2>1, <2>2, <2>3, SlotUntouchedKeepsInv
  <2>5. owned' = owned
    BY <1>2 DEF Land
  <2> QED
    BY <1>2, <2>1, <2>3, <2>4, <2>5 DEF Inv, BornOnce
<1> QED
  BY <1>1, <1>2, FixtureStep

(* An account that was created never becomes fresh again, and a write to  *)
(* a fresh one creates or strands it.                                      *)
LEMMA FixtureInvHolds == FixtureSpec => []FixtureInv
<1>1. FixtureInit => FixtureInv
  BY InitInv DEF FixtureInit, FixtureInv
<1>2. FixtureInv /\ [FixtureNext]_fixtureVars => FixtureInv'
  <2> SUFFICES ASSUME FixtureInv, [FixtureNext]_fixtureVars PROVE FixtureInv'
    OBVIOUS
  <2>1. Inv'
    BY FixtureKeepsInv
  <2>2. program' \in {"Fresh", "Owned", "Stranded"}
    BY DEF FixtureInv, FixtureNext, fixtureVars, Initialize, UpdateProgram, FundProgram
  <2>3. program' = "Fresh" => program = "Fresh" /\ value' = value
    BY DEF FixtureInv, FixtureNext, fixtureVars, vars, Initialize, AdminInitialize, UpdateProgram,
           FundProgram
  <2> QED
    BY <2>1, <2>2, <2>3 DEF FixtureInv
<1> QED
  BY <1>1, <1>2, PTL DEF FixtureSpec

(* The open initialize of the other account gives nobody a second birth of *)
(* the role.                                                               *)
THEOREM FixtureRoleBornOnce == FixtureSpec => []BornOnce
<1>1. FixtureInv => BornOnce
  BY DEF FixtureInv, Inv
<1> QED
  BY <1>1, FixtureInvHolds, PTL

(* Nor does that account, open to anybody, shut the window of the role.    *)
THEOREM FixtureWindowStaysOpen == FixtureSpec => []WindowIsOpen
<1>1. FixtureInv => WindowIsOpen
  BY InvWindowIsOpen DEF FixtureInv
<1> QED
  BY <1>1, FixtureInvHolds, PTL

(* Whoever creates program_config, in whatever order with the Config PDA,  *)
(* only the admin of the moment changes what it stores.                    *)
THEOREM ValueIsTheAdmins == FixtureSpec => OnlyAdminChangesValue
<1>1. FixtureInv /\ [FixtureNext]_fixtureVars
        => [value' # value => Initialised /\ Holder \in witness']_fixtureVars
  <2> SUFFICES ASSUME FixtureInv, FixtureNext, value' # value
               PROVE  Initialised /\ Holder \in witness'
    OBVIOUS
  <2>1. PICK auth \in SUBSET Authorisable, caller \in Ids, v \in Values :
          UpdateValue(caller, auth, v)
    BY DEF FixtureInv, FixtureNext, Initialize, AdminInitialize, UpdateProgram, FundProgram
  <2>2. DecodeAtError(data, Offset) = "Ok" /\ AssertAdmin(Cfg, caller, auth) = "Ok"
    BY <2>1 DEF UpdateValue, RequireAdmin, Then, DecodeAtError
  <2>3. Created /\ Cfg.holder # Default /\ caller \in auth /\ caller = Cfg.holder
    BY <2>2, AssertAdminOk DEF Created, DecodeAtError
  <2> QED
    BY <2>1, <2>3 DEF UpdateValue, Land, Initialised, Holder
<1> QED
  BY <1>1, FixtureInvHolds, PTL DEF FixtureSpec, OnlyAdminChangesValue

(* Renouncing is as final in the fixture: program_config may still be      *)
(* created by anybody, and that changes no value.                          *)
THEOREM FixtureRenounceEndsIt == FixtureSpec => RenounceIsTerminal
<1>1. FixtureInv /\ [FixtureNext]_fixtureVars => [Renounced => UNCHANGED <<data, value>>]_vars
  BY FixtureStep, StepsKeepRenounced DEF FixtureInv
<1> QED
  BY <1>1, FixtureInvHolds, PTL DEF FixtureSpec, RenounceIsTerminal

(* The role of the fixture moves by consent alone.                         *)
THEOREM FixtureRoleMovesByConsent == FixtureSpec => HandoverByConsent
<1>1. FixtureInv /\ [FixtureNext]_fixtureVars => [Consent]_authorityVars
  <2>1. FixtureInv /\ UNCHANGED data => Consent
    BY SlotUntouchedStutters DEF Created, Cfg
  <2> QED
    BY <2>1, FixtureStep, StepsConsent DEF FixtureInv
<1> QED
  BY <1>1, FixtureInvHolds, PTL DEF FixtureSpec, HandoverByConsent

(* The fixture implements the lifecycle, whatever becomes of its other     *)
(* account.                                                                *)
THEOREM FixtureImplementsLifecycle == FixtureSpec => ImplementsLifecycle
<1>1. FixtureInit => Lifecycle!Init
  BY InitImplements DEF FixtureInit
<1>2. FixtureInv /\ [FixtureNext]_fixtureVars => [Lifecycle!Next]_(Lifecycle!lifecycleVars)
  <2>1. FixtureInv /\ UNCHANGED data => UNCHANGED <<Phase, Holder, Nominee>>
    BY SlotUntouchedStutters DEF Created, Cfg
  <2> QED
    BY <2>1, FixtureStep, StepsImplement DEF FixtureInv, Lifecycle!lifecycleVars
<1> QED
  BY <1>1, <1>2, FixtureInvHolds, PTL DEF FixtureSpec, ImplementsLifecycle, Lifecycle!Spec

------------------------------------------------------------------------------
(* The witness exchange.  It adds nothing to what the program can do, so   *)
(* the theorems about Spec hold of it; and what the nonces promise about a *)
(* transaction that arrives late holds too.                                *)
Messages == [op : Operations \cup {"none"}, caller : Ids, new : Ids,
             nonces : Seq(Nat), signed : SUBSET Ids]

(* A message in a file: who signs it, and that its nonces came from the    *)
(* chain, which has room for them.                                         *)
Sound(m) ==
    /\ m.op \in Operations
    /\ m.caller \in Keys /\ m.new \in Keys \cup {Default}
    /\ m.signed \subseteq SignerSet(m)
    /\ \A i \in DOMAIN SignersOf(m) :
         /\ SignersOf(m)[i] \in Keys
         /\ m.nonces[i] \in Nat /\ m.nonces[i] < MaxNonce
         /\ m.nonces[i] <= nonce[SignersOf(m)[i]]

ExchangeInv ==
    /\ Inv
    /\ nonce \in [Keys -> 0 .. MaxNonce]
    /\ file \in [Files -> Messages]
    /\ seen \in [Files -> Seq(Ids)]
    /\ overtaken \subseteq Files
    /\ \A f \in Files : file[f] # Blank =>
          Sound(file[f]) /\ (f \in overtaken <=> ~Current(file[f]))
    /\ SignedSlotStands

------------------------------------------------------------------------------
(* Who signs.                                                              *)

(* The first signer is the caller; a transfer has a second, the new admin. *)
LEMMA SignersAre ==
    ASSUME NEW op, NEW caller, NEW new
    PROVE  /\ 1 \in DOMAIN Signers(op, caller, new)
           /\ Signers(op, caller, new)[1] = caller
           /\ DOMAIN Signers(op, caller, new) \in {{1}, {1, 2}}
           /\ \A i \in DOMAIN Signers(op, caller, new) :
                Signers(op, caller, new)[i] = caller
                \/ (op = "transfer" /\ Signers(op, caller, new)[i] = new)
<1>1. CASE op = "transfer"
  <2> DEFINE s == <<caller, new>>
  <2>1. DOMAIN s = {1, 2} /\ s[1] = caller /\ s[2] = new
    OBVIOUS
  <2>2. Signers(op, caller, new) = s
    BY <1>1 DEF Signers
  <2> HIDE DEF s
  <2> QED
    BY <1>1, <2>1, <2>2
<1>2. CASE op # "transfer"
  <2> DEFINE s == <<caller>>
  <2>1. DOMAIN s = {1} /\ s[1] = caller
    OBVIOUS
  <2>2. Signers(op, caller, new) = s
    BY <1>2 DEF Signers
  <2> HIDE DEF s
  <2> QED
    BY <2>1, <2>2
<1> QED
  BY <1>1, <1>2

(* A sound message has a caller and a signer set of keys.                  *)
LEMMA SoundSigners ==
    ASSUME NEW m, Sound(m)
    PROVE  /\ 1 \in DOMAIN SignersOf(m) /\ SignersOf(m)[1] = m.caller
           /\ m.caller \in Keys /\ m.caller \in SignerSet(m)
           /\ SignerSet(m) \subseteq Keys
<1>1. 1 \in DOMAIN SignersOf(m) /\ SignersOf(m)[1] = m.caller
  BY SignersAre DEF SignersOf
<1> QED
  BY <1>1 DEF Sound, SignerSet

------------------------------------------------------------------------------
(* What landing a transaction does to the nonces.                          *)

(* The nonces of the authorised keys grow by one, no other moves.          *)
LEMMA BumpGrows ==
    ASSUME nonce \in [Keys -> 0 .. MaxNonce], Bump, NEW k \in Keys
    PROVE  /\ nonce'[k] \in Nat /\ nonce[k] \in Nat
           /\ k \in witness' => nonce'[k] = nonce[k] + 1
           /\ k \notin witness' => nonce'[k] = nonce[k]
<1>1. nonce[k] \in Nat /\ MaxNonce \in Nat
  BY ExchangeAssumption
<1> QED
  BY <1>1 DEF Bump

(* A message stays sound, and is overtaken exactly when it is no longer    *)
(* current, after any transaction that lands.                              *)
LEMMA BumpKeepsMessages ==
    ASSUME nonce \in [Keys -> 0 .. MaxNonce], Bump, UNCHANGED file,
           NEW f \in Files, file[f] # Blank, overtaken \subseteq Files,
           Sound(file[f]), f \in overtaken <=> ~Current(file[f])
    PROVE  Sound(file[f])' /\ (f \in overtaken <=> ~Current(file[f]))'
<1> DEFINE m == file[f]
           D == DOMAIN SignersOf(m)
<1>1. \A i \in D : /\ SignersOf(m)[i] \in Keys
                   /\ m.nonces[i] \in Nat /\ m.nonces[i] < MaxNonce
                   /\ m.nonces[i] <= nonce[SignersOf(m)[i]]
  BY DEF Sound
<1>2. \A i \in D :
        /\ nonce[SignersOf(m)[i]] \in Nat /\ nonce'[SignersOf(m)[i]] \in Nat
        /\ SignersOf(m)[i] \in witness'
             => nonce'[SignersOf(m)[i]] = nonce[SignersOf(m)[i]] + 1
        /\ SignersOf(m)[i] \notin witness'
             => nonce'[SignersOf(m)[i]] = nonce[SignersOf(m)[i]]
  BY <1>1, BumpGrows
<1>3. SignerSet(m) \cap witness' # {} <=> \E i \in D : SignersOf(m)[i] \in witness'
  BY DEF SignerSet
<1>4. f \in overtaken' <=> f \in overtaken \/ SignerSet(m) \cap witness' # {}
  BY DEF Bump
<1>5. Current(m)' <=> \A i \in D : m.nonces[i] = nonce'[SignersOf(m)[i]]
  BY DEF Current, SignersOf
<1>6. Current(m) <=> \A i \in D : m.nonces[i] = nonce[SignersOf(m)[i]]
  BY DEF Current
<1>7. f \in overtaken' <=> ~Current(m)'
  BY <1>1, <1>2, <1>3, <1>4, <1>5, <1>6
<1>8. \A i \in D : m.nonces[i] <= nonce'[SignersOf(m)[i]]
  BY <1>1, <1>2
<1>9. Sound(m)'
  BY <1>1, <1>8 DEF Sound, SignersOf, SignerSet
<1> QED
  BY <1>7, <1>9

(* A current message's transaction fits in the bound.                      *)
LEMMA BumpStaysBounded ==
    ASSUME nonce \in [Keys -> 0 .. MaxNonce], Bump, NEW m, Sound(m), Current(m),
           witness' = SignerSet(m)
    PROVE  nonce' \in [Keys -> 0 .. MaxNonce]
<1>1. \A k \in Keys : nonce[k] \in Nat /\ nonce[k] <= MaxNonce /\ MaxNonce \in Nat
  BY ExchangeAssumption
<1>2. \A k \in SignerSet(m) : nonce[k] < MaxNonce
  BY DEF Sound, Current, SignerSet
<1>3. \A k \in Keys : nonce'[k] = IF k \in witness' THEN nonce[k] + 1 ELSE nonce[k]
  BY DEF Bump
<1>4. \A k \in Keys : nonce'[k] \in 0 .. MaxNonce
  BY <1>1, <1>2, <1>3
<1> QED
  BY <1>4 DEF Bump

------------------------------------------------------------------------------
(* Every step of the exchange is a step of the program, or leaves it alone. *)

(* A submitted message is a management instruction of its caller, and its  *)
(* witnesses are the accounts it authorises.                               *)
LEMMA PerformIsManagement ==
    ASSUME NEW m, Sound(m), Perform(m)
    PROVE  Management /\ UNCHANGED value /\ witness' = m.signed
<1>1. /\ m.caller \in Ids /\ m.new \in Ids /\ m.signed \in SUBSET Authorisable
      /\ Signer \in Candidates /\ m.op \in Operations /\ UNCHANGED value
  BY SoundSigners DEF Sound, Ids, Accounts, Authorisable, Candidates, Perform
<1>2. CASE m.op = "transfer"
  <2>1. AdminTransfer(m.caller, m.new, Signer, m.signed)
    BY <1>2 DEF Perform
  <2> QED
    BY <1>1, <2>1 DEF Management, AdminTransfer, Execute, Land
<1>3. CASE m.op = "nominate"
  <2>1. AdminNominate(m.caller, m.new, m.signed)
    BY <1>3 DEF Perform
  <2> QED
    BY <1>1, <2>1 DEF Management, AdminNominate, Execute, Land
<1>4. CASE m.op = "accept"
  <2>1. AdminAccept(m.caller, m.signed)
    BY <1>4 DEF Perform
  <2> QED
    BY <1>1, <2>1 DEF Management, AdminAccept, Execute, Land
<1>5. CASE m.op = "renounce"
  <2>1. AdminRenounce(m.caller, m.signed)
    BY <1>5 DEF Perform
  <2> QED
    BY <1>1, <2>1 DEF Management, AdminRenounce, Execute, Land
<1> QED
  BY <1>1, <1>2, <1>3, <1>4, <1>5 DEF Operations

LEMMA ExchangeStepIsProgramStep ==
    ASSUME ExchangeInv, [ExchangeNext]_allVars
    PROVE  [Next]_vars
<1>1. ASSUME NEW f \in Files, Submit(f)
      PROVE  Next
  <2>1. file[f] # Blank /\ Sound(file[f]) /\ Perform(file[f])
    BY <1>1 DEF Submit, Complete, ExchangeInv
  <2> QED
    BY <2>1, PerformIsManagement DEF Next
<1>2. CASE Direct
  BY <1>2 DEF Direct
<1>3. ASSUME NEW f \in Files, NEW op, NEW caller, NEW new, Export(f, op, caller, new)
      PROVE  UNCHANGED vars
  BY <1>3 DEF Export
<1>4. ASSUME NEW f \in Files, NEW k, Sign(f, k)
      PROVE  UNCHANGED vars
  BY <1>4 DEF Sign
<1>5. ASSUME NEW f \in Files, Discard(f)
      PROVE  UNCHANGED vars
  BY <1>5 DEF Discard
<1>6. CASE UNCHANGED allVars
  BY <1>6 DEF allVars
<1> QED
  BY <1>1, <1>2, <1>3, <1>4, <1>5, <1>6 DEF ExchangeNext

(* Whoever holds a slot that was just written signed for it, unless it is  *)
(* nobody or a PDA: no key is written into a slot behind its back.         *)
LEMMA WrittenHolderSigned ==
    ASSUME Inv, [Next]_vars, data' # data
    PROVE  Holder' = Default \/ Holder' \in witness' \cup Pdas
<1>1. ASSUME NEW auth \in SUBSET Authorisable, NEW caller \in Ids,
             AdminInitialize(caller, auth)
      PROVE  Holder' \in witness'
  BY <1>1, InitializeEffect, FreshConfig, DedicatedAssumption DEF Land
<1>2. ASSUME Management
      PROVE  Holder' = Default \/ Holder' \in witness' \cup Pdas
  <2>1. PICK auth \in SUBSET Authorisable, caller \in Ids :
          \/ \E new \in Ids, candidate \in Candidates :
                AdminTransfer(caller, new, candidate, auth)
          \/ \E new \in Ids : AdminNominate(caller, new, auth)
          \/ AdminAccept(caller, auth)
          \/ AdminRenounce(caller, auth)
    BY <1>2 DEF Management
  <2>2. Layout(Ids)
    BY DEF Inv
  <2>3. ASSUME NEW new \in Ids, NEW candidate \in Candidates,
               AdminTransfer(caller, new, candidate, auth)
        PROVE  Holder' \in witness' \cup Pdas
    BY <2>2, <2>3, TransferEffect DEF Writes, Land
  <2>4. ASSUME NEW new \in Ids, AdminNominate(caller, new, auth)
        PROVE  Holder' \in witness'
    BY <2>2, <2>4, NominateEffect DEF Writes, Land
  <2>5. CASE AdminAccept(caller, auth)
    BY <2>2, <2>5, AcceptEffect DEF Writes, Land
  <2>6. CASE AdminRenounce(caller, auth)
    BY <2>2, <2>6, RenounceEffect DEF Writes
  <2> QED
    BY <2>1, <2>3, <2>4, <2>5, <2>6
<1> QED
  BY <1>1, <1>2, DataWriters

------------------------------------------------------------------------------
(* The invariant.                                                          *)

LEMMA ExchangeInitInv == ExchangeInit => ExchangeInv
<1> SUFFICES ASSUME ExchangeInit PROVE ExchangeInv
  OBVIOUS
<1>1. Inv
  BY InitInv DEF ExchangeInit
<1>2. nonce \in [Keys -> 0 .. MaxNonce]
  BY ExchangeAssumption DEF ExchangeInit
<1>3. Blank \in Messages
  BY DEF Blank, Message, Messages, Ids
<1>4. file \in [Files -> Messages] /\ seen \in [Files -> Seq(Ids)] /\ overtaken \subseteq Files
  BY <1>3 DEF ExchangeInit
<1>5. \A f \in Files : file[f] = Blank
  BY DEF ExchangeInit
<1> QED
  BY <1>1, <1>2, <1>4, <1>5 DEF ExchangeInv, SignedSlotStands

(* A transaction that lands, from a file or directly, keeps what the files *)
(* say: a caller that is still current did not sign, so if it is the admin *)
(* now, the slot was not written.                                          *)
LEMMA LandingKeepsSignedSlot ==
    ASSUME ExchangeInv, [Next]_vars, Bump, UNCHANGED <<file, seen>>
    PROVE  SignedSlotStands'
<1> SUFFICES ASSUME NEW f \in Files, file[f] # Blank, CurrentForCaller(file[f])',
                    file[f].caller = Holder'
             PROVE  data' = seen[f]
  BY DEF SignedSlotStands
<1> DEFINE m == file[f]
<1>1. Sound(m) /\ nonce \in [Keys -> 0 .. MaxNonce]
  BY DEF ExchangeInv
<1>2. m.caller \in Keys /\ m.nonces[1] \in Nat /\ m.nonces[1] <= nonce[m.caller]
  BY <1>1, SoundSigners DEF Sound
<1>3. m.nonces[1] = nonce'[m.caller]
  BY DEF CurrentForCaller
<1>4. m.caller \notin witness' /\ CurrentForCaller(m)
  BY <1>1, <1>2, <1>3, BumpGrows DEF CurrentForCaller
<1>5. m.caller # Default /\ m.caller \notin Pdas
  BY <1>2, LedgerAssumption
<1>6. data' = data
  BY <1>4, <1>5, WrittenHolderSigned DEF ExchangeInv
<1>7. m.caller = Holder
  BY <1>6 DEF Holder, Cfg, Created
<1> QED
  BY <1>4, <1>6, <1>7 DEF ExchangeInv, SignedSlotStands

(* Landing a transaction keeps the invariant, wherever it came from, as    *)
(* long as the nonces stay in their bound.                                 *)
LEMMA LandingKeepsInv ==
    ASSUME ExchangeInv, [Next]_vars, Bump, UNCHANGED <<file, seen>>,
           nonce' \in [Keys -> 0 .. MaxNonce]
    PROVE  ExchangeInv'
<1>1. Inv'
  BY NextInv DEF ExchangeInv
<1>2. overtaken' \subseteq Files
  BY DEF Bump, ExchangeInv
<1>3. ASSUME NEW f \in Files, file'[f] # Blank
      PROVE  Sound(file[f])' /\ (f \in overtaken <=> ~Current(file[f]))'
  BY <1>3, BumpKeepsMessages DEF ExchangeInv
<1>4. SignedSlotStands'
  BY LandingKeepsSignedSlot
<1> QED
  BY <1>1, <1>2, <1>3, <1>4 DEF ExchangeInv

(* What a step of the exchange that lands nothing has to show, file by     *)
(* file: a file is untouched, or its message is sound, as current as it    *)
(* says and was built on the slot it remembers.                            *)
LEMMA FileStepKeepsInv ==
    ASSUME ExchangeInv, UNCHANGED <<vars, nonce>>, NEW f \in Files,
           file' \in [Files -> Messages], seen' \in [Files -> Seq(Ids)],
           \A g \in Files \ {f} : file'[g] = file[g] /\ seen'[g] = seen[g],
           overtaken' \subseteq Files,
           \A g \in Files \ {f} : g \in overtaken' <=> g \in overtaken,
           file'[f] # Blank =>
              /\ Sound(file[f])' /\ (f \in overtaken <=> ~Current(file[f]))'
              /\ CurrentForCaller(file[f])' /\ file'[f].caller = Holder => data = seen'[f]
    PROVE  ExchangeInv'
<1>1. Inv'
  BY NextInv DEF ExchangeInv
<1>2. Holder' = Holder /\ data' = data /\ nonce' = nonce
  BY DEF vars, Holder, Cfg, Created
<1>3. ASSUME NEW g \in Files \ {f}, file'[g] # Blank
      PROVE  /\ Sound(file[g])' /\ (g \in overtaken <=> ~Current(file[g]))'
             /\ CurrentForCaller(file[g])' /\ file'[g].caller = Holder => data = seen'[g]
  <2>1. file'[g] = file[g] /\ seen'[g] = seen[g] /\ (g \in overtaken' <=> g \in overtaken)
    OBVIOUS
  <2>2. Sound(file[g]) /\ (g \in overtaken <=> ~Current(file[g]))
    BY <1>3, <2>1 DEF ExchangeInv
  <2>3. CurrentForCaller(file[g]) /\ file[g].caller = Holder => data = seen[g]
    BY <1>3, <2>1 DEF ExchangeInv, SignedSlotStands
  <2>4. Sound(file[g])'
    BY <1>2, <2>1, <2>2 DEF Sound, SignersOf, SignerSet
  <2>5. Current(file[g])' <=> Current(file[g])
    BY <1>2, <2>1 DEF Current, SignersOf
  <2>6. CurrentForCaller(file[g])' <=> CurrentForCaller(file[g])
    BY <1>2, <2>1 DEF CurrentForCaller
  <2> QED
    BY <2>1, <2>2, <2>3, <2>4, <2>5, <2>6
<1>4. SignedSlotStands'
  BY <1>2, <1>3 DEF SignedSlotStands
<1> QED
  BY <1>1, <1>2, <1>3, <1>4 DEF ExchangeInv

(* An exported message has the nonces of the moment, in the signers' order. *)
LEMMA ExportKeepsInv ==
    ASSUME ExchangeInv, NEW f \in Files, NEW op \in Operations, NEW caller \in Keys,
           NEW new \in Keys \cup {Default}, Export(f, op, caller, new)
    PROVE  ExchangeInv'
<1> DEFINE s == Signers(op, caller, new)
           n == Nonces(op, caller, new)
           m == Message(op, caller, new, n)
<1>1. /\ 1 \in DOMAIN s /\ s[1] = caller /\ DOMAIN s \in {{1}, {1, 2}}
      /\ \A i \in DOMAIN s : s[i] = caller \/ (op = "transfer" /\ s[i] = new)
  BY SignersAre
<1>2. \A i \in DOMAIN s : s[i] \in Keys /\ nonce[s[i]] < MaxNonce /\ nonce[s[i]] \in Nat
  BY <1>1, ExchangeAssumption DEF Export, ExchangeInv
<1>3. DOMAIN n = DOMAIN s /\ \A i \in DOMAIN n : n[i] = nonce[s[i]]
  BY DEF Nonces
<1>4. DOMAIN s = 1 .. 1 \/ DOMAIN s = 1 .. 2
  BY <1>1
<1>5. n \in Seq(Nat)
  BY <1>2, <1>3, <1>4 DEF Nonces
<1>6. caller \in Ids /\ new \in Ids
  BY DEF Ids, Accounts
<1> HIDE DEF s, n
<1>7. m \in Messages
  BY <1>5, <1>6 DEF Message, Messages
<1>8. m.op = op /\ m.caller = caller /\ m.new = new /\ m.nonces = n /\ m.signed = {caller}
  BY DEF Message
<1>9. SignersOf(m) = s
  BY <1>8 DEF SignersOf, s
<1> HIDE DEF m
<1>10. /\ file' = [file EXCEPT ![f] = m] /\ seen' = [seen EXCEPT ![f] = data]
       /\ overtaken' = overtaken \ {f} /\ UNCHANGED <<vars, nonce>>
  BY DEF Export, m, n
<1>11. /\ file \in [Files -> Messages] /\ seen \in [Files -> Seq(Ids)]
       /\ overtaken \subseteq Files /\ data \in Seq(Ids)
  BY DEF ExchangeInv, Inv, Layout
<1>12. file'[f] = m /\ seen'[f] = data
  BY <1>10, <1>11
<1>13. Sound(file[f])'
  BY <1>1, <1>2, <1>3, <1>8, <1>9, <1>10, <1>12 DEF Sound, SignersOf, SignerSet
<1>14. Current(file[f])'
  BY <1>3, <1>8, <1>9, <1>10, <1>12 DEF Current, SignersOf
<1> QED
  BY <1>7, <1>10, <1>11, <1>12, <1>13, <1>14, FileStepKeepsInv

(* A witness changes nothing that was signed.                              *)
LEMMA SignKeepsInv ==
    ASSUME ExchangeInv, NEW f \in Files, NEW k \in Keys, Sign(f, k)
    PROVE  ExchangeInv'
<1> DEFINE old == file[f]
           m == [old EXCEPT !.signed = old.signed \cup {k}]
<1>1. /\ file' = [file EXCEPT ![f] = m] /\ old # Blank /\ k \in SignerSet(old)
      /\ UNCHANGED <<vars, nonce, seen, overtaken>>
  BY DEF Sign
<1>2. /\ file \in [Files -> Messages] /\ seen \in [Files -> Seq(Ids)]
      /\ overtaken \subseteq Files /\ old \in Messages
  BY DEF ExchangeInv
<1>3. Sound(old) /\ (f \in overtaken <=> ~Current(old))
  BY <1>1 DEF ExchangeInv
<1>4. CurrentForCaller(old) /\ old.caller = Holder => data = seen[f]
  BY <1>1 DEF ExchangeInv, SignedSlotStands
<1> HIDE DEF old
<1>5. /\ m.op = old.op /\ m.caller = old.caller /\ m.new = old.new /\ m.nonces = old.nonces
      /\ m.signed = old.signed \cup {k}
  BY <1>2 DEF Messages
<1>6. k \in Ids
  BY DEF Ids, Accounts
<1>7. m \in Messages
  BY <1>2, <1>6 DEF Messages
<1> HIDE DEF m
<1>8. file'[f] = m /\ file' \in [Files -> Messages]
  BY <1>1, <1>2, <1>7
<1>9. SignersOf(m) = SignersOf(old) /\ SignerSet(m) = SignerSet(old)
  BY <1>5 DEF SignersOf, SignerSet
<1>10. Sound(m)
  BY <1>1, <1>3, <1>5, <1>9 DEF Sound
<1>11. Sound(file[f])'
  BY <1>1, <1>8, <1>10 DEF Sound, SignersOf, SignerSet
<1>12. Current(file[f])' <=> Current(old)
  BY <1>1, <1>5, <1>8, <1>9 DEF Current, SignersOf
<1>13. CurrentForCaller(file[f])' <=> CurrentForCaller(old)
  BY <1>1, <1>5, <1>8 DEF CurrentForCaller
<1> QED
  BY <1>1, <1>2, <1>3, <1>4, <1>5, <1>8, <1>11, <1>12, <1>13, FileStepKeepsInv

LEMMA DiscardKeepsInv ==
    ASSUME ExchangeInv, NEW f \in Files, Discard(f)
    PROVE  ExchangeInv'
<1>1. Blank \in Messages /\ <<>> \in Seq(Ids)
  BY DEF Blank, Message, Messages, Ids
<1>2. /\ file' = [file EXCEPT ![f] = Blank] /\ seen' = [seen EXCEPT ![f] = <<>>]
      /\ overtaken' = overtaken \ {f} /\ UNCHANGED <<vars, nonce>>
  BY DEF Discard
<1>3. file \in [Files -> Messages] /\ seen \in [Files -> Seq(Ids)] /\ overtaken \subseteq Files
  BY DEF ExchangeInv
<1> QED
  BY <1>1, <1>2, <1>3, FileStepKeepsInv

(* A submitted file was complete and current, so every signer had room.    *)
LEMMA SubmitKeepsInv ==
    ASSUME ExchangeInv, NEW f \in Files, Submit(f)
    PROVE  ExchangeInv'
<1>1. /\ file[f] # Blank /\ file[f].signed = SignerSet(file[f]) /\ Current(file[f])
      /\ Perform(file[f]) /\ Bump /\ UNCHANGED <<file, seen>>
  BY DEF Submit, Complete
<1>2. Sound(file[f]) /\ nonce \in [Keys -> 0 .. MaxNonce]
  BY <1>1 DEF ExchangeInv
<1>3. witness' = SignerSet(file[f])
  BY <1>1, <1>2, PerformIsManagement
<1>4. nonce' \in [Keys -> 0 .. MaxNonce]
  BY <1>1, <1>2, <1>3, BumpStaysBounded
<1>5. [Next]_vars
  BY ExchangeStepIsProgramStep DEF ExchangeNext
<1> QED
  BY <1>1, <1>4, <1>5, LandingKeepsInv

LEMMA DirectKeepsInv ==
    ASSUME ExchangeInv, Direct
    PROVE  ExchangeInv'
<1>1. nonce \in [Keys -> 0 .. MaxNonce]
  BY DEF ExchangeInv
<1>2. \A k \in Keys : nonce'[k] \in Nat /\ nonce'[k] <= MaxNonce
  BY <1>1, BumpGrows DEF Direct, Bounded
<1>3. nonce' \in [Keys -> 0 .. MaxNonce]
  BY <1>2, ExchangeAssumption DEF Direct, Bump
<1> QED
  BY <1>3, LandingKeepsInv DEF Direct

LEMMA ExchangeNextInv == ExchangeInv /\ [ExchangeNext]_allVars => ExchangeInv'
<1> SUFFICES ASSUME ExchangeInv, [ExchangeNext]_allVars PROVE ExchangeInv'
  OBVIOUS
<1>1. ASSUME NEW f \in Files, NEW op \in Operations, NEW caller \in Keys,
             NEW new \in Keys \cup {Default}, Export(f, op, caller, new)
      PROVE  ExchangeInv'
  BY <1>1, ExportKeepsInv
<1>2. ASSUME NEW f \in Files, NEW k \in Keys, Sign(f, k)
      PROVE  ExchangeInv'
  BY <1>2, SignKeepsInv
<1>3. ASSUME NEW f \in Files, Submit(f)
      PROVE  ExchangeInv'
  BY <1>3, SubmitKeepsInv
<1>4. ASSUME NEW f \in Files, Discard(f)
      PROVE  ExchangeInv'
  BY <1>4, DiscardKeepsInv
<1>5. CASE Direct
  BY <1>5, DirectKeepsInv
<1>6. CASE UNCHANGED allVars
  <2>1. Inv'
    BY <1>6, NextInv DEF allVars, ExchangeInv
  <2> QED
    BY <1>6, <2>1 DEF allVars, exchangeVars, vars, ExchangeInv, Sound, Current, CurrentForCaller,
       SignersOf, SignerSet, SignedSlotStands, Holder, Cfg, Created
<1> QED
  BY <1>1, <1>2, <1>3, <1>4, <1>5, <1>6 DEF ExchangeNext

THEOREM ExchangeInvHolds == ExchangeSpec => []ExchangeInv
BY ExchangeInitInv, ExchangeNextInv, PTL DEF ExchangeSpec

------------------------------------------------------------------------------
(* The results.                                                            *)

(* With files in circulation, submitted late, twice or not at all, the     *)
(* program does nothing it cannot do without: every theorem about Spec     *)
(* holds of the exchange.                                                  *)
THEOREM ExchangeImplementsProgram == ExchangeSpec => Spec
<1>1. ExchangeInit => Init
  BY DEF ExchangeInit
<1>2. ExchangeInv /\ [ExchangeNext]_allVars => [Next]_vars
  BY ExchangeStepIsProgramStep
<1> QED
  BY <1>1, <1>2, ExchangeInvHolds, PTL DEF ExchangeSpec, Spec

(* The nonces in every file are the chain's of some moment, and the file   *)
(* is overtaken exactly when a signer signed something since.              *)
THEOREM ExchangeTypeCorrect == ExchangeSpec => []ExchangeTypeOK
<1>1. ExchangeInv => ExchangeTypeOK
  BY DEF ExchangeInv, ExchangeTypeOK, Sound
<1> QED
  BY <1>1, ExchangeInvHolds, PTL

(* A late transaction of the admin finds the slot it was signed for.       *)
THEOREM LateTransactionsFindTheirSlot == ExchangeSpec => []SignedSlotStands
<1>1. ExchangeInv => SignedSlotStands
  BY DEF ExchangeInv
<1> QED
  BY <1>1, ExchangeInvHolds, PTL
==============================================================================
