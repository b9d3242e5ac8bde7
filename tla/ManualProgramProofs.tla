------------------------- MODULE ManualProgramProofs -------------------------
(***************************************************************************)
(* The properties of the program that writes its own handlers over the     *)
(* library, for every set of keys, PDAs and values.                        *)
(***************************************************************************)
EXTENDS ManualProgram, AdminAuthorityProofs

(* The inductive invariant: the shared one, over a Config PDA that holds   *)
(* one slot or nothing and never a nominee, plus the birth of both         *)
(* accounts together.                                                      *)
Inv ==
    /\ AuthorityInv
    /\ Layout(Ids)
    /\ Len(data) \in {0, Width}
    /\ Nominee = Default /\ nominatedBy = Default
    /\ BornTogether
    /\ program \in {"Fresh", "Owned", "Stranded"}
    /\ value \in Values \cup {NoValue}

(* The creating instruction installs its caller, an owned account other    *)
(* than the config, and only where neither account was.                    *)
LEMMA InitializeEffect ==
    ASSUME NEW auth \in SUBSET Authorisable, NEW caller \in Ids,
           Initialize(caller, auth)
    PROVE  /\ ~Created /\ data' = <<caller, Default>>
           /\ caller \in auth /\ caller \in owned /\ caller # Default
           /\ program = "Fresh" /\ program' = "Owned"
           /\ Land(auth, {Config})
           /\ births' = Append(births, caller)
           /\ UNCHANGED <<nominatedBy, value>>
<1> DEFINE res == BootstrapResult(Signer, caller, auth, owned)
<1>1. res.err = "Ok" /\ data' = Encode(res.cfg)
  BY DEF Initialize, Bootstrap, Load, Then
<1>2. caller # Default /\ caller \in owned /\ res.cfg = Slot(caller, Default)
  BY <1>1, BootstrapResultOk
<1> HIDE DEF res
<1>3. data' = <<caller, Default>>
  BY <1>1, <1>2 DEF Encode, Slot
<1> QED
  BY <1>2, <1>3 DEF Initialize

(* The gated handlers do what the injected instructions would: a transfer  *)
(* is the windowed one, and the strict renounce is too on one slot.        *)
LEMMA GatedIsInjected ==
    ASSUME Layout(Ids), Len(data) \in {0, Width},
           NEW auth \in SUBSET Authorisable, NEW caller \in Ids
    PROVE  /\ \A new \in Ids, candidate \in Candidates :
                 GatedTransfer(caller, new, candidate, auth)
                   => AdminTransfer(caller, new, candidate, auth)
           /\ GatedRenounce(caller, auth) => AdminRenounce(caller, auth)
<1>1. \A new \in Ids, candidate \in Candidates :
        GatedTransfer(caller, new, candidate, auth)
          => AdminTransfer(caller, new, candidate, auth)
  BY ManualAssumption DEF GatedTransfer, AdminTransfer, PerformTransfer
<1>2. data \in Seq(Ids) /\ Default \in Ids
  BY DEF Layout, Ids
<1>3. PerformRenounce(data, caller, auth) = PerformRenounceAt(data, Offset, caller, auth)
  BY <1>2, RenounceFormsAgree, ManualAssumption
<1>4. GatedRenounce(caller, auth) => AdminRenounce(caller, auth)
  BY <1>3 DEF GatedRenounce, AdminRenounce
<1> QED
  BY <1>1, <1>4

(* So each of them is a management instruction that leaves no nominee.      *)
LEMMA GatedEffect ==
    ASSUME Layout(Ids), Len(data) \in {0, Width},
           NEW auth \in SUBSET Authorisable, NEW caller \in Ids,
           \/ \E new \in Ids, candidate \in Candidates :
                 GatedTransfer(caller, new, candidate, auth)
           \/ GatedRenounce(caller, auth)
    PROVE  /\ Management
           /\ Created /\ Created' /\ Nominee' = Default
           /\ UNCHANGED <<nominatedBy, births, program, value>>
<1>1. ASSUME NEW new \in Ids, NEW candidate \in Candidates,
             GatedTransfer(caller, new, candidate, auth)
      PROVE  /\ Management /\ Created /\ Created' /\ Nominee' = Default
             /\ UNCHANGED <<nominatedBy, births, program, value>>
  <2>1. AdminTransfer(caller, new, candidate, auth)
    BY <1>1, GatedIsInjected
  <2>2. Writes(new, Default)
    BY <2>1, TransferEffect
  <2>3. Management
    BY <2>1 DEF Management
  <2> QED
    BY <1>1, <2>2, <2>3 DEF GatedTransfer, Writes
<1>2. ASSUME GatedRenounce(caller, auth)
      PROVE  /\ Management /\ Created /\ Created' /\ Nominee' = Default
             /\ UNCHANGED <<nominatedBy, births, program, value>>
  <2>1. AdminRenounce(caller, auth)
    BY <1>2, GatedIsInjected
  <2>2. Writes(Default, Default)
    BY <2>1, RenounceEffect
  <2>3. Management
    BY <2>1 DEF Management
  <2> QED
    BY <1>2, <2>2, <2>3 DEF GatedRenounce, Writes
<1> QED
  BY <1>1, <1>2

(* The gated write needs a live slot and leaves it alone.                   *)
LEMMA UpdateEffect ==
    ASSUME NEW auth \in SUBSET Authorisable, NEW caller \in Ids, NEW v \in Values,
           UpdateValue(caller, auth, v)
    PROVE  /\ Initialised /\ Land(auth, {}) /\ value' = v
           /\ UNCHANGED <<data, nominatedBy, births, program>>
<1>1. DecodeAtError(data, Offset) = "Ok" /\ AssertAdmin(Cfg, caller, auth) = "Ok"
  BY DEF UpdateValue, RequireAdmin, Then, DecodeAtError
<1> QED
  BY <1>1, AssertAdminOk DEF UpdateValue, Initialised, Created, DecodeAtError

(* The invariant holds before anything exists.                             *)
LEMMA InitInv == Init => Inv
<1> SUFFICES ASSUME Init PROVE Inv
  OBVIOUS
<1>1. data = <<>> /\ ~Created /\ Holder = Default /\ Nominee = Default
  BY DEF Init, AuthorityInit, Created, Holder, Nominee
<1>2. Layout(Ids) /\ Len(data) \in {0, Width}
  BY <1>1 DEF Layout, Ids
<1>3. AuthorityInv
  BY <1>1 DEF Init, AuthorityInit, LedgerInit, AuthorityInv, LedgerTypeOK,
              NominationStandsByHolder, Ids
<1>4. BornTogether /\ nominatedBy = Default
  BY <1>1 DEF Init, AuthorityInit, BornTogether
<1> QED
  BY <1>1, <1>2, <1>3, <1>4 DEF Inv, Init

(* Every step keeps it.                                                    *)
LEMMA NextInv == Inv /\ [Next]_vars => Inv'
<1> SUFFICES ASSUME Inv, [Next]_vars PROVE Inv'
  OBVIOUS
<1> USE DEF Inv
<1>1. ASSUME NEW auth \in SUBSET Authorisable, NEW caller \in Ids,
             Initialize(caller, auth)
      PROVE  Inv'
  <2>1. /\ ~Created /\ data' = <<caller, Default>>
        /\ caller \in auth /\ caller \in owned /\ caller # Default
        /\ program' = "Owned"
        /\ Land(auth, {Config})
        /\ births' = Append(births, caller)
        /\ UNCHANGED <<nominatedBy, value>>
    BY <1>1, InitializeEffect
  <2>2. /\ Created' /\ Holder' = caller /\ Nominee' = Default
        /\ Len(data') = Width /\ Layout(Ids)'
    BY <2>1, FreshConfig, ManualAssumption
  <2>3. {Config} \subseteq Accounts /\ caller \in Authorisable /\ caller \in Accounts
    BY <2>1 DEF Accounts, Authorisable
  <2>4. /\ LedgerTypeOK' /\ (owned \cap stranded)' = {}
        /\ owned \subseteq owned' /\ {Config} \subseteq owned'
    BY <2>1, <2>3, LandKeeps DEF AuthorityInv
  <2>5. births' = <<caller>>
    <3>1. births = <<>>
      BY <2>1 DEF BornTogether
    <3> QED
      BY <2>1, <3>1
  <2>6. AuthorityInv'
    BY <2>1, <2>2, <2>3, <2>4, <2>5, InstallKeepsInv
  <2>7. BornTogether'
    BY <2>1, <2>2, <2>5 DEF BornTogether
  <2> QED
    BY <2>1, <2>2, <2>6, <2>7
<1>2. ASSUME NEW auth \in SUBSET Authorisable, NEW caller \in Ids, NEW v \in Values,
             UpdateValue(caller, auth, v)
      PROVE  Inv'
  <2>1. /\ Initialised /\ Land(auth, {}) /\ value' = v
        /\ UNCHANGED <<data, nominatedBy, births, program>>
    BY <1>2, UpdateEffect
  <2>2. /\ LedgerTypeOK' /\ (owned \cap stranded)' = {} /\ owned \subseteq owned'
    BY <2>1, LandKeeps DEF AuthorityInv
  <2>3. Created' = Created /\ Holder' = Holder /\ Nominee' = Nominee /\ Layout(Ids)'
    BY <2>1 DEF Created, Holder, Nominee, Cfg, Layout, Ids
  <2>4. AuthorityInv'
    BY <2>1, <2>2, <2>3, SlotUntouchedKeepsInv
  <2>5. BornTogether'
    BY <2>1, <2>3 DEF BornTogether, Initialised
  <2> QED
    BY <2>1, <2>3, <2>4, <2>5
<1>3. ASSUME NEW auth \in SUBSET Authorisable, NEW caller \in Ids,
             \/ \E new \in Ids, candidate \in Candidates :
                   GatedTransfer(caller, new, candidate, auth)
             \/ GatedRenounce(caller, auth)
      PROVE  Inv'
  <2>1. /\ Management /\ Created /\ Created' /\ Nominee' = Default
        /\ UNCHANGED <<nominatedBy, births, program, value>>
    BY <1>3, GatedEffect
  <2>2. AuthorityInv' /\ Layout(Ids)' /\ Len(data') = Len(data)
    BY <2>1, ManagementKeepsInv
  <2>3. BornTogether'
    BY <2>1 DEF BornTogether
  <2> QED
    BY <2>1, <2>2, <2>3
<1>4. CASE FundProgram
  <2>1. AuthorityInv'
    BY <1>4, SlotUntouchedKeepsInv
    DEF FundProgram, AuthorityInv, LedgerTypeOK, Created, Holder, Nominee, Cfg
  <2>2. Created' = Created /\ Nominee' = Nominee /\ Layout(Ids)'
    BY <1>4 DEF FundProgram, Created, Holder, Nominee, Cfg, Layout, Ids
  <2>3. BornTogether'
    BY <1>4, <2>2 DEF FundProgram, BornTogether
  <2> QED
    BY <1>4, <2>1, <2>2, <2>3 DEF FundProgram
<1>5. CASE Environment /\ UNCHANGED <<data, nominatedBy, births, program, value>>
  <2>1. AuthorityInv'
    BY <1>5, EnvironmentKeepsInv
  <2>2. Created' = Created /\ Nominee' = Nominee /\ Layout(Ids)' /\ BornTogether'
    BY <1>5 DEF Created, Holder, Nominee, Cfg, Layout, Ids, BornTogether
  <2> QED
    BY <1>5, <2>1, <2>2
<1>6. CASE UNCHANGED vars
  <2>1. AuthorityInv' /\ Layout(Ids)' /\ BornTogether' /\ Nominee' = Nominee
    BY <1>6 DEF vars, AuthorityInv, LedgerTypeOK, NominationStandsByHolder,
                Layout, Holder, Nominee, Cfg, Created, BornTogether
  <2> QED
    BY <1>6, <2>1 DEF vars
<1> QED
  BY <1>1, <1>2, <1>3, <1>4, <1>5, <1>6 DEF Next

(* The inductive invariant holds in every behaviour of the program.        *)
THEOREM InvHolds == Spec => []Inv
BY InitInv, NextInv, PTL DEF Spec

------------------------------------------------------------------------------
(* State properties.                                                       *)

(* Type correctness: the Config PDA is empty or exactly one slot, and      *)
(* nobody is ever nominated.                                               *)
THEOREM TypeCorrect == Spec => []TypeOK
<1>1. Inv => TypeOK
  BY DEF Inv, AuthorityInv, Layout, TypeOK
<1> QED
  BY <1>1, InvHolds, PTL

(* The admin and the program's state come into being together.             *)
THEOREM AccountsBornTogether == Spec => []BornTogether
<1>1. Inv => BornTogether
  BY DEF Inv
<1> QED
  BY <1>1, InvHolds, PTL

(* The admin of a live role can always act on it alone.                    *)
THEOREM HolderAlwaysCanAct == Spec => []HolderCanAct
<1>1. Inv => HolderCanAct
  BY InvHolderCanAct DEF Inv
<1> QED
  BY <1>1, InvHolds, PTL

(* The gate in front of the library's own check changes no answer.         *)
THEOREM GateNeverDisagrees == Spec => []GateIsTheHandlersCheck
<1>1. Inv => GateIsTheHandlersCheck
  <2> SUFFICES ASSUME Inv, NEW caller \in Ids, NEW auth \in SUBSET Authorisable
               PROVE  LET gate == RequireAdmin(caller, auth)
                      IN  /\ PerformRenounce(data, caller, auth).err = gate
                          /\ \A new \in Ids, candidate \in Candidates :
                                gate # "Ok" =>
                                  PerformTransfer(data, caller, candidate, new, auth, owned).err
                                    = gate
    BY DEF GateIsTheHandlersCheck
  <2>1. data \in Seq(Ids) /\ Default \in Ids /\ Len(data) \in {0, Width}
    BY DEF Inv, Layout, Ids
  <2>2. PerformRenounce(data, caller, auth) = PerformRenounceAt(data, 0, caller, auth)
    BY <2>1, RenounceFormsAgree
  <2>3. PerformRenounceAt(data, 0, caller, auth).err = RequireAdmin(caller, auth)
    BY ManualAssumption DEF PerformRenounceAt, SpliceResult, Load, Renounce, RequireAdmin, Cfg
  <2>4. ASSUME NEW new \in Ids, NEW candidate \in Candidates,
               RequireAdmin(caller, auth) # "Ok"
        PROVE  PerformTransfer(data, caller, candidate, new, auth, owned).err
                 = RequireAdmin(caller, auth)
    <3> DEFINE asserted == SlotAssert(Cfg, caller, auth)
               moved == Transfer(Cfg, caller, candidate, new, auth, owned)
    <3>1. asserted # "Ok" => moved.err = AssertAdmin(Cfg, caller, auth)
      BY DEF Transfer, Then, AssertAdmin
    <3>2. AssertAdmin(Cfg, caller, auth) # "Ok" => asserted # "Ok"
      BY DEF AssertAdmin, AdminErrorFrom
    <3>3. PerformTransfer(data, caller, candidate, new, auth, owned).err
            = Then(DecodeAtError(data, Offset), moved.err)
      BY ManualAssumption DEF PerformTransfer, PerformTransferAt, SpliceResult, Load, Cfg
    <3>4. CASE DecodeAtError(data, Offset) = "Ok"
      BY <2>4, <3>1, <3>2, <3>3, <3>4 DEF RequireAdmin, Then
    <3>5. CASE DecodeAtError(data, Offset) # "Ok"
      BY <3>3, <3>5 DEF RequireAdmin, Then
    <3> QED
      BY <3>4, <3>5
  <2> QED
    BY <2>2, <2>3, <2>4
<1> QED
  BY <1>1, InvHolds, PTL

------------------------------------------------------------------------------
(* Step properties.                                                        *)

(* A step that changes the data creates both accounts or is a gated        *)
(* handler; any other leaves the value alone too or passed the gate.       *)
LEMMA DataWriters ==
    ASSUME Inv, [Next]_vars
    PROVE  \/ \E auth \in SUBSET Authorisable, caller \in Ids : Initialize(caller, auth)
           \/ Management /\ UNCHANGED value
           \/ /\ UNCHANGED data
              /\ \/ UNCHANGED value
                 \/ Initialised
<1>1. ASSUME NEW auth \in SUBSET Authorisable, NEW caller \in Ids, NEW v \in Values,
             UpdateValue(caller, auth, v)
      PROVE  UNCHANGED data /\ Initialised
  BY <1>1, UpdateEffect
<1>2. ASSUME NEW auth \in SUBSET Authorisable, NEW caller \in Ids,
             \/ \E new \in Ids, candidate \in Candidates :
                   GatedTransfer(caller, new, candidate, auth)
             \/ GatedRenounce(caller, auth)
      PROVE  Management /\ UNCHANGED value
  BY <1>2, GatedEffect DEF Inv
<1>3. CASE FundProgram
  BY <1>3 DEF FundProgram
<1>4. CASE UNCHANGED vars
  BY <1>4 DEF vars
<1> QED
  BY <1>1, <1>2, <1>3, <1>4 DEF Next

(* Once renounced, the slot never changes and the gate never opens.        *)
THEOREM RenounceEndsIt == Spec => RenounceIsTerminal
<1>1. Inv /\ [Next]_vars => [Renounced => UNCHANGED <<data, value>>]_vars
  <2> SUFFICES ASSUME Inv, [Next]_vars, Renounced PROVE UNCHANGED <<data, value>>
    OBVIOUS
  <2>1. ~Initialised /\ Created
    BY DEF Renounced, Initialised
  <2>2. ASSUME NEW auth \in SUBSET Authorisable, NEW caller \in Ids,
               Initialize(caller, auth)
        PROVE  FALSE
    BY <2>1, <2>2, InitializeEffect
  <2>3. ~Management
    BY <2>1, ManagementImplements DEF Inv
  <2> QED
    BY <2>1, <2>2, <2>3, DataWriters
<1> QED
  BY <1>1, InvHolds, PTL DEF Spec, RenounceIsTerminal

(* The role moves only with the consent of the old admin and the new one.  *)
THEOREM RoleMovesByConsent == Spec => HandoverByConsent
<1>1. Inv /\ [Next]_vars => [Consent]_authorityVars
  <2> SUFFICES ASSUME Inv, [Next]_vars PROVE Consent
    OBVIOUS
  <2>1. ASSUME NEW auth \in SUBSET Authorisable, NEW caller \in Ids,
               Initialize(caller, auth)
        PROVE  Consent
    BY <2>1, InitializeEffect DEF Consent, Initialised
  <2>2. CASE Management
    BY <2>2, ManagementImplements DEF Inv
  <2>3. CASE UNCHANGED data
    BY <2>3, SlotUntouchedStutters DEF Created, Cfg
  <2> QED
    BY <2>1, <2>2, <2>3, DataWriters
<1> QED
  BY <1>1, InvHolds, PTL DEF Spec, HandoverByConsent

------------------------------------------------------------------------------
(* Refinement.                                                             *)

(* The creating instruction is the lifecycle's Install.                    *)
LEMMA InitializeInstalls ==
    ASSUME NEW auth \in SUBSET Authorisable, NEW caller \in Ids,
           Initialize(caller, auth)
    PROVE  Lifecycle!Next
<1>1. /\ ~Created /\ data' = <<caller, Default>> /\ caller # Default
      /\ caller \in auth
  BY InitializeEffect
<1>2. Created' /\ Holder' = caller /\ Nominee' = Default
  BY <1>1, FreshConfig, ManualAssumption
<1>3. Phase = "Uninitialized" /\ Phase' = "Initialized"
  BY <1>1, <1>2 DEF Phase, Holder
<1>4. Lifecycle!Install(caller)
  BY <1>2, <1>3 DEF Lifecycle!Install
<1>5. caller \in Accounts
  BY <1>1 DEF Accounts, Authorisable
<1> QED
  BY <1>4, <1>5 DEF Lifecycle!Next

(* The hand-written handlers implement the documented lifecycle too.       *)
THEOREM ProgramImplementsLifecycle == Spec => ImplementsLifecycle
<1>1. Init => Lifecycle!Init
  BY DEF Init, AuthorityInit, Lifecycle!Init, Phase, Holder, Nominee, Created
<1>2. Inv /\ [Next]_vars => [Lifecycle!Next]_(Lifecycle!lifecycleVars)
  <2> SUFFICES ASSUME Inv, [Next]_vars
               PROVE  Lifecycle!Next \/ UNCHANGED <<Phase, Holder, Nominee>>
    BY DEF Lifecycle!lifecycleVars
  <2>1. ASSUME NEW auth \in SUBSET Authorisable, NEW caller \in Ids,
               Initialize(caller, auth)
        PROVE  Lifecycle!Next
    BY <2>1, InitializeInstalls
  <2>2. CASE Management
    BY <2>2, ManagementImplements DEF Inv
  <2>3. CASE UNCHANGED data
    BY <2>3, SlotUntouchedStutters DEF Created, Cfg
  <2> QED
    BY <2>1, <2>2, <2>3, DataWriters
<1> QED
  BY <1>1, <1>2, InvHolds, PTL DEF Spec, ImplementsLifecycle, Lifecycle!Spec
==============================================================================
