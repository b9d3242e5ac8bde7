------------------------ MODULE EmbeddedProgramProofs ------------------------
(***************************************************************************)
(* The properties of a program in embedded mode, for every offset of the   *)
(* slot and every set of keys, PDAs and values.                            *)
(***************************************************************************)
EXTENDS EmbeddedProgram, AdminAuthorityProofs, SequenceTheorems

(* The inductive invariant: the shared one, over an account that holds one *)
(* whole ProgConfig or does not exist.                                     *)
Inv ==
    /\ AuthorityInv
    /\ Layout(Cells)
    /\ Len(data) \in {0, Offset + Width}

------------------------------------------------------------------------------
(* The borsh layout of the struct.                                         *)

(* e is a whole account: a value, padding and a slot.                      *)
LaidOut(e, v, p, h, n) ==
    /\ e \in Seq(Cells)
    /\ Len(e) = Offset + Width
    /\ e[1] = v
    /\ \A i \in 2 .. Offset : e[i] = p[i - 1]
    /\ e[Offset + 1] = h /\ e[Offset + 2] = n

(* A struct with Offset - 1 cells of padding encodes to its value, its     *)
(* padding and its slot, in this order and with nothing else.              *)
LEMMA EncodeLayout ==
    ASSUME NEW v \in Cells, NEW p \in Seq(Cells), Len(p) = Offset - 1,
           NEW h \in Cells, NEW n \in Cells
    PROVE  LaidOut(EncodeProgConfig(ProgConfig(v, p, Slot(h, n))), v, p, h, n)
<1> DEFINE a == <<v>> \o p
           z == <<h, n>>
           e == a \o z
<1>1. Offset \in Nat /\ Offset >= 1
  BY OffsetAssumption, EmbeddedAssumption
<1>2. EncodeProgConfig(ProgConfig(v, p, Slot(h, n))) = e
  BY DEF EncodeProgConfig, ProgConfig, Encode, Slot
<1>3. <<v>> \in Seq(Cells) /\ Len(<<v>>) = 1 /\ <<v>>[1] = v
  OBVIOUS
<1>4. /\ a \in Seq(Cells) /\ Len(a) = Offset
      /\ a[1] = v
      /\ \A i \in 2 .. Offset : a[i] = p[i - 1]
  <2> DEFINE s == <<v>>
  <2>1. s \in Seq(Cells) /\ Len(s) = 1 /\ s[1] = v
    BY <1>3
  <2> HIDE DEF s
  <2>2. /\ s \o p \in Seq(Cells) /\ Len(s \o p) = 1 + Len(p)
        /\ \A i \in 1 .. Len(s) + Len(p) :
             (s \o p)[i] = IF i <= Len(s) THEN s[i] ELSE p[i - Len(s)]
    BY <2>1, ConcatProperties
  <2>3. Len(s \o p) = Offset
    BY <1>1, <2>2
  <2>4. (s \o p)[1] = v
    BY <1>1, <2>1, <2>2
  <2>5. \A i \in 2 .. Offset : (s \o p)[i] = p[i - 1]
    BY <1>1, <2>1, <2>2
  <2> QED
    BY <2>2, <2>3, <2>4, <2>5 DEF s
<1>5. z \in Seq(Cells) /\ Len(z) = 2 /\ z[1] = h /\ z[2] = n
  OBVIOUS
<1> HIDE DEF a, z
<1>6. /\ e \in Seq(Cells) /\ Len(e) = Len(a) + Len(z)
      /\ \A i \in 1 .. Len(a) + Len(z) :
           e[i] = IF i <= Len(a) THEN a[i] ELSE z[i - Len(a)]
  BY <1>4, <1>5, ConcatProperties
<1>7. Len(e) = Offset + Width
  BY <1>1, <1>4, <1>5, <1>6 DEF Width
<1>8. e[1] = v /\ \A i \in 2 .. Offset : e[i] = p[i - 1]
  BY <1>1, <1>4, <1>5, <1>6
<1>9. e[Offset + 1] = h /\ e[Offset + 2] = n
  BY <1>1, <1>4, <1>5, <1>6
<1> QED
  BY <1>2, <1>6, <1>7, <1>8, <1>9 DEF LaidOut

(* Decoding a whole account, setting the value and encoding it again       *)
(* changes the first cell only.                                            *)
LEMMA UpdateLayout ==
    ASSUME NEW d \in Seq(Cells), Len(d) = Offset + Width, NEW v \in Cells
    PROVE  LET e == EncodeProgConfig([DecodeProgConfig(d) EXCEPT !.value = v])
           IN  /\ e \in Seq(Cells)
               /\ Len(e) = Offset + Width
               /\ \A i \in 2 .. Offset + Width : e[i] = d[i]
<1> DEFINE p == SubSeq(d, 2, Offset)
           h == d[Offset + 1]
           n == d[Offset + 2]
           e == EncodeProgConfig(ProgConfig(v, p, Slot(h, n)))
<1>1. Offset \in Nat /\ Offset >= 1
  BY OffsetAssumption, EmbeddedAssumption
<1>2. h \in Cells /\ n \in Cells
  BY <1>1 DEF Width
<1>3. /\ p \in Seq(Cells) /\ Len(p) = Offset - 1
      /\ \A i \in 1 .. Offset - 1 : p[i] = d[i + 1]
  BY <1>1, SubSeqProperties DEF Width
<1>4. [DecodeProgConfig(d) EXCEPT !.value = v] = ProgConfig(v, p, Slot(h, n))
  <2> DEFINE s == DecodeProgConfig(d)
  <2>1. s = [value |-> d[1], padding |-> p, admin |-> Slot(h, n)]
    BY DEF DecodeProgConfig, ProgConfig, ConfigAt
  <2> HIDE DEF s, p, h, n
  <2>2. [s EXCEPT !.value = v] = [value |-> v, padding |-> p, admin |-> Slot(h, n)]
    BY <2>1
  <2> QED
    BY <2>2 DEF ProgConfig, s
<1> HIDE DEF p, h, n
<1>5. LaidOut(e, v, p, h, n)
  BY <1>2, <1>3, EncodeLayout
<1> HIDE DEF e
<1>6. \A i \in 2 .. Offset : e[i] = d[i]
  BY <1>1, <1>3, <1>5 DEF LaidOut
<1>7. \A i \in 2 .. Offset + Width : e[i] = d[i]
  BY <1>1, <1>5, <1>6 DEF LaidOut, Width, h, n
<1> QED
  BY <1>4, <1>5, <1>7 DEF LaidOut, e

(* The struct the creating instruction writes first is a whole account.    *)
LEMMA NewLayout ==
    /\ EncodeProgConfig(NewProgConfig) \in Seq(Cells)
    /\ Len(EncodeProgConfig(NewProgConfig)) = Offset + Width
<1> DEFINE p == [i \in 1 .. Offset - 1 |-> Default]
<1>1. Offset - 1 \in Nat /\ Default \in Cells
  BY OffsetAssumption, EmbeddedAssumption DEF Cells, Ids
<1>2. p \in Seq(Cells) /\ Len(p) = Offset - 1
  BY <1>1
<1>3. NewProgConfig = ProgConfig(Default, p, Slot(Default, Default))
  BY DEF NewProgConfig
<1> HIDE DEF p
<1>4. LaidOut(EncodeProgConfig(NewProgConfig), Default, p, Default, Default)
  BY <1>1, <1>2, <1>3, EncodeLayout
<1> QED
  BY <1>4 DEF LaidOut

------------------------------------------------------------------------------
(* What the program's own instructions do.                                 *)

(* The creating instruction works only where there is no account, and      *)
(* leaves a whole one whose slot names its owned, signing caller.          *)
LEMMA InitializeEffect ==
    ASSUME NEW auth \in SUBSET Authorisable, NEW caller \in Ids,
           Initialize(caller, auth)
    PROVE  /\ ~Created /\ Created'
           /\ caller \in auth /\ caller \in owned /\ caller # Default
           /\ Holder' = caller /\ Nominee' = Default
           /\ Layout(Cells)' /\ Len(data') = Offset + Width
           /\ Land(auth, {Config})
           /\ births' = Append(births, caller)
           /\ UNCHANGED nominatedBy
<1> DEFINE d == EncodeProgConfig(NewProgConfig)
           r == Splice(Slot(caller, Default), d, Offset)
<1> DEFINE res == BootstrapResult(Signer, caller, auth, owned)
<1>1. res.err = "Ok" /\ data' = Splice(res.cfg, d, Offset)
  BY DEF Initialize, InitializeResult, BootstrapAt, Then
<1>2. caller # Default /\ caller \in owned /\ res.cfg = Slot(caller, Default)
  BY <1>1, BootstrapResultOk
<1> HIDE DEF res
<1>3. data' = r
  BY <1>1, <1>2
<1>4. d \in Seq(Cells) /\ Len(d) = Offset + Width
  BY NewLayout
<1>5. Default \in Cells /\ caller \in Cells /\ Default \in Ids
  BY DEF Cells, Ids
<1> HIDE DEF d
<1>6. r \in Seq(Cells) /\ Len(r) = Len(d) /\ r # <<>> /\ ConfigAt(r, Offset) = Slot(caller, Default)
  BY <1>4, <1>5, OffsetAssumption, SpliceWindow DEF Width
<1> HIDE DEF r
<1>7. Created' /\ Holder' = caller /\ Nominee' = Default
  BY <1>3, <1>6 DEF Created, Holder, Nominee, Cfg, Slot
<1>8. Layout(Cells)' /\ Len(data') = Offset + Width
  BY <1>3, <1>4, <1>5, <1>6, <1>7, OffsetAssumption DEF Layout, Cells, Ids, Accounts, Width
<1> QED
  BY <1>2, <1>7, <1>8 DEF Initialize

(* The gated update passes only the admin, keeps the slot it read and      *)
(* writes a whole account.                                                 *)
LEMMA UpdateEffect ==
    ASSUME Inv, NEW auth \in SUBSET Authorisable, NEW caller \in Ids,
           NEW v \in Values \cup {Default}, UpdateValue(caller, auth, v)
    PROVE  /\ Initialised /\ Created' /\ Cfg' = Cfg
           /\ Layout(Cells)' /\ Len(data') = Len(data)
           /\ Land(auth, {}) /\ UNCHANGED <<nominatedBy, births>>
<1> DEFINE e == EncodeProgConfig([DecodeProgConfig(data) EXCEPT !.value = v])
<1>1. DecodeAtError(data, Offset) = "Ok" /\ AssertAdmin(Cfg, caller, auth) = "Ok"
  BY DEF UpdateValue, RequireAdmin, Then, DecodeAtError
<1>2. Created /\ Initialised
  BY <1>1, AssertAdminOk DEF Created, Initialised, DecodeAtError
<1>3. data \in Seq(Cells) /\ Len(data) = Offset + Width
  BY <1>2, OffsetAssumption DEF Inv, Layout, Width
<1>4. v \in Cells
  BY DEF Cells, Ids
<1>5. /\ e \in Seq(Cells) /\ Len(e) = Offset + Width
      /\ \A i \in 2 .. Offset + Width : e[i] = data[i]
  BY <1>3, <1>4, UpdateLayout
<1>6. data' = e
  BY DEF UpdateValue
<1> HIDE DEF e
<1>7. data' # <<>> /\ ConfigAt(data', Offset) = Cfg
  BY <1>5, <1>6, OffsetAssumption, EmbeddedAssumption DEF ConfigAt, Cfg, Width
<1>8. Created' /\ Cfg' = Cfg /\ Holder' = Holder /\ Nominee' = Nominee
  BY <1>2, <1>7 DEF Created, Cfg, Holder, Nominee
<1>9. Layout(Cells)'
  BY <1>5, <1>6, <1>8, OffsetAssumption DEF Inv, Layout, Cells, Ids, Accounts, Width
<1> QED
  BY <1>2, <1>3, <1>5, <1>6, <1>8, <1>9 DEF UpdateValue

(* The gate passes only the admin of a live role; poke touches no data.    *)
LEMMA PokeEffect ==
    ASSUME NEW auth \in SUBSET Authorisable, NEW caller \in Ids, Poke(caller, auth)
    PROVE  Land(auth, {}) /\ UNCHANGED <<data, nominatedBy, births>>
BY DEF Poke

(* What a step of the program can be.                                      *)
LEMMA StepCases ==
    ASSUME Inv, [Next]_authorityVars
    PROVE  \/ \E auth \in SUBSET Authorisable, caller \in Ids : Initialize(caller, auth)
           \/ /\ Initialised /\ Created' /\ Cfg' = Cfg
              /\ Layout(Cells)' /\ Len(data') = Len(data)
              /\ UNCHANGED <<nominatedBy, births>>
              /\ \E auth \in SUBSET Authorisable : Land(auth, {})
           \/ Management
           \/ /\ UNCHANGED <<data, nominatedBy, births>>
              /\ \/ \E auth \in SUBSET Authorisable : Land(auth, {})
                 \/ Environment
                 \/ UNCHANGED ledgerVars
<1>1. ASSUME NEW auth \in SUBSET Authorisable, NEW caller \in Ids,
             NEW v \in Values \cup {Default}, UpdateValue(caller, auth, v)
      PROVE  /\ Initialised /\ Created' /\ Cfg' = Cfg
             /\ Layout(Cells)' /\ Len(data') = Len(data)
             /\ Land(auth, {}) /\ UNCHANGED <<nominatedBy, births>>
  BY <1>1, UpdateEffect
<1>2. ASSUME NEW auth \in SUBSET Authorisable, NEW caller \in Ids, Poke(caller, auth)
      PROVE  Land(auth, {}) /\ UNCHANGED <<data, nominatedBy, births>>
  BY <1>2, PokeEffect
<1>3. CASE UNCHANGED authorityVars
  BY <1>3 DEF authorityVars, ledgerVars
<1> QED
  BY <1>1, <1>2, <1>3 DEF Next

------------------------------------------------------------------------------
(* The invariant.                                                          *)

(* It holds before anything exists.                                        *)
LEMMA InitInv == Init => Inv
<1> SUFFICES ASSUME Init PROVE Inv
  OBVIOUS
<1>1. data = <<>> /\ ~Created /\ Holder = Default /\ Nominee = Default
  BY DEF Init, AuthorityInit, Created, Holder, Nominee
<1>2. Layout(Cells) /\ Len(data) \in {0, Offset + Width}
  BY <1>1 DEF Layout, Ids, Cells
<1>3. AuthorityInv
  BY <1>1 DEF Init, AuthorityInit, LedgerInit, AuthorityInv, LedgerTypeOK,
              NominationStandsByHolder, Ids
<1> QED
  BY <1>2, <1>3 DEF Inv

(* Every step keeps it.                                                    *)
LEMMA NextInv == Inv /\ [Next]_authorityVars => Inv'
<1> SUFFICES ASSUME Inv, [Next]_authorityVars PROVE Inv'
  OBVIOUS
<1> USE DEF Inv
<1>1. ASSUME NEW auth \in SUBSET Authorisable, Land(auth, {})
      PROVE  /\ LedgerTypeOK' /\ (owned \cap stranded)' = {} /\ owned \subseteq owned'
  BY <1>1, LandKeeps DEF AuthorityInv
<1>2. ASSUME NEW auth \in SUBSET Authorisable, NEW caller \in Ids,
             Initialize(caller, auth)
      PROVE  Inv'
  <2>1. /\ caller \in auth /\ caller \in owned
        /\ Holder' = caller /\ Nominee' = Default
        /\ Layout(Cells)' /\ Len(data') = Offset + Width
        /\ Land(auth, {Config})
        /\ births' = Append(births, caller)
        /\ UNCHANGED nominatedBy
    BY <1>2, InitializeEffect
  <2>2. {Config} \subseteq Accounts /\ caller \in Authorisable /\ caller \in Accounts
    BY <2>1 DEF Accounts, Authorisable
  <2>3. /\ LedgerTypeOK' /\ (owned \cap stranded)' = {}
        /\ owned \subseteq owned' /\ {Config} \subseteq owned'
    BY <2>1, <2>2, LandKeeps DEF AuthorityInv
  <2>4. births' \in Seq(Accounts)
    BY <2>1, <2>2 DEF AuthorityInv
  <2>5. AuthorityInv'
    BY <2>1, <2>2, <2>3, <2>4, InstallKeepsInv
  <2> QED
    BY <2>1, <2>5
<1>3. CASE /\ Initialised /\ Created' /\ Cfg' = Cfg
           /\ Layout(Cells)' /\ Len(data') = Len(data)
           /\ UNCHANGED <<nominatedBy, births>>
           /\ \E auth \in SUBSET Authorisable : Land(auth, {})
  <2>1. Created /\ Holder' = Holder /\ Nominee' = Nominee
    BY <1>3 DEF Initialised, Holder, Nominee
  <2>2. AuthorityInv'
    BY <1>1, <1>3, <2>1, SlotUntouchedKeepsInv
  <2> QED
    BY <1>3, <2>2
<1>4. CASE Management
  BY <1>4, ManagementKeepsInv
<1>5. CASE /\ UNCHANGED <<data, nominatedBy, births>>
           /\ \/ \E auth \in SUBSET Authorisable : Land(auth, {})
              \/ Environment
              \/ UNCHANGED ledgerVars
  <2>1. Created' = Created /\ Holder' = Holder /\ Nominee' = Nominee /\ Layout(Cells)'
    BY <1>5 DEF Created, Holder, Nominee, Cfg, Layout
  <2>2. CASE Environment
    BY <1>5, <2>1, <2>2, EnvironmentKeepsInv
  <2>3. CASE UNCHANGED ledgerVars
    BY <1>5, <2>1, <2>3, SlotUntouchedKeepsInv DEF ledgerVars, AuthorityInv, LedgerTypeOK
  <2>4. CASE \E auth \in SUBSET Authorisable : Land(auth, {})
    BY <1>1, <1>5, <2>1, <2>4, SlotUntouchedKeepsInv
  <2> QED
    BY <1>5, <2>2, <2>3, <2>4
<1> QED
  BY <1>2, <1>3, <1>4, <1>5, StepCases

(* The inductive invariant holds in every behaviour of the program.        *)
THEOREM InvHolds == Spec => []Inv
BY InitInv, NextInv, PTL DEF Spec

------------------------------------------------------------------------------
(* State properties.                                                       *)

(* Type correctness: the account does not exist or is one whole struct     *)
(* whose slot holds account ids.                                           *)
THEOREM TypeCorrect == Spec => []TypeOK
<1>1. Inv => TypeOK
  BY DEF Inv, AuthorityInv, Layout, TypeOK
<1> QED
  BY <1>1, InvHolds, PTL

(* The admin of a live role can always act on it alone.                    *)
THEOREM HolderAlwaysCanAct == Spec => []HolderCanAct
<1>1. Inv => HolderCanAct
  BY InvHolderCanAct DEF Inv
<1> QED
  BY <1>1, InvHolds, PTL

(* No nomination outlives the admin who made it.                           *)
THEOREM NominationsStand == Spec => []NominationStandsByHolder
<1>1. Inv => NominationStandsByHolder
  BY DEF Inv, AuthorityInv
<1> QED
  BY <1>1, InvHolds, PTL

------------------------------------------------------------------------------
(* Step properties.                                                        *)

(* No step writes the program's cells and the slot: the two writers of the *)
(* account keep each other's.                                              *)
THEOREM WritersKeepApart == Spec => FieldsHaveOneWriter
<1> DEFINE Apart == Created => \/ SubSeq(data', 1, Offset) = SubSeq(data, 1, Offset)
                               \/ Len(data') = Len(data) /\ Cfg' = Cfg
<1>1. Inv /\ [Next]_authorityVars => Apart
  <2> SUFFICES ASSUME Inv, [Next]_authorityVars, Created PROVE Apart
    OBVIOUS
  <2>1. CASE Management
    <3>1. /\ \A i \in 1 .. Len(data) : i \notin {Offset + 1, Offset + 2} => data'[i] = data[i]
          /\ Len(data') = Len(data) /\ data \in Seq(Cells) /\ data' \in Seq(Cells)
          /\ Len(data) >= Offset + Width
      BY <2>1, ManagementIsLocal, ManagementKeepsInv DEF Inv, Layout
    <3>2. \A i \in 1 .. Offset : data'[i] = data[i] /\ data[i] \in Cells
      BY <3>1, OffsetAssumption DEF Width
    <3>3. /\ SubSeq(data, 1, Offset) \in Seq(Cells)
          /\ SubSeq(data', 1, Offset) \in Seq(Cells)
          /\ Len(SubSeq(data, 1, Offset)) = Offset
          /\ Len(SubSeq(data', 1, Offset)) = Offset
      BY <3>1, <3>2, OffsetAssumption, EmbeddedAssumption DEF Width
    <3>4. \A i \in 1 .. Offset : SubSeq(data', 1, Offset)[i] = SubSeq(data, 1, Offset)[i]
      BY <3>1, <3>2, OffsetAssumption, EmbeddedAssumption DEF Width
    <3> QED
      BY <3>3, <3>4, SeqEqual
  <2>2. ASSUME NEW auth \in SUBSET Authorisable, NEW caller \in Ids,
               Initialize(caller, auth)
        PROVE  FALSE
    BY <2>2, InitializeEffect
  <2> QED
    BY <2>1, <2>2, StepCases
<1> QED
  BY <1>1, InvHolds, PTL DEF Spec, FieldsHaveOneWriter

(* Once renounced, no byte of the account changes again.                   *)
THEOREM RenounceEndsIt == Spec => RenounceIsTerminal
<1>1. Inv /\ [Next]_authorityVars => [Renounced => data' = data]_authorityVars
  <2> SUFFICES ASSUME Inv, [Next]_authorityVars, Renounced PROVE data' = data
    OBVIOUS
  <2>1. ~Initialised /\ Created
    BY DEF Renounced, Initialised
  <2>2. ASSUME NEW auth \in SUBSET Authorisable, NEW caller \in Ids,
               Initialize(caller, auth)
        PROVE  FALSE
    BY <2>1, <2>2, InitializeEffect
  <2>3. ~Management
    BY <2>1, ManagementImplements DEF Inv
  <2> QED
    BY <2>1, <2>2, <2>3, StepCases
<1> QED
  BY <1>1, InvHolds, PTL DEF Spec, RenounceIsTerminal

(* The role moves only with the consent of the old admin and the new one.  *)
THEOREM RoleMovesByConsent == Spec => HandoverByConsent
<1>1. Inv /\ [Next]_authorityVars => [Consent]_authorityVars
  <2> SUFFICES ASSUME Inv, [Next]_authorityVars PROVE Consent
    OBVIOUS
  <2>1. ASSUME NEW auth \in SUBSET Authorisable, NEW caller \in Ids,
               Initialize(caller, auth)
        PROVE  Consent
    BY <2>1, InitializeEffect DEF Consent, Initialised
  <2>2. CASE Management
    BY <2>2, ManagementImplements DEF Inv
  <2>3. CASE Initialised /\ Created' /\ Cfg' = Cfg
    BY <2>3, SlotUntouchedStutters DEF Initialised, Consent, Created, Holder
  <2>4. CASE UNCHANGED data
    BY <2>4, SlotUntouchedStutters DEF Created, Cfg
  <2> QED
    BY <2>1, <2>2, <2>3, <2>4, StepCases
<1> QED
  BY <1>1, InvHolds, PTL DEF Spec, HandoverByConsent

------------------------------------------------------------------------------
(* Refinement.                                                             *)

(* The program implements the lifecycle its documentation promises, from a *)
(* slot that is born initialized.                                          *)
THEOREM ProgramImplementsLifecycle == Spec => ImplementsLifecycle
<1>1. Init => Lifecycle!Init
  BY DEF Init, AuthorityInit, Lifecycle!Init, Phase, Holder, Nominee, Created
<1>2. Inv /\ [Next]_authorityVars => [Lifecycle!Next]_(Lifecycle!lifecycleVars)
  <2> SUFFICES ASSUME Inv, [Next]_authorityVars
               PROVE  Lifecycle!Next \/ UNCHANGED <<Phase, Holder, Nominee>>
    BY DEF Lifecycle!lifecycleVars
  <2>1. ASSUME NEW auth \in SUBSET Authorisable, NEW caller \in Ids,
               Initialize(caller, auth)
        PROVE  Lifecycle!Next
    <3>1. /\ ~Created /\ Created' /\ caller \in auth /\ caller # Default
          /\ Holder' = caller /\ Nominee' = Default
      BY <2>1, InitializeEffect
    <3>2. Phase = "Uninitialized" /\ Phase' = "Initialized"
      BY <3>1 DEF Phase, Holder
    <3>3. Lifecycle!Install(caller) /\ caller \in Accounts
      BY <3>1, <3>2 DEF Lifecycle!Install, Accounts, Authorisable
    <3> QED
      BY <3>3 DEF Lifecycle!Next
  <2>2. CASE Management
    BY <2>2, ManagementImplements DEF Inv
  <2>3. CASE Initialised /\ Created' /\ Cfg' = Cfg
    <3>1. Created' = Created
      BY <2>3, Zenon DEF Initialised, Created
    <3> QED
      BY <2>3, <3>1, SlotUntouchedStutters
  <2>4. CASE UNCHANGED data
    BY <2>4, SlotUntouchedStutters DEF Created, Cfg
  <2> QED
    BY <2>1, <2>2, <2>3, <2>4, StepCases
<1> QED
  BY <1>1, <1>2, InvHolds, PTL DEF Spec, ImplementsLifecycle, Lifecycle!Spec
==============================================================================
