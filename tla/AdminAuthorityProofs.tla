------------------------- MODULE AdminAuthorityProofs -------------------------
(***************************************************************************)
(* What each management instruction does, proved for every Offset, every   *)
(* account layout and every set of accounts.  The proofs of the programs   *)
(* that carry the instructions rest on these lemmas.                       *)
(***************************************************************************)
EXTENDS AdminAuthority, AdminConfigProofs

(* LEZ admits two accounts when they differ, neither is stranded and the   *)
(* authorised ones are among them.                                         *)
LEMMA AdmittedTwo ==
    ASSUME NEW a, NEW b, NEW auth
    PROVE  Admitted(<<a, b>>, auth) <=>
             /\ a # b
             /\ auth \subseteq {a, b} \cap Authorisable
             /\ a \notin stranded /\ b \notin stranded
<1> DEFINE s == <<a, b>>
<1>1. DOMAIN s = {1, 2} /\ s[1] = a /\ s[2] = b
  OBVIOUS
<1>2. {s[i] : i \in DOMAIN s} = {a, b}
  BY <1>1
<1>3. (\A i, j \in DOMAIN s : i # j => s[i] # s[j]) <=> a # b
  BY <1>1
<1>4. (\A i \in DOMAIN s : s[i] \notin stranded) <=> a \notin stranded /\ b \notin stranded
  BY <1>1
<1> HIDE DEF s
<1>5. Admitted(s, auth) <=>
        /\ a # b
        /\ auth \subseteq {a, b} \cap Authorisable
        /\ a \notin stranded /\ b \notin stranded
  BY <1>2, <1>3, <1>4 DEF Admitted
<1> QED
  BY <1>5 DEF s

(* The same of three accounts.                                             *)
LEMMA AdmittedThree ==
    ASSUME NEW a, NEW b, NEW c, NEW auth, Admitted(<<a, b, c>>, auth)
    PROVE  /\ a # b /\ a # c /\ b # c
           /\ auth \subseteq {a, b, c} \cap Authorisable
           /\ a \notin stranded /\ b \notin stranded /\ c \notin stranded
<1> DEFINE s == <<a, b, c>>
<1>1. DOMAIN s = {1, 2, 3} /\ s[1] = a /\ s[2] = b /\ s[3] = c
  OBVIOUS
<1>2. {s[i] : i \in DOMAIN s} = {a, b, c}
  BY <1>1
<1>3. Admitted(s, auth)
  OBVIOUS
<1> HIDE DEF s
<1>4. a # b /\ a # c /\ b # c
  BY <1>1, <1>3 DEF Admitted
<1>5. auth \subseteq {a, b, c} \cap Authorisable
  BY <1>2, <1>3 DEF Admitted
<1>6. a \notin stranded /\ b \notin stranded /\ c \notin stranded
  BY <1>1, <1>3 DEF Admitted
<1> QED
  BY <1>4, <1>5, <1>6

------------------------------------------------------------------------------
(* What the four instructions do to the slot.                              *)

(* A landed management instruction wrote Slot(h, n) and nothing else.      *)
Writes(h, n) ==
    /\ Created /\ Created'
    /\ Holder' = h /\ Nominee' = n
    /\ Len(data') = Len(data)
    /\ \A i \in 1 .. Len(data) : i \notin {Offset + 1, Offset + 2} => data'[i] = data[i]

(* A step that executes a successful windowed operation writes its config  *)
(* and keeps the layout.                                                   *)
LEMMA ExecuteWrites ==
    ASSUME NEW S, Layout(S), NEW accounts, NEW caller, NEW auth, NEW res,
           NEW h \in Ids, NEW n \in Ids, res.cfg = Slot(h, n),
           Execute(accounts, caller, auth, SpliceResult(res, data, Offset))
    PROVE  /\ res.err = "Ok"
           /\ Writes(h, n)
           /\ Layout(S)'
<1>1. /\ data # <<>> /\ ~(Len(data) < Offset + Width)
      /\ res.err = "Ok"
      /\ data' = Splice(Slot(h, n), data, Offset)
  BY SpliceResultOk DEF Execute
<1>2. h \in S /\ n \in S /\ data \in Seq(S) /\ Len(data) >= Offset + Width
  BY <1>1, OffsetAssumption DEF Layout, Created
<1> DEFINE r == Splice(Slot(h, n), data, Offset)
<1>3. /\ r \in Seq(S)
      /\ Len(r) = Len(data)
      /\ r # <<>>
      /\ ConfigAt(r, Offset) = Slot(h, n)
      /\ \A i \in 1 .. Len(data) : i \notin {Offset + 1, Offset + 2} => r[i] = data[i]
  BY <1>2, SpliceWindow, OffsetAssumption
<1> HIDE DEF r
<1>4. /\ data' \in Seq(S)
      /\ Len(data') = Len(data)
      /\ data' # <<>>
      /\ ConfigAt(data', Offset) = Slot(h, n)
      /\ \A i \in 1 .. Len(data) : i \notin {Offset + 1, Offset + 2} => data'[i] = data[i]
  BY <1>1, <1>3 DEF r
<1>5. Holder' = h /\ Nominee' = n
  BY <1>4 DEF Holder, Nominee, Cfg, Created, Slot
<1>6. Writes(h, n)
  BY <1>1, <1>4, <1>5 DEF Writes, Created
<1>7. Layout(S)'
  BY <1>2, <1>4, <1>5 DEF Layout, Ids, Accounts
<1> QED
  BY <1>1, <1>6, <1>7

(* admin_transfer moves a live role from its signing holder to an owned    *)
(* account other than the config, which signed or is a PDA, and leaves no  *)
(* nominee.                                                                *)
LEMMA TransferEffect ==
    ASSUME NEW S, Layout(S), NEW caller \in Ids, NEW new \in Ids,
           NEW candidate \in Candidates, NEW auth,
           AdminTransfer(caller, new, candidate, auth)
    PROVE  /\ Holder # Default /\ Holder \in auth /\ auth \subseteq Authorisable
           /\ new \in owned /\ new # Default /\ new # Holder
           /\ new \in Authorisable /\ new \in auth \cup Pdas
           /\ Writes(new, Default) /\ Layout(S)'
           /\ Land(auth, {}) /\ UNCHANGED <<nominatedBy, births>>
<1> DEFINE res == Transfer(Cfg, caller, candidate, new, auth, owned)
<1>1. /\ Execute(<<Config, caller, new>>, caller, auth, SpliceResult(res, data, Offset))
      /\ UNCHANGED <<nominatedBy, births>>
  BY DEF AdminTransfer, PerformTransferAt, Cfg
<1>2. res.cfg = Slot(new, Default)
  BY DEF Transfer
<1>3. Default \in Ids
  BY DEF Ids
<1> HIDE DEF res
<1>4. res.err = "Ok" /\ Writes(new, Default) /\ Layout(S)'
  BY <1>1, <1>2, <1>3, ExecuteWrites
<1>5. /\ Cfg.holder # Default /\ caller = Cfg.holder /\ caller \in auth
      /\ new # Default /\ new \in owned
      /\ new \in auth \/ (candidate.kind # "Signer" /\ candidate.address = new)
  BY <1>4, TransferOk DEF res
<1>6. Holder = caller
  BY <1>4, <1>5 DEF Writes, Holder
<1>7. Admitted(<<Config, caller, new>>, auth) /\ Land(auth, {})
  BY <1>1 DEF Execute
<1>8. Config # new /\ caller # new /\ auth \subseteq Authorisable
  BY <1>7, AdmittedThree
<1>9. candidate.kind # "Signer" => candidate.address \in Pdas \cup {Config}
  BY DEF Candidates, Signer, Pda
<1> QED
  BY <1>1, <1>4, <1>5, <1>6, <1>7, <1>8, <1>9 DEF Authorisable

(* admin_nominate leaves the role where it is and records the signing      *)
(* holder's nominee.                                                       *)
LEMMA NominateEffect ==
    ASSUME NEW S, Layout(S), NEW caller \in Ids, NEW new \in Ids, NEW auth,
           AdminNominate(caller, new, auth)
    PROVE  /\ Holder # Default /\ Holder \in auth /\ auth \subseteq Authorisable
           /\ Writes(Holder, new) /\ Layout(S)'
           /\ Land(auth, {}) /\ nominatedBy' = Holder /\ UNCHANGED births
<1> DEFINE res == Nominate(Cfg, caller, new, auth)
<1>1. /\ Execute(<<Config, caller>>, caller, auth, SpliceResult(res, data, Offset))
      /\ nominatedBy' = caller /\ UNCHANGED births
  BY DEF AdminNominate, PerformNominateAt, Cfg
<1>2. Created /\ res.err = "Ok"
  BY <1>1, SpliceResultOk DEF Execute, Created
<1>3. /\ Cfg.holder # Default /\ caller = Cfg.holder /\ caller \in auth
  BY <1>2, AssertAdminOk DEF Nominate
<1>4. Holder = caller /\ res.cfg = Slot(Holder, new)
  BY <1>2, <1>3 DEF Holder, Nominate
<1> HIDE DEF res
<1>5. Writes(Holder, new) /\ Layout(S)'
  BY <1>1, <1>4, ExecuteWrites
<1>6. Admitted(<<Config, caller>>, auth) /\ Land(auth, {})
  BY <1>1 DEF Execute
<1>7. auth \subseteq Authorisable
  BY <1>6, AdmittedTwo
<1> QED
  BY <1>1, <1>3, <1>4, <1>5, <1>6, <1>7

(* admin_accept moves a live role to its nominee, which is owned and       *)
(* signed, and leaves no nominee.                                          *)
LEMMA AcceptEffect ==
    ASSUME NEW S, Layout(S), NEW caller \in Ids, NEW auth, AdminAccept(caller, auth)
    PROVE  /\ Holder # Default /\ Nominee # Default
           /\ Nominee \in auth /\ auth \subseteq Authorisable /\ Nominee \in owned
           /\ Writes(Nominee, Default) /\ Layout(S)'
           /\ Land(auth, {}) /\ UNCHANGED <<nominatedBy, births>>
<1> DEFINE res == Accept(Cfg, caller, auth, owned)
<1>1. /\ Execute(<<Config, caller>>, caller, auth, SpliceResult(res, data, Offset))
      /\ UNCHANGED <<nominatedBy, births>>
  BY DEF AdminAccept, PerformAcceptAt, Cfg
<1>2. Created /\ res.err = "Ok"
  BY <1>1, SpliceResultOk DEF Execute, Created
<1>3. /\ Cfg.holder # Default /\ Cfg.nominee # Default
      /\ caller = Cfg.nominee /\ caller \in auth /\ caller \in owned
  BY <1>2, AcceptOk
<1>4. Holder = Cfg.holder /\ Nominee = caller /\ res.cfg = Slot(Nominee, Default)
  BY <1>2, <1>3 DEF Holder, Nominee, Accept
<1>5. Default \in Ids
  BY DEF Ids
<1> HIDE DEF res
<1>6. Writes(Nominee, Default) /\ Layout(S)'
  BY <1>1, <1>4, <1>5, ExecuteWrites DEF Layout
<1>7. Admitted(<<Config, caller>>, auth) /\ Land(auth, {})
  BY <1>1 DEF Execute
<1>8. auth \subseteq Authorisable
  BY <1>7, AdmittedTwo
<1> QED
  BY <1>1, <1>3, <1>4, <1>6, <1>7, <1>8

(* admin_renounce ends a live role on its holder's signature.              *)
LEMMA RenounceEffect ==
    ASSUME NEW S, Layout(S), NEW caller \in Ids, NEW auth, AdminRenounce(caller, auth)
    PROVE  /\ Holder # Default /\ Holder \in auth /\ auth \subseteq Authorisable
           /\ Writes(Default, Default) /\ Layout(S)'
           /\ Land(auth, {}) /\ UNCHANGED <<nominatedBy, births>>
<1> DEFINE res == Renounce(Cfg, caller, auth)
<1>1. /\ Execute(<<Config, caller>>, caller, auth, SpliceResult(res, data, Offset))
      /\ UNCHANGED <<nominatedBy, births>>
  BY DEF AdminRenounce, PerformRenounceAt, Cfg
<1>2. Created /\ res.err = "Ok"
  BY <1>1, SpliceResultOk DEF Execute, Created
<1>3. /\ Cfg.holder # Default /\ caller = Cfg.holder /\ caller \in auth
  BY <1>2, AssertAdminOk DEF Renounce
<1>4. Holder = caller /\ res.cfg = Slot(Default, Default)
  BY <1>2, <1>3 DEF Holder, Renounce
<1>5. Default \in Ids
  BY DEF Ids
<1> HIDE DEF res
<1>6. Writes(Default, Default) /\ Layout(S)'
  BY <1>1, <1>4, <1>5, ExecuteWrites
<1>7. Admitted(<<Config, caller>>, auth) /\ Land(auth, {})
  BY <1>1 DEF Execute
<1>8. auth \subseteq Authorisable
  BY <1>7, AdmittedTwo
<1> QED
  BY <1>1, <1>3, <1>4, <1>6, <1>7, <1>8

------------------------------------------------------------------------------
(* What the steps have in common.                                          *)

(* Landing a transaction takes no owner away and strands no owned account. *)
LEMMA LandKeeps ==
    ASSUME LedgerTypeOK, owned \cap stranded = {},
           NEW auth, auth \subseteq Authorisable,
           NEW claims, claims \subseteq Accounts,
           Land(auth, claims)
    PROVE  /\ LedgerTypeOK'
           /\ (owned \cap stranded)' = {}
           /\ owned \subseteq owned' /\ claims \subseteq owned'
           /\ witness' = auth
BY DEF Land, LedgerTypeOK, Accounts, Authorisable

(* A step that leaves the slot alone keeps the invariant when it keeps the *)
(* ledger sound and every owner.                                           *)
LEMMA SlotUntouchedKeepsInv ==
    ASSUME AuthorityInv,
           LedgerTypeOK', (owned \cap stranded)' = {}, owned \subseteq owned',
           Created' => Created, Holder' = Holder, Nominee' = Nominee,
           UNCHANGED <<nominatedBy, births>>
    PROVE  AuthorityInv'
BY DEF AuthorityInv, NominationStandsByHolder, Authorisable, Ids, Accounts

(* A step that installs an owned account and leaves no nominee keeps it.   *)
LEMMA InstallKeepsInv ==
    ASSUME AuthorityInv,
           LedgerTypeOK', (owned \cap stranded)' = {}, owned \subseteq owned',
           Config \in owned',
           Holder' # Default => Holder' \in owned' \cap Authorisable,
           Nominee' = Default, nominatedBy' = nominatedBy, births' \in Seq(Accounts)
    PROVE  AuthorityInv'
BY DEF AuthorityInv, NominationStandsByHolder, Authorisable, Ids, Accounts

(* The environment never touches the slot and keeps the ledger sound.      *)
LEMMA EnvironmentKeepsInv ==
    ASSUME AuthorityInv, Environment, UNCHANGED <<data, nominatedBy, births>>
    PROVE  AuthorityInv'
<1>1. LedgerTypeOK /\ owned \cap stranded = {}
  BY DEF AuthorityInv
<1>2. LedgerTypeOK' /\ (owned \cap stranded)' = {} /\ owned \subseteq owned'
  <2>1. CASE \E k \in Keys : WalletInit(k) \/ SignElsewhere(k)
    <3>1. PICK k \in Keys : Land({k}, {k}) \/ Land({k}, {})
      BY <2>1 DEF WalletInit, SignElsewhere
    <3>2. {k} \subseteq Authorisable /\ {k} \subseteq Accounts /\ {} \subseteq Accounts
      BY DEF Authorisable, Accounts
    <3> QED
      BY <1>1, <3>1, <3>2, LandKeeps
  <2>2. CASE \E p \in Pdas : DeployPda(p)
    <3>1. PICK p \in Pdas : Land({}, {p})
      BY <2>2 DEF DeployPda
    <3>2. {} \subseteq Authorisable /\ {p} \subseteq Accounts
      BY DEF Accounts
    <3> QED
      BY <1>1, <3>1, <3>2, LandKeeps
  <2>3. CASE \E a \in Accounts : Fund(a)
    BY <1>1, <2>3 DEF Fund, Fresh, LedgerTypeOK
  <2> QED
    BY <2>1, <2>2, <2>3 DEF Environment
<1>3. Holder' = Holder /\ Nominee' = Nominee /\ Created' = Created
  BY DEF Holder, Nominee, Cfg, Created
<1> QED
  BY <1>2, <1>3, SlotUntouchedKeepsInv

(* A management instruction keeps the invariant and the layout.            *)
LEMMA ManagementKeepsInv ==
    ASSUME NEW S, Layout(S), AuthorityInv, Management
    PROVE  AuthorityInv' /\ Layout(S)' /\ Len(data') = Len(data)
<1>1. PICK auth \in SUBSET Authorisable, caller \in Ids :
        \/ \E new \in Ids, candidate \in Candidates :
              AdminTransfer(caller, new, candidate, auth)
        \/ \E new \in Ids : AdminNominate(caller, new, auth)
        \/ AdminAccept(caller, auth)
        \/ AdminRenounce(caller, auth)
  BY DEF Management
<1>2. LedgerTypeOK /\ owned \cap stranded = {} /\ {} \subseteq Accounts
  BY DEF AuthorityInv
<1>3. Land(auth, {}) => /\ LedgerTypeOK' /\ (owned \cap stranded)' = {}
                        /\ owned \subseteq owned' /\ witness' = auth
  BY <1>2, LandKeeps
<1>4. CASE \E new \in Ids, candidate \in Candidates :
              AdminTransfer(caller, new, candidate, auth)
  <2>1. PICK new \in Ids, candidate \in Candidates :
          AdminTransfer(caller, new, candidate, auth)
    BY <1>4
  <2>2. /\ new \in owned /\ new \in Authorisable
        /\ Writes(new, Default) /\ Layout(S)'
        /\ Land(auth, {}) /\ UNCHANGED <<nominatedBy, births>>
    BY <2>1, TransferEffect
  <2>3. AuthorityInv'
    BY <1>3, <2>2, InstallKeepsInv DEF Writes, AuthorityInv
  <2> QED
    BY <2>2, <2>3 DEF Writes
<1>5. CASE \E new \in Ids : AdminNominate(caller, new, auth)
  <2>1. PICK new \in Ids : AdminNominate(caller, new, auth)
    BY <1>5
  <2>2. /\ Holder # Default
        /\ Writes(Holder, new) /\ Layout(S)'
        /\ Land(auth, {}) /\ nominatedBy' = Holder /\ UNCHANGED births
    BY <2>1, NominateEffect
  <2>3. NominationStandsByHolder'
    BY <2>2 DEF Writes, NominationStandsByHolder
  <2>4. AuthorityInv'
    BY <1>3, <2>2, <2>3 DEF Writes, AuthorityInv, Layout
  <2> QED
    BY <2>2, <2>4 DEF Writes
<1>6. CASE AdminAccept(caller, auth)
  <2>1. /\ Nominee \in auth /\ Nominee \in owned
        /\ Writes(Nominee, Default) /\ Layout(S)'
        /\ Land(auth, {}) /\ UNCHANGED <<nominatedBy, births>>
    BY <1>6, AcceptEffect
  <2>2. AuthorityInv'
    BY <1>3, <2>1, InstallKeepsInv DEF Writes, AuthorityInv
  <2> QED
    BY <2>1, <2>2 DEF Writes
<1>7. CASE AdminRenounce(caller, auth)
  <2>1. /\ Writes(Default, Default) /\ Layout(S)'
        /\ Land(auth, {}) /\ UNCHANGED <<nominatedBy, births>>
    BY <1>7, RenounceEffect
  <2>2. AuthorityInv'
    BY <1>3, <2>1, InstallKeepsInv DEF Writes, AuthorityInv
  <2> QED
    BY <2>1, <2>2 DEF Writes
<1> QED
  BY <1>1, <1>4, <1>5, <1>6, <1>7

(* A management instruction is a step of the promised lifecycle, works     *)
(* only while somebody holds the role, and moves it only with consent.     *)
LEMMA ManagementImplements ==
    ASSUME NEW S, Layout(S), AuthorityInv, Management
    PROVE  /\ Lifecycle!Next
           /\ Initialised
           /\ Consent
<1>1. PICK auth \in SUBSET Authorisable, caller \in Ids :
        \/ \E new \in Ids, candidate \in Candidates :
              AdminTransfer(caller, new, candidate, auth)
        \/ \E new \in Ids : AdminNominate(caller, new, auth)
        \/ AdminAccept(caller, auth)
        \/ AdminRenounce(caller, auth)
  BY DEF Management
<1>2. ASSUME NEW h, NEW n, Writes(h, n), Holder # Default
      PROVE  /\ Phase = "Initialized" /\ Initialised
             /\ Phase' = IF h = Default THEN "Renounced" ELSE "Initialized"
             /\ Renounced' <=> h = Default
             /\ Holder' = h /\ Nominee' = n
  BY <1>2 DEF Writes, Phase, Initialised, Renounced, Holder
<1>3. ASSUME NEW n \in Ids PROVE n \in Accounts \cup {Default}
  BY <1>3 DEF Ids
<1>4. CASE \E new \in Ids, candidate \in Candidates :
              AdminTransfer(caller, new, candidate, auth)
  <2>1. PICK new \in Ids, candidate \in Candidates :
          AdminTransfer(caller, new, candidate, auth)
    BY <1>4
  <2>2. /\ Holder # Default /\ Holder \in auth
        /\ new \in owned /\ new # Default /\ new # Holder
        /\ new \in Authorisable /\ new \in auth \cup Pdas
        /\ Writes(new, Default) /\ Land(auth, {})
    BY <2>1, TransferEffect
  <2>3. new \in Accounts
    BY <2>2 DEF Accounts, Authorisable
  <2>4. Lifecycle!HandOver(new)
    BY <1>2, <2>2 DEF Lifecycle!HandOver
  <2>5. Consent
    BY <1>2, <2>2 DEF Consent, Land
  <2> QED
    BY <1>2, <2>2, <2>3, <2>4, <2>5 DEF Lifecycle!Next
<1>5. CASE \E new \in Ids : AdminNominate(caller, new, auth)
  <2>1. PICK new \in Ids : AdminNominate(caller, new, auth)
    BY <1>5
  <2>2. Holder # Default /\ Writes(Holder, new)
    BY <2>1, NominateEffect
  <2>3. Lifecycle!Offer(new)
    BY <1>2, <2>2 DEF Lifecycle!Offer
  <2>4. Consent
    BY <1>2, <2>2 DEF Consent
  <2> QED
    BY <1>2, <1>3, <2>2, <2>3, <2>4 DEF Lifecycle!Next
<1>6. CASE AdminAccept(caller, auth)
  <2>1. /\ Holder # Default /\ Nominee # Default /\ Nominee \in auth
        /\ Writes(Nominee, Default) /\ Land(auth, {})
    BY <1>6, AcceptEffect
  <2>2. Lifecycle!TakeUp
    BY <1>2, <2>1 DEF Lifecycle!TakeUp
  <2>3. Consent
    BY <1>2, <2>1 DEF Consent, Land, AuthorityInv, NominationStandsByHolder
  <2> QED
    BY <1>2, <2>1, <2>2, <2>3 DEF Lifecycle!Next
<1>7. CASE AdminRenounce(caller, auth)
  <2>1. /\ Holder # Default /\ Holder \in auth
        /\ Writes(Default, Default) /\ Land(auth, {})
    BY <1>7, RenounceEffect
  <2>2. Lifecycle!GiveUp
    BY <1>2, <2>1 DEF Lifecycle!GiveUp
  <2>3. Consent
    BY <1>2, <2>1 DEF Consent, Land
  <2> QED
    BY <1>2, <2>1, <2>2, <2>3 DEF Lifecycle!Next
<1> QED
  BY <1>1, <1>4, <1>5, <1>6, <1>7

(* A management instruction works on an account that exists, and writes    *)
(* none of its cells but the slot's two.                                   *)
LEMMA ManagementIsLocal ==
    ASSUME NEW S, Layout(S), Management
    PROVE  /\ Created /\ Created'
           /\ \A i \in 1 .. Len(data) : i \notin {Offset + 1, Offset + 2} => data'[i] = data[i]
<1>1. PICK auth \in SUBSET Authorisable, caller \in Ids :
        \/ \E new \in Ids, candidate \in Candidates :
              AdminTransfer(caller, new, candidate, auth)
        \/ \E new \in Ids : AdminNominate(caller, new, auth)
        \/ AdminAccept(caller, auth)
        \/ AdminRenounce(caller, auth)
  BY DEF Management
<1>2. ASSUME NEW new \in Ids, NEW candidate \in Candidates,
             AdminTransfer(caller, new, candidate, auth)
      PROVE  Writes(new, Default)
  BY <1>2, TransferEffect
<1>3. ASSUME NEW new \in Ids, AdminNominate(caller, new, auth)
      PROVE  Writes(Holder, new)
  BY <1>3, NominateEffect
<1>4. AdminAccept(caller, auth) => Writes(Nominee, Default)
  BY AcceptEffect
<1>5. AdminRenounce(caller, auth) => Writes(Default, Default)
  BY RenounceEffect
<1>6. \E h, n : Writes(h, n)
  BY <1>1, <1>2, <1>3, <1>4, <1>5
<1> QED
  BY <1>6 DEF Writes

(* No management instruction is an initialization.                         *)
LEMMA ManagementQuiet ==
    ASSUME Management
    PROVE  UNCHANGED births
BY DEF Management, AdminTransfer, AdminNominate, AdminAccept, AdminRenounce

(* A step that leaves the slot's two fields and the account's existence    *)
(* alone stutters in the lifecycle and moves nothing.                      *)
LEMMA SlotUntouchedStutters ==
    ASSUME Created' = Created, Cfg' = Cfg
    PROVE  UNCHANGED <<Phase, Holder, Nominee>> /\ Consent
BY DEF Phase, Holder, Nominee, Consent

(* The invariant gives the state properties: the holder can always act.    *)
LEMMA InvHolderCanAct ==
    ASSUME NEW S, Layout(S), AuthorityInv
    PROVE  HolderCanAct
<1> SUFFICES ASSUME Initialised PROVE HolderCanAct
  BY DEF HolderCanAct
<1>1. Created /\ Cfg.holder # Default /\ Holder = Cfg.holder
  BY DEF Initialised, Holder
<1>2. /\ Holder \in owned /\ Holder \in Authorisable /\ Config \in owned
      /\ owned \cap stranded = {}
  BY <1>1 DEF AuthorityInv
<1>3. Config # Holder
  BY <1>2, LedgerAssumption DEF Authorisable
<1>4. Admitted(<<Config, Holder>>, {Holder})
  BY <1>2, <1>3, AdmittedTwo
<1>5. DecodeAtError(data, Offset) = "Ok"
  BY <1>1, OffsetAssumption DEF Layout, DecodeAtError, Created, Width
<1>6. Renounce(Cfg, Holder, {Holder}).err = "Ok"
  BY <1>1, AssertAdminOk DEF Renounce
<1>7. PerformRenounceAt(data, Offset, Holder, {Holder}).err = "Ok"
  BY <1>5, <1>6 DEF PerformRenounceAt, SpliceResult, Load, Then, Cfg
<1> QED
  BY <1>2, <1>4, <1>7 DEF HolderCanAct

(* It also gives a reader that insists on the owner every slot there is.   *)
LEMMA InvOwnedReadersAgree ==
    ASSUME NEW S, Layout(S), AuthorityInv
    PROVE  OwnedReadersAgree
BY OffsetAssumption
DEF OwnedReadersAgree, AuthorityInv, Layout, FromOwnedAccountAtError,
    DecodeAtError, Created, Width

------------------------------------------------------------------------------
(* What a freshly written Config PDA holds.                                *)
LEMMA FreshConfig ==
    ASSUME Offset = 0, NEW caller \in Ids, data' = <<caller, Default>>
    PROVE  /\ Created' /\ Holder' = caller /\ Nominee' = Default
           /\ Len(data') = Width
           /\ Layout(Ids)'
<1> DEFINE d == <<caller, Default>>
<1>1. Default \in Ids
  BY DEF Ids
<1>2. d \in Seq(Ids) /\ Len(d) = 2 /\ d[1] = caller /\ d[2] = Default
  BY <1>1
<1>3. d # <<>>
  OBVIOUS
<1> HIDE DEF d
<1>4. data' = d
  BY DEF d
<1>5. Created' /\ Len(data') = Width
  BY <1>2, <1>3, <1>4 DEF Created, Width
<1>6. Cfg' = Slot(caller, Default)
  BY <1>2, <1>4 DEF Cfg, ConfigAt
<1>7. Holder' = caller /\ Nominee' = Default
  BY <1>5, <1>6 DEF Holder, Nominee, Slot
<1>8. Layout(Ids)'
  BY <1>1, <1>2, <1>4, <1>5, <1>7 DEF Layout, Width, Ids, Accounts
<1> QED
  BY <1>5, <1>7, <1>8
==============================================================================
