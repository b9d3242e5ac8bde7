-------------------------------- MODULE Ledger --------------------------------
(***************************************************************************)
(* The part of the LEZ chain the library leans on: who owns an account,    *)
(* when an account is stranded, and what a landed transaction does to the  *)
(* accounts it lists.  LEZ is outside this repository; the rules are the   *)
(* ones its tests and docs rely on (admin-authority/tests/lez_rules.rs,    *)
(* CONTEXT.md).                                                            *)
(*                                                                         *)
(* An account is fresh (Account::default()), owned by a program, or        *)
(* stranded: a balance or a nonce without an owner.  What happens to the   *)
(* balance and nonce of an owned account makes no difference here.         *)
(***************************************************************************)
EXTENDS AdminConfig

CONSTANTS Keys,     \* accounts with a keypair, which sign for themselves
          Pdas,     \* accounts derived from foreign programs
          Config    \* the account that holds the admin slot

ASSUME LedgerAssumption ==
    /\ Keys \cap Pdas = {}
    /\ Config \notin Keys \cup Pdas
    /\ Default \notin Keys \cup Pdas \cup {Config}

Accounts == Keys \cup Pdas \cup {Config}
Ids == Accounts \cup {Default}

VARIABLES owned,    \* accounts whose program_owner is not default
          stranded, \* accounts no program owns that are no longer default
          witness   \* the accounts authorised in the last transaction to land

ledgerVars == <<owned, stranded, witness>>

(* The accounts a transaction can authorise: keys by signature, PDAs by a  *)
(* chained call from their owning program.  This program makes no chained  *)
(* call, so nothing ever authorises its own config account.                *)
Authorisable == Keys \cup Pdas

(* Account::default(): nothing has happened to the account yet.            *)
Fresh(a) == a \notin owned /\ a \notin stranded

(* The accounts of a transaction are all different, the authorised ones    *)
(* are among them, and none of them is stranded: validate_execution        *)
(* refuses a non-default account with the default owner.                   *)
Admitted(accounts, auth) ==
    /\ \A i, j \in DOMAIN accounts : i # j => accounts[i] # accounts[j]
    /\ auth \subseteq {accounts[i] : i \in DOMAIN accounts} \cap Authorisable
    /\ \A i \in DOMAIN accounts : accounts[i] \notin stranded

(* Claims stamp the owner, and the nonce of every authorised account moves, *)
(* which strands one that still has no owner.                              *)
Land(auth, claims) ==
    /\ owned' = owned \cup claims
    /\ stranded' = (stranded \cup auth) \ owned'
    /\ witness' = auth

LedgerTypeOK ==
    /\ owned \subseteq Accounts
    /\ stranded \subseteq Accounts
    /\ witness \subseteq Authorisable

LedgerInit == owned = {} /\ stranded = {} /\ witness = {}

------------------------------------------------------------------------------
(* What the rest of the chain does to the accounts meanwhile.              *)

(* `wallet auth-transfer init` gives a key an owner.                       *)
WalletInit(k) ==
    /\ k \in Keys
    /\ Fresh(k)
    /\ Land({k}, {k})

(* A foreign program claims a PDA of its own.                              *)
DeployPda(p) ==
    /\ p \in Pdas
    /\ Fresh(p)
    /\ Land({}, {p})

(* A key signs a transaction of some other program.                        *)
SignElsewhere(k) ==
    /\ k \in Keys
    /\ k \notin stranded
    /\ Land({k}, {})

(* A balance arrives at an account nobody owns: anyone can fund an address. *)
Fund(a) ==
    /\ a \in Accounts
    /\ Fresh(a)
    /\ owned' = owned
    /\ stranded' = stranded \cup {a}
    /\ witness' = {}

Environment ==
    \/ \E k \in Keys : WalletInit(k) \/ SignElsewhere(k)
    \/ \E p \in Pdas : DeployPda(p)
    \/ \E a \in Accounts : Fund(a)
==============================================================================
