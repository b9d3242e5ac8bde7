---------------------------- MODULE ConfigAccount ----------------------------
(***************************************************************************)
(* The library boundary: one account whose data can be anything, and the   *)
(* public operations of AdminConfig called on it in any order with any     *)
(* signer, evidence and offset, the way a program without the injected     *)
(* instructions may (admin-authority-sample-manual).  Nothing the ledger   *)
(* or the framework rules out is assumed here.                             *)
(***************************************************************************)
EXTENDS AdminConfig

CONSTANTS Known,    \* account ids other than the default one
          Values,   \* what a cell outside a slot may hold
          MaxLen    \* bound on the length of the data, in cells

ASSUME ConfigAccountAssumption ==
    /\ Default \notin Known \cup Values
    /\ MaxLen \in Nat

Ids == Known \cup {Default}
Cells == Ids \cup Values

VARIABLES data,     \* the account's data
          call      \* the last call: operation, offset and result

vars == <<data, call>>

Offsets == 0 .. MaxLen
Candidates == {Signer} \cup {Pda(a) : a \in Ids}
Operations == {"None", "Transfer", "Nominate", "Accept", "Renounce", "Bootstrap"}

(* A call over the window at `offset` returned.                             *)
Return(op, offset, res) ==
    /\ data' = res.data
    /\ call' = [op |-> op, offset |-> offset, form |-> "window", err |-> res.err]

(* A call over the whole data returned.                                     *)
ReturnWhole(op, res) ==
    /\ data' = res.data
    /\ call' = [op |-> op, offset |-> 0, form |-> "whole", err |-> res.err]

(* The accounts a call is handed, with what their metadata claims: any of  *)
(* them may be authorised and owned, the default id included, since the    *)
(* library does not rely on the chain here.                                *)
Evidence(accounts) == [auth : SUBSET accounts, own : SUBSET accounts]

CallTransfer == \E o \in Offsets, c \in Candidates, a, b \in Ids :
    \E e \in Evidence({a, b}) :
        Return("Transfer", o, PerformTransferAt(data, o, a, c, b, e.auth, e.own))

CallNominate == \E o \in Offsets, a, b \in Ids : \E e \in Evidence({a}) :
    Return("Nominate", o, PerformNominateAt(data, o, a, b, e.auth))

CallAccept == \E o \in Offsets, a \in Ids : \E e \in Evidence({a}) :
    Return("Accept", o, PerformAcceptAt(data, o, a, e.auth, e.own))

CallRenounceAt == \E o \in Offsets, a \in Ids : \E e \in Evidence({a}) :
    Return("Renounce", o, PerformRenounceAt(data, o, a, e.auth))

CallRenounce == \E a \in Ids : \E e \in Evidence({a}) :
    ReturnWhole("Renounce", PerformRenounce(data, a, e.auth))

CallBootstrap == \E c \in Candidates, a \in Ids : \E e \in Evidence({a}) :
    ReturnWhole("Bootstrap", Bootstrap(data, c, a, e.auth, e.own))

CallBootstrapAt == \E o \in Offsets, c \in Candidates, a \in Ids : \E e \in Evidence({a}) :
    Return("Bootstrap", o, BootstrapAt(data, o, c, a, e.auth, e.own))

Init ==
    /\ data \in UNION {[1 .. n -> Cells] : n \in 0 .. MaxLen}
    /\ call = [op |-> "None", offset |-> 0, form |-> "window", err |-> "Ok"]

Next ==
    \/ CallTransfer \/ CallNominate \/ CallAccept
    \/ CallRenounceAt \/ CallRenounce
    \/ CallBootstrapAt \/ CallBootstrap

Spec == Init /\ [][Next]_vars

------------------------------------------------------------------------------
(* Properties.                                                             *)

(* The data stays a sequence of cells, and every call answers Ok or an     *)
(* error the library names.                                                *)
TypeOK ==
    /\ data \in Seq(Cells)
    /\ call \in [op : Operations, offset : Offsets, form : {"window", "whole"},
                 err : {"Ok"} \cup AdminErrors]

Fits(d, o) == Len(d) >= o + Width

(* A windowed call rewrites its own window and nothing else, and a call    *)
(* that fails rewrites nothing: the bytes around an embedded slot belong   *)
(* to the program that embeds it.                                          *)
WritesItsWindow ==
    /\ call'.err # "Ok" => data' = data
    /\ call'.form = "window" =>
         /\ Len(data') = Len(data)
         /\ \A i \in DOMAIN data :
              data'[i] # data[i] => i \in call'.offset + 1 .. call'.offset + Width

SpliceIsLocal == [][WritesItsWindow]_vars

(* Only a renounce ends a live slot: no transfer, nomination or acceptance *)
(* ever writes the sentinel into it, whatever the evidence claims.         *)
LeavesItLive ==
    call'.op \in {"Transfer", "Nominate", "Accept"} /\ call'.err = "Ok"
        => ConfigAt(data', call'.offset).holder # Default

OnlyRenounceRenounces == [][LeavesItLive]_vars

(* A renounced slot stays dead for every management call on it, even when  *)
(* its nominee field is not empty.                                         *)
LeavesItDead ==
    LET o == call'.offset
    IN  call'.op # "Bootstrap" /\ Fits(data, o) /\ ConfigAt(data, o).holder = Default
          => call'.err # "Ok" /\ data' = data

RenouncedWindowIsDead == [][LeavesItDead]_vars

(* The code a management call reports tells the state of the slot it was   *)
(* made on: 6101 there is no data, 6111 the window is not in the data,     *)
(* 6102 the slot is renounced, whoever called and whatever signed; and no  *)
(* other error has one of these codes.                                     *)
CodeTells ==
    LET o == call'.offset
        code == Reported(call'.err)
    IN  call'.form = "window" /\ call'.op # "Bootstrap" =>
          /\ code = 6101 <=> data = <<>>
          /\ code = 6111 <=> data # <<>> /\ ~Fits(data, o)
          /\ code = 6102 <=> Fits(data, o) /\ ConfigAt(data, o).holder = Default

CodesTellTheState == [][CodeTells]_vars

(* docs/adr/0007: dedicated mode is offset 0 of the same code path.        *)
RenounceIsOneCodePath ==
    \A a \in Ids : \A auth \in SUBSET {a} :
        PerformRenounce(data, a, auth) = PerformRenounceAt(data, 0, a, auth)
==============================================================================
