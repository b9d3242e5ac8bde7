--------------------------- MODULE WitnessExchange ---------------------------
(***************************************************************************)
(* How the management instructions reach the chain: the caller builds a    *)
(* message, which fixes one nonce per signer, signs it and exports it to a *)
(* file; a co-signer appends its witness; anybody who has the file submits *)
(* it, once, twice or never (CONTEXT.md, Witness exchange, Caller vs       *)
(* Submitter; README, Transferring to a keyholder).  Meanwhile everything  *)
(* of DedicatedProgram goes on with the same keys.                         *)
(*                                                                         *)
(* A file stays where it is after a submission, so a transaction that      *)
(* landed may be submitted again, and one that was refused may be later.   *)
(***************************************************************************)
EXTENDS DedicatedProgram, Naturals

CONSTANTS Files,    \* the partial-transaction files in circulation
          MaxNonce  \* bound on the transactions one key signs

ASSUME ExchangeAssumption == MaxNonce \in Nat

VARIABLES nonce,     \* of each key: how many of its transactions landed
          file,      \* the message in each file and its witnesses, or Blank
          seen,      \* history: the config account when the message was built
          overtaken  \* history: files a signer of which signed something since

exchangeVars == <<nonce, file, seen, overtaken>>
allVars == <<vars, exchangeVars>>

Operations == {"transfer", "nominate", "accept", "renounce"}

(* message.nonces[i] goes with witness[i]: the order is the caller first.   *)
Signers(op, caller, new) == IF op = "transfer" THEN <<caller, new>> ELSE <<caller>>

Message(op, caller, new, nonces) ==
    [op |-> op, caller |-> caller, new |-> new, nonces |-> nonces, signed |-> {caller}]
Blank == Message("none", Default, Default, <<>>)

SignersOf(m) == Signers(m.op, m.caller, m.new)
SignerSet(m) == {SignersOf(m)[i] : i \in DOMAIN SignersOf(m)}

NoncesReversed(op, caller, new) ==
    IF op = "transfer" THEN <<nonce[new], nonce[caller]>> ELSE <<nonce[caller]>>

Nonces(op, caller, new) ==
    LET signers == Signers(op, caller, new)
    IN  [i \in DOMAIN signers |-> nonce[signers[i]]]

(* The chain's side: every key that authorised the transaction moves its   *)
(* nonce, which overtakes every other message of that key.                 *)
Bump ==
    /\ nonce' = [k \in Keys |-> IF k \in witness' THEN nonce[k] + 1 ELSE nonce[k]]
    /\ overtaken' = overtaken \cup
                    {f \in Files : file[f] # Blank /\ SignerSet(file[f]) \cap witness' # {}}

Bounded == \A k \in Keys : nonce'[k] <= MaxNonce

------------------------------------------------------------------------------
(* The exchange.                                                           *)

(* `spel --export`: the nonces are fetched, the caller signs.  Only keys   *)
(* sign, and the two signers of a transfer are two accounts.               *)
Export(f, op, caller, new) ==
    /\ file[f] = Blank
    /\ op = "transfer" => new \in Keys \ {caller}
    /\ op \in {"accept", "renounce"} => new = Default
    /\ \A k \in {caller} \cup (Keys \cap {new}) : nonce[k] < MaxNonce
    /\ file' = [file EXCEPT ![f] = Message(op, caller, new, Nonces(op, caller, new))]
    /\ seen' = [seen EXCEPT ![f] = data]
    /\ overtaken' = overtaken \ {f}
    /\ UNCHANGED <<vars, nonce>>

(* `spel sign`, offline: the chain is not asked.                            *)
Sign(f, k) ==
    /\ file[f] # Blank
    /\ k \in SignerSet(file[f]) \ file[f].signed
    /\ file' = [file EXCEPT ![f].signed = @ \cup {k}]
    /\ UNCHANGED <<vars, nonce, seen, overtaken>>

(* The file is lost or thrown away.                                         *)
Discard(f) ==
    /\ file[f] # Blank
    /\ file' = [file EXCEPT ![f] = Blank]
    /\ seen' = [seen EXCEPT ![f] = <<>>]
    /\ overtaken' = overtaken \ {f}
    /\ UNCHANGED <<vars, nonce>>

Complete(m) == m # Blank /\ m.signed = SignerSet(m)

CurrentForCaller(m) == m.nonces[1] = nonce[m.caller]

Current(m) == \A i \in DOMAIN SignersOf(m) : m.nonces[i] = nonce[SignersOf(m)[i]]

Perform(m) ==
    /\ \/ m.op = "transfer" /\ AdminTransfer(m.caller, m.new, Signer, m.signed)
       \/ m.op = "nominate" /\ AdminNominate(m.caller, m.new, m.signed)
       \/ m.op = "accept" /\ AdminAccept(m.caller, m.signed)
       \/ m.op = "renounce" /\ AdminRenounce(m.caller, m.signed)
    /\ UNCHANGED value

(* `spel submit`, by anybody: it lands when all witnesses are there and no *)
(* nonce moved, and the instruction succeeds.  Else nothing happens, and   *)
(* the file is as good as before.                                          *)
Submit(f) ==
    /\ Complete(file[f])
    /\ Current(file[f])
    /\ Perform(file[f])
    /\ Bump
    /\ UNCHANGED <<file, seen>>

(* A transaction signed and landed on the spot.                            *)
Direct ==
    /\ Next
    /\ Bump
    /\ Bounded
    /\ UNCHANGED <<file, seen>>

ExchangeInit ==
    /\ Init
    /\ nonce = [k \in Keys |-> 0]
    /\ file = [f \in Files |-> Blank]
    /\ seen = [f \in Files |-> <<>>]
    /\ overtaken = {}

ExchangeNext ==
    \/ \E f \in Files :
          \/ \E op \in Operations, caller \in Keys, new \in Keys \cup {Default} :
                Export(f, op, caller, new)
          \/ \E k \in Keys : Sign(f, k)
          \/ Submit(f)
          \/ Discard(f)
    \/ Direct

ExchangeSpec == ExchangeInit /\ [][ExchangeNext]_allVars

(* Whoever holds a complete file keeps submitting it, and the sequencer    *)
(* includes what is valid.                                                 *)
ExchangeFairSpec == ExchangeSpec /\ \A f \in Files : WF_allVars(Submit(f))

------------------------------------------------------------------------------
(* Properties.                                                             *)

(* The nonces in a file were fetched from the chain, and the chain is      *)
(* ahead of them exactly when a signer signed something else since.        *)
ExchangeTypeOK ==
    /\ nonce \in [Keys -> 0 .. MaxNonce]
    /\ \A f \in Files : file[f] # Blank =>
          LET m == file[f]
          IN  /\ m.op \in Operations /\ m.signed \subseteq SignerSet(m)
              /\ \A i \in DOMAIN SignersOf(m) : m.nonces[i] <= nonce[SignersOf(m)[i]]
              /\ f \in overtaken <=> ~Current(m)

(* A late transaction of the admin lands on the slot it was signed for:    *)
(* as long as the caller's nonce stands and the caller is the admin, the   *)
(* slot is what it was when the message was built, nominee included,       *)
(* however often the role changed hands on the way.                        *)
SignedSlotStands ==
    \A f \in Files :
        LET m == file[f]
        IN  m # Blank /\ CurrentForCaller(m) /\ m.caller = Holder => data = seen[f]

(* A transfer both sides signed gets through, if both keys stay idle and   *)
(* nobody who was nominated before takes the role first.                   *)
CompleteTransferResolves ==
    \A f \in Files :
        LET m == file[f]
        IN  (/\ Complete(m) /\ m.op = "transfer" /\ f \notin overtaken
             /\ m.caller = Holder /\ m.new \in owned)
            ~> (m = Blank \/ f \in overtaken \/ m.caller # Holder)
==============================================================================
