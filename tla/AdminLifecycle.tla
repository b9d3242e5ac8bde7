---------------------------- MODULE AdminLifecycle ----------------------------
(***************************************************************************)
(* What the library promises a program (docs/authority-lifecycle.md): a    *)
(* role that is installed once, moves in one step or through a nomination, *)
(* and ends for good when it is renounced.                                 *)
(***************************************************************************)
CONSTANTS Candidates,   \* the accounts that may ever hold or be offered the role
          NoOne         \* nobody

VARIABLES phase, admin, nominee

lifecycleVars == <<phase, admin, nominee>>

Init == phase = "Uninitialized" /\ admin = NoOne /\ nominee = NoOne

Install(a) ==
    /\ phase = "Uninitialized"
    /\ phase' = "Initialized"
    /\ admin' = a
    /\ nominee' = NoOne

(* The holder hands the role over in one transaction.                      *)
HandOver(a) ==
    /\ phase = "Initialized"
    /\ a # admin
    /\ admin' = a
    /\ nominee' = NoOne
    /\ UNCHANGED phase

(* The holder names a nominee, replaces it, or withdraws the nomination.   *)
Offer(n) ==
    /\ phase = "Initialized"
    /\ nominee' = n
    /\ UNCHANGED <<phase, admin>>

TakeUp ==
    /\ phase = "Initialized"
    /\ nominee # NoOne
    /\ admin' = nominee
    /\ nominee' = NoOne
    /\ UNCHANGED phase

GiveUp ==
    /\ phase = "Initialized"
    /\ phase' = "Renounced"
    /\ admin' = NoOne
    /\ nominee' = NoOne

Next ==
    \/ \E a \in Candidates : Install(a) \/ HandOver(a)
    \/ \E n \in Candidates \cup {NoOne} : Offer(n)
    \/ TakeUp
    \/ GiveUp

Spec == Init /\ [][Next]_lifecycleVars
==============================================================================
