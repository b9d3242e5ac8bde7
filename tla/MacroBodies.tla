------------------------------ MODULE MacroBodies ------------------------------
(***************************************************************************)
(* Where #[admin_initialize] and #[require_admin] put their statement in   *)
(* the body of a handler, and what running the expanded body does.         *)
(*                                                                         *)
(* A body is a sequence of statements, of kinds that differ in what they   *)
(* do to the embedding account and to the control flow.  The last one is   *)
(* the tail expression, whose value the handler returns.  The account's    *)
(* data is empty, a prefix too short for the slot, a struct whose slot is  *)
(* all zeros, or a struct whose slot names the caller.                     *)
(***************************************************************************)
EXTENDS Naturals, Sequences, SequencesExt

CONSTANT MaxStatements  \* bound on the statements before the tail

ASSUME BodiesAssumption == MaxStatements \in Nat

Statements ==
    {"Check",       \* `require_genesis(&caller)?;` and the like
     "Write",       \* writes the whole struct, the slot all zeros
     "WritePart",   \* writes less than the slot needs
     "Return"}      \* `if ... { return Ok(...); }`

Tails ==
    {"Output",      \* Ok(SpelOutput::execute(...))
     "WriteOutput"} \* a tail that writes the whole struct on its way

Injected == {"Bootstrap", "Gate"}

Bodies == {Append(s, t) : s \in BoundedSeq(Statements, MaxStatements), t \in Tails}

(* #[admin_initialize]: before the last statement.                          *)
BootstrapAfterLast(body) == Append(body, "Bootstrap")
BootstrapFirst(body) == <<"Bootstrap">> \o body
WithBootstrap(body) == InsertAt(body, Len(body), "Bootstrap")

(* #[require_admin]: at index 0.                                            *)
GateBeforeLast(body) == InsertAt(body, Len(body), "Gate")
WithGate(body) == InsertAt(body, 1, "Gate")

VARIABLES body,     \* the expanded body
          pc,       \* the next statement
          account,  \* "Empty", "Part", "Zero" or "Admin"
          before,   \* the account as the handler got it
          admin,    \* is the caller the admin
          outcome   \* "Running", "Ok" or "Err"; on Err nothing lands

handlerVars == <<body, pc, account, before, admin, outcome>>

At(statement) == outcome = "Running" /\ body[pc] = statement

Continue == pc' = pc + 1 /\ UNCHANGED <<body, before, admin, outcome>>
End(result) == outcome' = result /\ UNCHANGED <<body, pc, account, before, admin>>

Check ==
    /\ At("Check")
    /\ End("Err") \/ (Continue /\ UNCHANGED account)

WriteStruct ==
    /\ At("Write") \/ At("WritePart")
    /\ \/ End("Err")
       \/ Continue /\ account' = IF body[pc] = "Write" THEN "Zero" ELSE "Part"

Return ==
    /\ At("Return")
    /\ End("Ok") \/ (Continue /\ UNCHANGED account)

Finish ==
    /\ At("Output") \/ At("WriteOutput")
    /\ outcome' = "Ok"
    /\ account' = IF body[pc] = "WriteOutput" THEN "Zero" ELSE account
    /\ UNCHANGED <<body, pc, before, admin>>

(* bootstrap_at refuses its candidate, or data that does not cover the slot. *)
RunBootstrap ==
    /\ At("Bootstrap")
    /\ \/ End("Err")
       \/ account \in {"Zero", "Admin"} /\ Continue /\ account' = "Admin"

(* The gate refuses an account without a slot, and everyone but the admin.  *)
RunGate ==
    /\ At("Gate")
    /\ IF account = "Admin" /\ admin
       THEN Continue /\ UNCHANGED account
       ELSE End("Err")

(* A handler with #[admin_initialize] starts on a fresh account, one with   *)
(* #[require_admin] on any that exists.                                     *)
HandlerInit ==
    /\ pc = 1 /\ outcome = "Running" /\ admin \in BOOLEAN
    /\ \E b \in Bodies :
          \/ body = WithBootstrap(b) /\ account = "Empty"
          \/ body = WithGate(b) /\ account \in {"Zero", "Admin"}
    /\ before = account

HandlerNext == Check \/ WriteStruct \/ Return \/ Finish \/ RunBootstrap \/ RunGate

HandlerSpec == HandlerInit /\ [][HandlerNext]_handlerVars

------------------------------------------------------------------------------
(* Properties.                                                              *)

Initializes == \E n \in DOMAIN body : body[n] = "Bootstrap"
Gated == \E n \in DOMAIN body : body[n] = "Gate"
Has(statement) == \E n \in DOMAIN body : body[n] = statement

(* A handler that creates the account and returns through its tail leaves   *)
(* the caller as admin in it, when nothing returns before that and the tail *)
(* writes nothing: the account is born initialized.                         *)
FallingThroughIsBornInitialized ==
    Initializes /\ outcome = "Ok" /\ ~Has("Return") /\ ~Has("WriteOutput")
        => account = "Admin"

(* The injected bootstrap finds the struct the body wrote: a body that      *)
(* writes it in one piece is never refused for its layout.                  *)
BootstrapFindsTheStruct ==
    At("Bootstrap") /\ Has("Write") /\ ~Has("WritePart") => account = "Zero"

(* Nothing of a gated handler happens unless the admin called it: it does   *)
(* not return Ok, and it writes nothing.                                    *)
GateComesFirst ==
    Gated /\ ~(admin /\ before = "Admin") => outcome # "Ok" /\ account = before

(* docs/adr/0007: a program cannot create the embedding account without     *)
(* installing an admin.  An account without data does not exist, so a       *)
(* handler that leaves it empty has not created it.                         *)
BornInitialized ==
    Initializes /\ outcome = "Ok" /\ account # "Empty" => account = "Admin"
==============================================================================
