---------------------------- MODULE MacroArguments ----------------------------
(***************************************************************************)
(* How the attributes #[admin_initialize] and #[require_admin] of          *)
(* admin-authority-macros read their arguments.  In embedded mode the      *)
(* framework stamps the same arguments onto both: one writes the slot, the *)
(* other reads it, and they parse with two different loops.                *)
(*                                                                         *)
(* An argument is a pair `key = value`.  A key is one of the three known   *)
(* ones, another identifier or a path; a value is the name of a parameter, *)
(* an integer literal, a literal too large for usize, a qualified path or  *)
(* any other expression.  An error is a compile error, and so is a panic.  *)
(***************************************************************************)
EXTENDS Naturals, Sequences, SequencesExt

CONSTANTS Names,    \* parameter names a value may give, other than the defaults
          Numbers,  \* integer literals that fit usize
          MaxArgs   \* bound on the number of arguments

ASSUME ArgumentsAssumption ==
    /\ MaxArgs \in Nat
    /\ Numbers \subseteq Nat /\ 0 \in Numbers

VARIABLE args       \* the arguments written so far

Keys == {"admin_config", "caller", "offset", "unknown", "a::path"}

Name(n) == [kind |-> "name", name |-> n, number |-> 0]
Literal(n) == [kind |-> "literal", name |-> "", number |-> n]
Huge == [kind |-> "huge literal", name |-> "", number |-> 0]
Path == [kind |-> "path", name |-> "", number |-> 0]
Other == [kind |-> "other", name |-> "", number |-> 0]
NoOffset == [kind |-> "none", name |-> "", number |-> 0]

ArgValues == {Name(n) : n \in Names} \cup {Literal(n) : n \in Numbers} \cup {Huge, Path, Other}
Arguments == [key : Keys, value : ArgValues]

(* What a loop has read: the first error, and the last value of each key.   *)
Read(err, config, caller, offset) ==
    [err |-> err, config |-> config, caller |-> caller, offset |-> offset]
Refuse(read, err) == [read EXCEPT !.err = err]

SetName(read, arg) ==
    IF arg.key = "admin_config" THEN [read EXCEPT !.config = arg.value.name]
    ELSE [read EXCEPT !.caller = arg.value.name]

------------------------------------------------------------------------------
(* #[admin_initialize]: the key first, then the value it wants.             *)

ReadInitializeArgFirstWins(read, arg) ==
    CASE arg.key = "a::path" -> Refuse(read, "NotAnIdentifier")
      [] arg.key = "offset" ->
            [read EXCEPT !.offset = IF @ = NoOffset THEN arg.value ELSE @]
      [] arg.key \in {"admin_config", "caller"} ->
            CASE arg.value.kind = "name" -> SetName(read, arg)
              [] arg.value.kind = "path" -> Refuse(read, "Panic")
              [] OTHER -> Refuse(read, "NotAParameter")
      [] OTHER -> Refuse(read, "UnknownKey")

ReadInitializeArg(read, arg) ==
    CASE arg.key = "a::path" -> Refuse(read, "NotAnIdentifier")
      [] arg.key = "offset" -> [read EXCEPT !.offset = arg.value]
      [] arg.key \in {"admin_config", "caller"} ->
            CASE arg.value.kind = "name" -> SetName(read, arg)
              [] arg.value.kind = "path" -> Refuse(read, "Panic")
              [] OTHER -> Refuse(read, "NotAParameter")
      [] OTHER -> Refuse(read, "UnknownKey")

ReadGateArgDropsOffset(read, arg) ==
    CASE arg.key = "offset" -> read
      [] arg.key # "offset" /\ arg.value.kind # "name" -> Refuse(read, "NotAParameter")
      [] arg.key \in {"admin_config", "caller"} /\ arg.value.kind = "name" -> SetName(read, arg)
      [] OTHER -> Refuse(read, "UnknownKey")

(* #[require_admin]: the offset wants a number, then the value, then the    *)
(* key.                                                                     *)
ReadGateArg(read, arg) ==
    CASE arg.key = "offset" ->
            CASE arg.value.kind = "literal" -> [read EXCEPT !.offset = arg.value]
              [] arg.value.kind = "huge literal" -> Refuse(read, "NotAUsize")
              [] OTHER -> Refuse(read, "NotALiteral")
      [] arg.key # "offset" /\ arg.value.kind # "name" -> Refuse(read, "NotAParameter")
      [] arg.key \in {"admin_config", "caller"} /\ arg.value.kind = "name" -> SetName(read, arg)
      [] OTHER -> Refuse(read, "UnknownKey")

(* A loop over the arguments that returns at the first error.               *)
ReadAll(ReadArg(_, _), start, list) ==
    FoldLeft(LAMBDA read, arg : IF read.err = "Ok" THEN ReadArg(read, arg) ELSE read,
             start, list)

AdminInitialize(list) ==
    LET read == ReadAll(ReadInitializeArg, Read("Ok", "admin_config", "caller", NoOffset), list)
    IN  IF read.err = "Ok" /\ read.offset = NoOffset THEN Refuse(read, "NoOffset") ELSE read

RequireAdmin(list) ==
    ReadAll(ReadGateArg, Read("Ok", "admin_config", "caller", Literal(0)), list)

------------------------------------------------------------------------------
(* The arguments are written one after the other.                           *)

Write(arg) == Len(args) < MaxArgs /\ args' = Append(args, arg)

Init == args = <<>>
Next == \E arg \in Arguments : Write(arg)
Spec == Init /\ [][Next]_args

(* Properties.                                                              *)

(* A gate and an initializer with the same arguments work on the same       *)
(* account, caller and slot, and no arguments a gate takes are refused by   *)
(* the initializer, as long as they say where the slot is.                  *)
GateReadsWhatInitializeWrites ==
    LET gate == RequireAdmin(args)
        init == AdminInitialize(args)
    IN  gate.err = "Ok" /\ (\E n \in DOMAIN args : args[n].key = "offset") => init = gate
==============================================================================
