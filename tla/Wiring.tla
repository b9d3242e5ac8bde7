-------------------------------- MODULE Wiring --------------------------------
(***************************************************************************)
(* How a program that uses the library is put together at build time: the  *)
(* marker over its module, the parameters and arguments of a gated         *)
(* instruction, the instruction that creates the embedding account, and    *)
(* the struct that embeds the slot.  The framework, which is outside this  *)
(* repository, injects parameters and stamps arguments as the library's    *)
(* metadata asks (admin-authority/Cargo.toml; docs/adr/0004, 0006, 0007);  *)
(* then the macros of MacroArguments read what has become of them.         *)
(*                                                                         *)
(* A program here is one gated instruction and, in embedded mode, one that *)
(* creates the account.  Offsets are bytes.                                *)
(***************************************************************************)
EXTENDS MacroArguments

VARIABLE program    \* what the consumer wrote besides the gate's arguments

wiringVars == <<args, program>>

Markers == {"none", "above", "dedicated", "embedded"}
MarkerOffset == 32  \* #[admin_authority(admin_config = config, offset = 32)]

(* The framework sees a marker only below #[lez_program].                   *)
Discovered(marker) == marker \in {"dedicated", "embedded"}

MisplacedAboveLezProgram(marker) == marker = "above"

(* The account that plays the role admin_config: a parameter and its pda.   *)
RoleName(marker) == IF marker = "embedded" THEN "config" ELSE "admin_config"
RolePda(marker) == IF marker = "embedded" THEN "ProgPda" ELSE "AdminPda"

------------------------------------------------------------------------------
(* The layout of the embedding struct: the fields before the slot, each    *)
(* with the size FixedBorshSize claims and the size it serializes to.      *)

Field(claimed, actual) == [claimed |-> claimed, actual |-> actual]

SlotSize == 64

DefaultProbe == [b \in 0 .. SlotSize - 1 |-> 0]

(* SlotLayoutProbe: the admin is 32 bytes 0xA5, the nominee 32 bytes 0x5A.  *)
Probe == [b \in 0 .. SlotSize - 1 |-> IF b < 32 THEN 165 ELSE 90]

AdminSlotOffset(fields) == FoldLeft(LAMBDA sum, f : sum + f.claimed, 0, fields)
SlotStart(fields) == FoldLeft(LAMBDA sum, f : sum + f.actual, 0, fields)

(* The b-th byte of the struct with the probe in its slot, zero elsewhere.  *)
Serialized(fields, b) ==
    IF b - SlotStart(fields) \in DOMAIN Probe THEN Probe[b - SlotStart(fields)] ELSE 0

(* The const assert that ties the marker to the struct, and the emitted    *)
(* test that ties the struct to its serialization.                         *)
LayoutHolds(fields) ==
    /\ AdminSlotOffset(fields) = MarkerOffset
    /\ \A b \in DOMAIN Probe : Serialized(fields, AdminSlotOffset(fields) + b) = Probe[b]

------------------------------------------------------------------------------
(* Injection and stamping.                                                 *)

Stamp(marker, written) ==
    IF marker = "embedded"
    THEN written \o << [key |-> "admin_config", value |-> Name(RoleName(marker))],
                       [key |-> "offset", value |-> Literal(MarkerOffset)] >>
    ELSE written

(* Parameters: what each name is declared as.  Adding leaves those that are *)
(* there alone.                                                            *)
Parameter(name, decl) == [n \in {name} |-> decl]

AddMissing(declared, more) ==
    [n \in DOMAIN declared \cup DOMAIN more |->
        IF n \in DOMAIN declared THEN declared[n] ELSE more[n]]

RoleParameters(marker) ==
    AddMissing(Parameter(RoleName(marker), RolePda(marker)), Parameter("caller", "Signer"))

InjectAfterStamp(marker, declared, written) ==
    IF Discovered(marker) /\ Stamp(marker, written) = <<>>
    THEN AddMissing(declared, RoleParameters(marker)) ELSE declared

(* Parameters that are missing are added with the constraint the metadata  *)
(* gives them, unless the consumer wrote arguments of their own.           *)
Inject(marker, declared, written) ==
    IF Discovered(marker) /\ written = <<>>
    THEN AddMissing(declared, RoleParameters(marker)) ELSE declared

WritesLocation(written) ==
    \E i \in DOMAIN written : written[i].key \in {"admin_config", "offset"}

(* An attribute expanded: the parameters it names must exist.               *)
Expanded(err, read, params) ==
    LET e == IF err # "Ok" THEN err
             ELSE IF read.err # "Ok" THEN read.err
             ELSE IF {read.config, read.caller} \subseteq DOMAIN params THEN "Ok"
             ELSE "NoSuchParameter"
    IN  [err |-> e,
         account |-> IF e = "Ok" THEN params[read.config] ELSE "none",
         offset |-> read.offset.number]

Gate(p, written) ==
    Expanded(IF p.marker = "embedded" /\ WritesLocation(written) THEN "LocationKwarg" ELSE "Ok",
             RequireAdmin(Stamp(p.marker, written)),
             Inject(p.marker, p.declared, written))

(* Exactly the instruction that creates the embedding account carries      *)
(* #[admin_initialize]; outside embedded mode nothing stamps a location.   *)
Initializer(p) ==
    Expanded(IF p.marker = "embedded" /\ ~p.creates THEN "NotCreating" ELSE "Ok",
             AdminInitialize(Stamp(p.marker, p.initializer)),
             Inject(p.marker,
                    AddMissing(Parameter("config", RolePda(p.marker)), Parameter("owner", "Signer")),
                    p.initializer))

(* Whatever the gate says: the marker is seen, the struct passes the const *)
(* assert and the test its derive emits, and creating the embedding        *)
(* account and carrying #[admin_initialize] go together.                   *)
RestBuilds(p) ==
    /\ ~MisplacedAboveLezProgram(p.marker)
    /\ p.marked => Initializer(p).err = "Ok"
    /\ p.marker = "embedded" => LayoutHolds(p.fields) /\ (p.creates => p.marked)

Builds(p, written) == RestBuilds(p) /\ Gate(p, written).err = "Ok"

------------------------------------------------------------------------------
(* The programs.  A config account is declared with the pda that is right  *)
(* for the mode, without one, or not at all.                               *)

Layouts == { <<Field(8, 8), Field(24, 24)>>, <<Field(4, 4), Field(24, 24)>>,
             <<Field(8, 8), Field(24, 32)>>, <<Field(8, 8), Field(24, 16)>> }

Undeclared == [n \in {} |-> ""]

DeclaredConfigs(marker) ==
    {Undeclared, Parameter("admin_config", "AdminPda"),
     Parameter("config", RolePda(marker)), Parameter("config", "Unpinned")}

DeclaredCallers == {Undeclared, Parameter("caller", "Signer"), Parameter("owner", "Signer")}

CallerArguments == {<<>>, <<[key |-> "caller", value |-> Name("owner")]>>}

Programs(marker) ==
    [marker : {marker},
     declared : {AddMissing(c, s) : c \in DeclaredConfigs(marker), s \in DeclaredCallers},
     fields : IF marker = "embedded" THEN Layouts ELSE {<<>>},
     creates : IF marker = "embedded" THEN BOOLEAN ELSE {FALSE},
     marked : BOOLEAN,
     initializer : CallerArguments]

WiringInit ==
    /\ Init
    /\ program \in UNION {Programs(m) : m \in Markers}
    /\ program.marker = "embedded" => program.creates \/ program.marked

WiringNext == RestBuilds(program) /\ Next /\ UNCHANGED program

WiringSpec == WiringInit /\ [][WiringNext]_wiringVars

------------------------------------------------------------------------------
(* Properties.                                                             *)

(* In a program that builds, a gate whose config has a pda looks at the    *)
(* account that the initializer and the management instructions write, and *)
(* there at the bytes where the struct has its slot, or at a window that   *)
(* is not inside the account, which keeps it shut.                         *)
GateReadsTheSlot ==
    LET gate == Gate(program, args)
        start == SlotStart(program.fields)
        size == start + SlotSize
    IN  Builds(program, args) /\ gate.account \in {"AdminPda", "ProgPda"} =>
            /\ gate.account = RolePda(program.marker)
            /\ gate.offset = start \/ gate.offset + SlotSize > size

(* In embedded mode the bootstrap goes to an account that the same         *)
(* instruction creates, at the bytes where the struct has its slot; and    *)
(* outside embedded mode no instruction carries one.                       *)
BootstrapWritesTheSlot ==
    program.marked /\ RestBuilds(program) =>
        /\ program.marker = "embedded" /\ program.creates
        /\ Initializer(program).account = RolePda(program.marker)
        /\ Initializer(program).offset = SlotStart(program.fields)

(* A bare #[require_admin] under a marker needs nothing else: whatever the *)
(* instruction declares of the gate's parameters, the rest is supplied.    *)
BareGateExpands ==
    Discovered(program.marker) => Gate(program, <<>>).err = "Ok"
==============================================================================
