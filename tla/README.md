# Verification of spel-admin-authority

TLA+ models of the single-admin authority library of this repository, the TLC
runs that check them on small instances, and TLAPS proofs of the properties
that matter most for every instance.

## 1. The system

The library gives a program on LEZ (the Logos execution zone) an *admin*: an
account id kept in a 64-byte slot of an account's data, the holder and then the
nominee, 32 bytes each. All zeros as holder means *renounced*. The slot lives
either alone in a Config PDA (dedicated mode) or at an offset inside the
program's own account (embedded mode). A program gates an instruction with
`#[require_admin]`; the attribute `#[admin_authority]` adds five management
instructions to it.

| component | source | state it keeps | operations |
|---|---|---|---|
| `AdminConfig` | `admin-authority/src/config.rs`, `errors.rs` | none of its own: it reads and writes the account data it is handed | `initialize`, `assert_admin`, `transfer`, `nominate`, `accept`, `renounce`; `decode`, `decode_at`, `write_to`, `write_to_at`, `bootstrap[_at]`, `perform_*[_at]`, `from_owned_account[_at]` |
| injected instructions | `admin-authority/src/lib.rs` | the config account | `admin_initialize`, `admin_transfer`, `admin_renounce`, `admin_nominate`, `admin_accept` |
| genesis key | `admin-authority/src/genesis.rs` | a constant compiled in, or none | `require_genesis`, decoding from hexadecimal |
| macros | `admin-authority-macros/src/lib.rs` | none (build time) | `#[require_admin]`, `#[admin_initialize]`, `#[admin_authority]` |
| dedicated sample | `admin-authority-sample` | `program_config` (a value) | gated `update_value` |
| embedded sample | `admin-authority-sample-embedded` | one account: value, padding, slot | `initialize`, gated `update_value`, gated `poke` |
| manual sample | `admin-authority-sample-manual` | a Config PDA and `program_config` | hand-written handlers over the library's operations |
| consumer fixture | `ci/consumer-fixture` | a Config PDA and `program_config` | open `initialize`, gated `update_value` |
| LEZ and the wallet | outside; `admin-authority/tests/lez_rules.rs`, `CONTEXT.md` | every account: owner, balance, nonce, data | admission of a transaction, claims, signatures, `wallet auth-transfer init`, funding |
| witness exchange | outside; `CONTEXT.md`, README | partially signed transactions, signers' nonces | export, sign, submit, lose |
| `authority` crate | outside (dependency) | the slot | `AuthoritySlot`, `AuthorityCandidate` |
| framework metadata | `admin-authority/Cargo.toml`, ADRs 0004, 0006, 0007 | none (build time) | discovery by the marker, injection of parameters, stamping of arguments, layout checks, IDL |
| scripts, CI | `scripts/` | none at run time | - |

**How they interact.** A transaction lists accounts, some of them authorised (a
key by its signature, a PDA by a chained call from its owner). LEZ admits or
refuses the list, the framework checks the constraints of each account
(`init`, `pda`, `signer`), the macro's prologue asserts the admin, the handler
calls one `AdminConfig` operation, which works on the `authority` slot inside
the account data, and the returned accounts and claims land together. Any
error means that nothing lands: there is no partial write. Everything else
happens *between* transactions.

**What is hard.** No threads and no I/O: the difficulty is in sequences of
transactions by independent parties, on a chain with rules of its own.

- Anybody submits anything in any order: the admin, a co-signing new admin, a
  nominee, strangers racing for initialization, foreign programs.
- *Stranding*: an account no program owns can sign one transaction, after which
  its nonce makes it non-default and LEZ refuses to list it for ever. An admin
  of that kind could neither act nor renounce. The library checks ownership only
  when it installs a holder.
- The account ids of a transaction must differ, so nobody can be two parties of
  one instruction.
- Two writers of one account in embedded mode: a gated instruction writes the
  whole struct, slot included, and a management instruction splices the slot.
- A transfer between two keys travels as a file with one nonce per signer:
  anybody who has it submits it, late, twice or never, while both keys go on
  signing other things and the role moves.
- At build time a marker, a library's metadata, attribute arguments and the
  layout of a struct, each written somewhere else, must come to the same account
  and the same 64 bytes.
- Two forms of one operation (strict over the whole data, windowed at an
  offset) whose results should be the same, and a sentinel that must not be
  installed as an admin.

**What makes it right**, per component:

- `AdminConfig`: a windowed write touches its window only; only a renounce writes
  the sentinel; a renounced slot is dead to every management call; the strict and
  the windowed forms agree on one-slot data; a reported code tells an absent, a
  misplaced and a renounced slot apart.
- Instructions: the role is born once, moves only with consent of both sides,
  a nomination never outlives the admin who made it, the holder can always act,
  renouncing ends it, a nomination can be taken up.
- Embedded program: neither writer damages the other's bytes, the slot is born
  initialized, and the same lifecycle is implemented.
- Genesis key: with a key in the build nobody else initializes.
- Witness exchange: a message lands only on the slot it was signed for; a
  complete transfer between idle keys gets through.
- Build time: the gate looks at the account and the bytes that hold the slot,
  the bootstrap writes there, and a bare gate needs no arguments.
- Manual sample and fixture: both accounts are born together in the one, and in
  the other an instruction open to anybody never overwrites what an admin stored.

`PROJECT.json` lists the hazards at their lines, with the properties that would
catch each going wrong.

## 2. The modules

```
AuthoritySlot        the external crate: slot, assert, accept, validate
  AdminConfig        config.rs and errors.rs as pure operators over account data
    ConfigAccount    any calls on any data (the library boundary)   MCConfigAccount
    Ledger           the LEZ rules: ownership, stranding, landing
      AdminAuthority the four instructions both modes share, at Offset
        DedicatedProgram   admin_initialize, genesis, update_value   MCDedicated
          ConsumerFixture  a second account with two writers of its own
          WitnessExchange  files in circulation, a nonce per signer
        EmbeddedProgram    initialize, update_value, poke            MCEmbedded
        ManualProgram      the hand-written handlers                 MCManual
AdminLifecycle       what the documentation promises; AdminAuthority INSTANCEs it
Genesis              decoding the genesis key, while the program is built    MCGenesisKey
MacroArguments       how the two attributes read their arguments
  Wiring             marker, injection, stamping and layout, around MacroArguments
MacroBodies          where they put their statement, and running the result
```

The theorems are in `AdminConfigProofs`, `ConfigAccountProofs`, `AdminAuthorityProofs`, `DedicatedProgramProofs`,
`EmbeddedProgramProofs`, `ManualProgramProofs`, `GenesisProofs` and `MacroProofs`; those of the fixture and of the
witness exchange, which run a dedicated program, stand in `DedicatedProgramProofs`. A module
without an MC module is checked directly, under a cfg of its own name.

**Data.** Account data is a sequence of *cells* of 32 bytes: an account id in the
slot's window, program state elsewhere. The slot is two cells (`Width`), an
offset counts cells. Ids are model values, `Default` is the all-zero one. Every
64 bytes decode as a slot, so decoding fails on the length only, and
`EncodingFailed` and `AccountDataTooLarge` are unreachable at these sizes. A
result is a record of the error's name (`"Ok"` for none) and the data left
behind, and `Then` is Rust's `?`: it fixes the order in which checks are made.
An offset that is not a multiple of 32 differs from an aligned one only in which
consumer bytes share a cell, never in which bytes a window covers.

**`AuthoritySlot`** is external. It is written from how `config.rs` calls the
crate, from the error order its comments document and from the tests that
observe it.

**`AdminConfig`** has one operator per operation, with the errors in the source's
order. `PerformRenounce` is separate from `PerformRenounceAt`, because it is in
the source; the other strict `perform_` forms are the windowed ones at 0. `Code` and
`Reported` are the numbers of `errors.rs`, from 6101 on.

**`Ledger`** has the chain's side. `owned` holds the accounts with an owner,
`stranded` those without an owner that are no longer default, `witness` the
accounts that authorised the last transaction. `Admitted` is the rule on account
lists, `Land` what signing and claiming do, `Environment` the rest of the chain:
a wallet initialises a key, a program claims its PDA, a key signs elsewhere,
anyone funds an address.

**`AdminAuthority`** has one action per instruction. An action is a transaction
that *succeeds*: the account list is admitted, the caller signed, the handler
returned `Ok`. A transaction that fails changes nothing and is a stutter.
`AdminTransfer` takes every candidate, every evidence account and every set of
authorised accounts, also senseless ones: the guards must refuse them.
`nominatedBy` (who made the last nomination) and `births` (the callers of the
initializations that landed, in order) are history variables that no guard reads.

**`DedicatedProgram`** adds `admin_initialize` with `#[account(init)]` (the PDA
must be `Account::default()`), the genesis key and the gated `update_value`.
The sample's instruction also lists its `program_config` account; that account
matters for nothing but the value and is left out of the account list.

**`ConsumerFixture`** adds what the fixture does beside that: `initialize`, which any signer may
send and which creates `program_config` by `#[account(init)]`, before or after the admin
exists. `UpdateProgram` is the gated write; on an account nobody created its outcome
(the program claims it, or leaves bytes that strand it) is a choice, because the
source does not say which.

**`WitnessExchange`** puts files between the parties and the chain. `Export` fetches a nonce for
every signer and signs as the caller, `Sign` adds a co-signer's witness without
asking the chain, `Submit` lands the message if all witnesses are there, every nonce is
still the account's and the instruction succeeds; the file stays, so it may be
submitted again. `Direct` is any step of `DedicatedProgram`, and moves the nonces of who signed
it. `seen` and `overtaken` are history. All four management instructions travel this
way; a transfer is the one with two signers.

**`EmbeddedProgram`** adds the creating instruction as it *expands*:
the body writes the struct with a default slot, then the injected statement
bootstraps the slot into it. `UpdateValue` is what the handler does: decode the
whole struct, change a field, encode the whole struct. The struct is one cell of
value, `Offset - 1` cells of padding and the slot. In the sample the value (8
bytes) and the padding (24) fill one cell of 32; the model gives each a cell of
its own, which tells a writer that loses one from a writer that loses the other.

**`ManualProgram`** has the four handlers of the manual sample: two accounts
claimed by one instruction, a transfer and a renounce behind a gate *and* behind
the library's own check, and the strict renounce. `program` is the state of its
second account, which a balance can strand before it is created.

**`Genesis`** runs `genesis_from_hex` one step at a time: the length check, a turn of
the loop, the check after it, and the panics between. A character is its code; the
key has `Size` bytes.

**`MacroArguments`** translates the two argument loops, which differ in what they
look at first and in what they refuse: the initializer takes any expression as
offset and panics on a qualified path, the gate takes only an integer literal.

**`Wiring`** is a program being built. The consumer writes a marker (or misplaces it),
declares parameters, gives a gate arguments, writes the instruction that creates
the account and the fields in front of the slot. The framework injects the missing
parameters and stamps `admin_config` and `offset` on the attributes, as the library's
metadata asks (`Inject`, `Stamp`); the macros of `MacroArguments` read what that comes to; an
expansion that names a parameter nobody declared does not compile. The layout is
checked twice: the offset of the marker against the sizes the fields claim, and, by the
test the derive emits, against the bytes a struct with `Probe` in its slot serializes
to. A program reads the right slot only if all of this fits.

**`MacroBodies`** expands a body (a sequence of statements told apart by what they do to
the account and to control flow) the way each macro does, and then runs it.

**`ConfigAccount`** leaves the chain out: data of any content and length, any call,
any offset, and as evidence the accounts the call passes, owned or not. It shows what `AdminConfig` guarantees to programs
that call it by hand.

**`AdminLifecycle`** is the abstract specification: phase, admin, nominee, and the
five things that may happen to them. The refinement mapping (`Lifecycle` in
`AdminAuthority`) reads the phase, the holder and the nominee off the bytes of
the account.

Next to some definitions is a variant named for a plausible bug
(`TransferKeepsNominee`, `SpliceCutsTail`...). Nothing uses it; put in place of
the definition it makes a property fail, which shows the property depends on
that code.

## 3. The runs

| run | instance | question | states |
|---|---|---|---|
| `dedicated` | 3 keys, 1 PDA, 2 values, no genesis key | Does the role move only by consent, can its holder always act, does renouncing end it, and is the lifecycle implemented? | 3446 |
| `fixture` | 2 keys, 1 PDA, 2 values, no genesis key (as `.github/workflows/ci.yml:91` builds it), fairness | Is the role born once, who can give birth to it until then, does the open `initialize` spare what an admin stored, and does a nomination end in an acceptance? | 6486 |
| `witness_exchange` | 2 keys, one of them compiled in as genesis key, 1 file, 4 transactions per key, fairness | What can a transaction do that arrives late, does a complete one arrive at all, and who can give birth to the role when the build names a key? | 40972 |
| `library_calls` | data up to 3 cells over 2 ids, the default and one foreign value; offsets 0 to 3 | What does the library guarantee to any caller? | 2479 |
| `embedded` | 2 keys, 2 PDAs, slot after 2 cells | Do the two writers of one account keep each other's bytes? | 4396 |
| `manual` | 3 keys, 1 PDA, 2 values | Are the two accounts born together, and do the gate and the handler's own check agree? | 1110 |
| `genesis_key` | keys of 2 bytes; 12 characters at the edges of the three ranges; lengths 0 to 5 | Is the compiled key the one spelled, and is a build refused only for its reason? | 72460 |
| `wiring` | 4 markers, 4 layouts, lists of up to 2 arguments over 2 names and 2 numbers, parameters declared or not | Do the initializer, the gate and the struct mean the same account and the same bytes in a program that builds? | 91152 |
| `macro_bodies` | bodies of up to 3 statements and a tail | Is the bootstrap the last write and the gate the first check? | 5226 |
| `macro_born` | as `macro_bodies` | fails: see divergences | |
| `renounce_code_path` | as `library_calls` | fails: see divergences | |
| `embedded_window` | 2 keys, 1 PDA | fails: see divergences | |

**Bounds, and why they are enough.** All state spaces are finite without
constraints. The one counter is the nonce: `MaxNonce` bounds it in the guards of
`WitnessExchange`, and 4 lets a message be built, overtaken by two other
transactions of a signer, and built again. Three keys give an admin, a rival and a
nominee at once, which the longest stories need (nominate a third while
transferring to a second, then the third comes back). One PDA is a holder whose
handover needs no signature; two, in `embedded`, hand over to each other. Three
cells are the smallest data with a slot and a neighbour on either side (offset 0
and 1), and offsets 2 and 3 do not fit. `Offset = 2` has a value and padding, so
a writer that loses one of them shows. Keys (and known ids, and PDAs) are
interchangeable where no constant names one, so symmetry is used in the safety
runs; it is not in `fixture` and `witness_exchange`, which check liveness. The latter
names the genesis key: without PDAs any first admin is as good as another, so
this loses nothing of the exchange, and `fixture` and `dedicated` name none. One file
is enough in `witness_exchange`: what a second one could do to it is what `Direct` does, and the proofs cover any number of files, keys and PDAs. A key
of two bytes has a first and a last one and a boundary between them; the loop
treats every byte alike, and the proofs cover any number. Two
arguments hold a repeated key, both locations or one and a stranger; the four
layouts are right, claim too little, serialize to more and to less than they
claim, and `AttributesAgree` and `LayoutPinsTheSlot` are proved for any arguments and any
fields. The config account of a program is declared with the pda that is right
for its mode, with none, or not at all: a wrong one is out of the macros' sight. Three statements
hold a check, a write and an early return in any order; the proofs take any number.

**Deadlock.** The chain really can stop: when every key and PDA is stranded or
the config is, no transaction lands. Those runs say `CHECK_DEADLOCK FALSE`.
So does decoding, a running handler and an argument list at its bound.
`ConfigAccount` never stops, since a failing call is a step, and is checked.

**Fairness.** `genesis_key` assumes that the compiler runs the decoder to its end. Of
the chain two runs assume something. `fixture`: a key that could get an owner keeps
being given one by its wallet, and a key whose `admin_accept` would succeed
keeps sending it, and the sequencer eventually includes what stays valid. This
is weak fairness of those two actions per key. It says nothing of the admin, of
strangers, of PDAs (a program need not call) or of initialization. What is shown
is: a nominated key becomes admin, unless its nomination is replaced,
withdrawn or overtaken, or it gets stranded: somebody funds it or it signs
elsewhere before it has an owner, which the code cannot prevent. `witness_exchange`: whoever holds a
complete file keeps submitting it, and the sequencer includes what is valid (weak
fairness of `Submit` per file). What is shown: a complete transfer to an owned key
lands, unless one of the two keys signs something else, the file is lost, or
somebody nominated before takes the role. No
liveness is claimed of initialization: nobody is bound to send it, and a balance
sent to the config PDA's address before it blocks `init` for good. That nothing
else blocks it is a safety property, `WindowIsOpen`.

**What each property says** is in the comment above it. In short:

- any program: `HolderCanAct` (a renounce by the holder alone would land in every state),
  `NominationStandsByHolder`, `OwnedReadersAgree` (readers that check the owner see what the gate sees),
  `HandoverByConsent`, `RenounceIsTerminal`, `ImplementsLifecycle`. The run `dedicated` checks them all; in the
  other programs the runs check what their own instructions could break, while
  `HolderCanAct` and `HandoverByConsent`, about instructions they share, are proved of them;
- dedicated mode: `StrictFormsAgree`, `BornOnce` (no initialization lands after the first,
  whatever became of the role), `WindowIsOpen` (until the role is born every owned
  key, or only the genesis key, could initialize now and alone, unless a balance stranded
  the PDA), `NominationResolves`, `OnlyAdminChangesValue` (fixture);
- witness exchange: `ExchangeTypeOK` (a nonce in a file is behind the chain's exactly when a signer
  signed something else), `SignedSlotStands` (a late message of the admin meets the slot it was
  built on, nominee included, however often the role moved meanwhile),
  `CompleteTransferResolves`;
- embedded mode: `FieldsHaveOneWriter`;
- manual sample: `BornTogether`, `GateIsTheHandlersCheck`;
- library boundary: `SpliceIsLocal`, `OnlyRenounceRenounces`, `RenouncedWindowIsDead`, `CodesTellTheState`;
- genesis key: `KeyIsSpelled`, `PanicsForAReason`, `Decides`;
- build time: `GateReadsWhatInitializeWrites`, `GateReadsTheSlot`, `BootstrapWritesTheSlot`, `BareGateExpands`;
  `FallingThroughIsBornInitialized`, `BootstrapFindsTheStruct`, `GateComesFirst`.

### Divergences between documentation and code

Three runs check a sentence of the documentation that the code does not meet.
None is an error of the instructions the library itself provides.

- `docs/adr/0007-embedded-account-support.md:7` and `CONTEXT.md:31` call dedicated mode offset 0 of one code path.
  `perform_renounce` (`config.rs:327`) is a path of its own, and differs on data that is
  not exactly one slot. The Config PDA of a dedicated program always is one
  slot, and there they agree (`StrictFormsAgree`).
- `docs/adr/0007-embedded-account-support.md:11` says the initialization window does not exist
  in embedded mode. In the embedded sample whoever creates the account first is
  the admin, as `docs/authority-lifecycle.md:166` itself says.
- `docs/adr/0007-embedded-account-support.md:13` says a program cannot create the embedding
  account without installing an admin. The bootstrap goes in front of the last
  statement (`admin-authority-macros/src/lib.rs:118`), so a body that writes its struct and
  returns `Ok` earlier passes it by: the account exists with a renounced slot. One that returns before it
  writes leaves the account empty, which means that it does not exist. A body that falls through to its last statement is safe unless
  that statement itself writes the account (`FallingThroughIsBornInitialized`).

## 4. The proofs

`tlapm` checks every theorem for all values of the constants (any sets of keys,
PDAs and values, with or without a genesis key, and where the lemmas allow it
any offset and any data).

**Assumptions**, all named, all evaluated by TLC in the runs: `LedgerAssumption`
(keys, PDAs, the config account and the default id are different accounts),
`ConfigAccountAssumption` (the default id is none of the known ones, `MaxLen` is a natural number),
`ManualAssumption` (offset 0), `ExchangeAssumption` (`MaxNonce` is a natural number),
`OffsetAssumption` (a natural number), `GenesisAssumption` (a key has at least one byte, a text is a sequence of bytes), `EmbeddedAssumption` (at least the value is in front of the slot), `DedicatedAssumption` (offset 0; the genesis key
is an account or absent), `FixtureAssumption` (what `initialize` stores is a value of the program),
`ArgumentsAssumption` (literals are natural numbers, zero among them, and the bound on the list is one) and
`BodiesAssumption` (so is the bound on a body). Nothing is assumed of finiteness.

**The inductive invariant.** `HolderCanAct` is not inductive: that the holder is
admitted in the next state depends on it being owned, which is checked only when
it is installed and must be carried along. `AuthorityInv` in `AdminAuthority` adds what is needed: the
holder is owned and is an account that can be authorised (so never the config,
whose id would be listed twice), owned and stranded accounts are disjoint, the
config is owned once it has data, and a nomination is by the current holder.
`Layout(S)` says that the data is a sequence of cells of `S` and long enough for the
window. The dedicated program's `Inv` adds that the data is one slot, that the account exists
exactly since the one birth in `births`, and that until then nobody claimed the PDA, which
`WindowIsOpen` needs.

**The argument.** `AdminConfigProofs` is about the operators:

1. `SpliceWindow`: writing the slot at any offset keeps the length and every other
   cell, and reads back as written.
2. `TransferOk`, `AcceptOk`, `AssertAdminOk`, `BootstrapResultOk`: what an `Ok` says of the signatures, owners
   and ids. `RenounceFormsAgree`: the two renounces are one over a single slot.

and `AdminAuthorityProofs` about the instructions of either mode:

3. `ExecuteWrites` and one `...Effect` lemma per instruction: what its transaction does to
   holder, nominee and data.
4. `InstallKeepsInv`, `EnvironmentKeepsInv`, `ManagementKeepsInv`: the invariant is kept.
5. `ManagementImplements`, `SlotUntouchedStutters`: a step maps to a lifecycle step or a stutter.

`DedicatedProgramProofs` puts them together, one step per action: `TypeCorrect`, `HolderAlwaysCanAct`,
`NominationsStand`, `RoleBornOnce`, `OwnedReadersAlwaysAgree`, `RenounceEndsIt`, `RoleMovesByConsent`,
`StrictFormsAlwaysAgree`, `WindowStaysOpen` and `ProgramImplementsLifecycle` (the refinement).

The fixture's part of it rests on one lemma, `FixtureStep`: each step of the fixture is a step of
the program, or creates or strands `program_config` and changes nothing the program stores. So the
step lemmas of the program carry over, and `FixtureInv` adds only that an account nobody created holds
what `initialize` would store. With that `ValueIsTheAdmins` follows: without it an `initialize` that
comes after the first gated write would be a change of the value by a stranger.

`EmbeddedProgramProofs` takes the same lemmas at any offset. Its own part is the layout:
`EncodeLayout` (an encoded struct is its value, its padding and its slot in this order),
`UpdateLayout` (decoding, setting the value and encoding changes the first cell only) and
`NewLayout`. They make "the account is one whole struct" inductive, from which the theorems of
the dedicated program follow here too, and `WritersKeepApart`: no step writes both the
program's cells and the slot (`ManagementIsLocal` is the other half of it).

`GenesisProofs` proves the loop: the first `i` bytes are spelled by the first `2i` characters, the
rest are zero, and the flag is set exactly when one of the first `i` bytes is not.
`NibbleIsTable` compares the arithmetic of `nibble` with a table of the 22 characters.

`ManualProgramProofs` reduces the hand-written handlers to the injected ones: `GatedIsInjected` says
that a gated transfer is `AdminTransfer` and, by `RenounceFormsAgree`, that the strict renounce is
`AdminRenounce` while the data is one slot. The shared lemmas then do the rest. Its own
invariant is `BornTogether`, and `GateNeverDisagrees` compares the gate with the handler's check.

The exchange's part first shows that a step of the exchange is a step of the program or
leaves it alone (`ExchangeStepIsProgramStep`), so that `ExchangeSpec => Spec` and every theorem above holds
with files in circulation. `SignedSlotStands` is then inductive together with "the nonces in a
file are not ahead of the chain, and equal to it exactly when nothing overtook the
file", because the holder that a step changing the slot leaves behind signed that step, or is a PDA, which
is the caller of no file (`WrittenHolderSigned`): if a caller is the holder and its nonce
did not move, the slot did not change.

`ConfigAccountProofs` states what the four transitions have in common (`Moves`), shows once
what splicing such a result does (`SpliceResultKeeps`, `WindowCall`), and gets each property of the
library boundary from one lemma per kind of call.

`MacroProofs` is about the time a program is built.

1. *Induction.* The library's induction theorems take a predicate as parameter; `SetInduction` says the
   same of a set (a set that holds 0 and is closed under successor holds every number), proved from
   the well-foundedness of `<` on the numbers, and that is a fact any prover can use.
2. *Folds.* Both argument loops and the sum over the fields are `FoldLeft`, that is a function on the
   sets of indices. `IsTable` says what it is to be that function; `TableExists`, `TableTyped` and `TableAppend` show by
   induction that there is one, that its entries are typed, and that one more element is one more
   step. `GateReadsOnce` and `InitializeReadsOnce` are the form the rest uses: empty lists give the defaults,
   `Append` gives a step.
3. *Arguments.* `AttributesAgree` is for any list of arguments, with the common part of the two
   reads (`ReadsAgree`) as induction hypothesis and `StepsAgree` for one argument: as long as the gate has not
   refused, the initializer has not either, and both hold the same names and the same offset if one was written.
   `GatesReadWhatInitializersWrite` is its consequence for the attributes.
4. *Layout.* `LayoutPinsTheSlot` is an equivalence for any fields: the const assert and the
   serialization test accept a struct exactly when its slot is at the marker's offset by both counts. The
   probe's first half starts and ends with the one byte value that occurs nowhere else in the struct, so
   the slot can start neither later nor earlier.
5. *Wiring.* A program of `Wiring` never changes, so its types (`WiringTypes`) are the invariant. `GateStamped` and
   `InitializeStamped` say that the stamp decides the account and the offset, whatever was written before it, and the
   three properties follow. They range over the markers, declarations and four layouts of the
   model and over arguments of any number.
6. *Bodies.* `HandlerInv` says where the injected statement is (`BootstrapShape`, `GateShape`) and what that comes to at the
   next statement: the account is the caller's once the tail is reached (`BornByTheTail`), a struct written is still
   there (`FoundWritten`), behind a gate that refuses nothing ran (`KeptShut`). Bodies have any length.

The arms of a `CASE` must not overlap for these proofs: TLA+ leaves the choice open where TLC takes the
first arm. `ReadGateArg` therefore repeats in its arms what the source decides by order (an offset that
is no literal is refused as such, not as a value that is no name).

**Only model-checked:** liveness (`NominationResolves`, `CompleteTransferResolves`, `Decides`), which under
fairness is outside this prover.

## 5. What is not modelled

- Balances, fees and blocks. A balance matters here only in that it strands an
  account nobody owns.
- The format of a transaction file, and what `spel sign` shows a co-signer before it
  signs.
- The bytes of an id and of the candidate argument, and the wording of errors.
- The types of a macro's argument beyond what decides a branch.
- A config account declared with a pda that is not the slot's: neither macro
  looks at it. The framework's documents do not agree on whether an embedding account is
  recognised under another name than the marker gives, so only the marker's name is
  modelled.
- The framework and the zkVM: their checks on accounts are guards.
- The text of the IDL, scripts, CI: no behaviour at run time.

## 6. Plan

Done, in this order of importance:

1. Core: `AuthoritySlot`, `AdminConfig`, `Ledger`, `AdminAuthority`, `DedicatedProgram`, `AdminLifecycle`, their runs
   and proofs.
2. `ConfigAccount` and `ConfigAccountProofs`: the library boundary.
3. `EmbeddedProgram` and `EmbeddedProgramProofs`: two writers of one account.
4. `ManualProgram` and `ManualProgramProofs`: the manual sample's own handlers.
5. `Genesis` and `GenesisProofs`: decoding the 64 characters.
6. `MacroArguments` and `MacroBodies`, proved in `MacroProofs`: what the attributes read and where they write.
7. `WitnessExchange`, proved in `DedicatedProgramProofs`: a transfer as a file that two parties sign and anyone
   submits.
8. `ConsumerFixture`, proved in `DedicatedProgramProofs`: two accounts born apart, one with an open creating instruction.
9. `Wiring`, proved in `MacroProofs`: marker, injection, stamping and layout.

To do: `LayoutPinsTheSlot` covers any fields, but the wiring theorems still take their layouts from the four
of `Wiring`; making the layouts a constant would lift that.
