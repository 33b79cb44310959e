# PulseSDK: a TLA+ model of the mod loader and its command line

PulseSDK loads mods into Geometry Dash: a loader that is injected into the game
hooks its functions, lets several mods share one function, and switches mods on
and off; an SDK that the mods are written against; and a command line tool,
`pulse`, that installs the loader, builds and publishes mods, and finds the
addresses that mods hook. This directory models the two parts in which a mistake
cannot be taken back: the hooks and the life of the mods that own them, which
crash the game; and the command line, which rewrites the files of the game, of
projects and of a shared catalog.

* [Inventory](#inventory): the parts of the system
* [Modules](#modules): what models what
* [Runs](#runs): what is checked, with which bounds
* [Where code and documentation
  disagree](#where-code-and-documentation-disagree)
* [Proofs](#proofs)
* [Limits](#limits), [Not modelled](#not-modelled) and [Plan](#plan)

`PROJECT.json` holds the same in a form for tools: the source lines of every
definition, the runs, for each property a plausible bug that it catches, and the
hazards with the properties that would catch them.

## Inventory

### Hook chains (`loader/hooking`)

| component | state | operations | what makes it correct |
|---|---|---|---|
| `HookChain`, `HookContext` | the ordered vector of nodes; the stack of links under way in a dispatch | `add`, `remove(owner)`, `dispatch`, `callNext` | order by clamped priority, then load order, then arrival; a dispatch runs no handler twice and ends at the original unless a handler stops it |
| `HookChainRegistry` | one `ChainSlot` per function (chain, `HeadCell`, thunk, trampoline, installed), behind a mutex | `insertLink`, `removeOwner`, `teardown` | one hook per function however many links; pointers agree with the order; removal of the last link restores the function; a removal touches nobody else's hooks |
| `HookGate` | counters | `install` | nothing is installed on an unresolved address or without a backend |
| `Head_Thunk`, slots | `currentHead` and one `pulse_original` per link, read by the game's thread | atomic store and load | a call in flight never gets lost while the loader rewires |
| backends | hooked addresses, trampolines | `install`, `remove`, `readOriginal` | all or nothing per function; they may fail |
| `RollbackStore` | records of original bytes, in memory and in a file | `add`, `load`, `restore`, `restoreAll` | what is written back is the game's code |
| `CrashSentinel` | a marker and a list of disabled mods, both in files | `recoverFromPreviousSession`, `beginSession`, `recordActiveMod`, `heartbeat`, `mark...`, `enableMod` | a mod that crashed the game in its first minute stays on the list until the user takes it off; nobody else is blamed |
| `HookEngine` | hooks by mod | `installAll`, `remove` | batches are all or nothing |

### Life of mods (`loader/lifecycle`, `loader/core`)

| component | state | operations | what makes it correct |
|---|---|---|---|
| `ModManager` | a state per mod | `registerMod`, `enable`, `disable`, `remove`, `shutdown` | only the allowed transitions; a failing entry point leads to Disabled and harms nobody else |
| `ModManagerWiring` | per mod: module loaded, window of epoch recorded | `onEnable`, `rollbackModHooks`, `disable`, `teardown` | a mod has its hooks exactly while it is Enabled; its module stays mapped while the game can reach it |
| `HookOwnershipLedger` | installed hooks by owner | `attribute`, `release` | equals the union of the chains |
| SDK hook registry (`pulse::hooks`) | all registrations, in order of static initialisation | `register`, `resolve_all` | a mod's registrations are one contiguous window |
| `ModLoader` | load plan, `DiagnosticLedger` | discovery, deduplication, resolution, `run` | each mod found is loaded, excluded or isolated, exactly one of them |
| `HotReload`, `ModManagerUI` | previous hooks; none | `reload`; toggles | old version back if the new one fails |
| `CentralizedLoader`, runtime entry | deadline | `start` | the game starts without mods rather than not at all |

### The command line (`cli`, in Rust)

| component | state | operations | what makes it correct |
|---|---|---|---|
| installer | the bundle of the game; a directory beside it with the original bytes and a manifest | `install`, `uninstall`, with either injector | whatever fails or dies, the bytes of the game are in place or on record; a patched executable finds its library |
| Mach-O patch | an executable, thin or universal | `add_load_dylib_command` | the load command lies in padding of every image, or nothing is written |
| `logs` | the game as a child process, two readers, a watcher, a channel, the terminal | `stream_logs` | every readable line once, in the order of its stream; nothing left behind; an end |
| manifest | `pulse.toml` | `parse`, `validate` | all violations, and none of a valid manifest |
| `build` | sources, resources, a compiler, a `.pulse` package | `build_with` | the package holds what was compiled and the digests of what it holds |
| `publish`, `submit`, `upload` | `submission.toml`, the wizard, the servers | the commands; the wizard's keys | only checked manifests are published; only complete submissions are stored |
| menu | terminal, panic hook, list, form, message | keys; the hand-over to a command | the shell gets its terminal back on every path |
| `doctor` | a thread per check | three checks with a timeout | a check that is late is not taken for a good one |
| `siggen`, `check-offsets` | signatures in `pulse.toml` | mask, generate, search, classify | a signature finds its function in the next build, where the bits that it keeps are the same, and nothing else |
| binding catalog | an entry per symbol, a `.pbind` per game version and platform | `add-symbol`, `set-offset`, `set-signature`, `verify-prologue`, `extract` (which sets the flag itself), generation | what is called verified was verified, as it stands |
| `.pbind` files | text | write, lint, cross-check with a reference | a text that lost something is refused; references do not reach the catalog |
| extraction | tables of a build with names, tables of one without | reconstruct, match, derive | an address belongs to the method it is derived for |
| extraction into the catalog | plans, files | plan, commit | adds what is missing and changes nothing that is there |
| surface | IR and three headers | `surface generate` | the headers of one generation fit together and name everything once |

### The rest

`sdk/`: tasks on worker threads with continuations on the main thread, HTTP,
event bus, settings, storage, log, layout. `loader/`: bindings, package format,
platform bootstraps, sandbox and scripting, telemetry. `mod-index/` is data.

### How they interact

In the game, two threads matter. The *early-load thread* runs the pipeline: for
each mod the `ModManager` calls the wiring, which loads the module (its static
initialisers append to the SDK registry), calls its entry point and inserts the
resolved registrations of the window into the chains through the registry. The
*Game_Thread* calls hooked functions at any time: the patched code jumps to the
function's thunk, which loads `currentHead`; each detour loads its
`pulse_original` and jumps on, until the real trampoline runs the original. The
two share only those pointers. Failures come from the backend (installing or
removing a hook), from `dlopen`, entry points and handlers, and from files; a
crash can end the process between any two writes of the sentinel.

The commands of the command line share files, with each other, with people who
edit them, and with Steam, which updates the game. They take no locks: a command
reads, computes and writes, in place or by a temporary file and a rename, and
may be killed in between. What is shared in memory is the terminal, and the
channel and flags of the threads of `logs` and `doctor`.

### What is hard here

The hazards, each with its source line and with the properties aimed at it, are
listed in `PROJECT.json`. In the loader: the order of pointer stores under a
call in flight; neighbours relinked instead of whole lists rebuilt; failures
half-way through a window, a removal or a recovery, and what later operations
make of what they leave; mods enabled again after failures; and a crash between
the removal of one file and the writing of another. In the command line: kills
between the steps of an installation, and what the next command makes of them;
files read, then edited by somebody else, then written back; threads that end in
an order nobody planned; answers that are late or lost; and shifts by one, of a
slot, a line or a byte, that make an address another function's.

## Modules

```
SequenceFilter             what a filter leaves of a sequence
ChainOrder                 the order of links; heads and successors
 |- HookChain              the vector, and the dispatch of handlers
 |   '- HookChainProofs
 '- HookChainRegistry      chains, hooks, ledger, rollback records
     |- HookChainRegistryProofs
     |- HookDispatch       single stores, and a call in flight
     |- ModLifecycle       ModManager and its wiring
     '- RegistryInUseProofs, of HookDispatch and of ModLifecycle

Installer ---INSTANCE WITH---> UndoLog
 '- InstallerProofs
CrashSentinel              files, recoveries, crashes
LogStream                  threads, pipes, Ctrl-C
 '- GameRunProofs, of CrashSentinel and of LogStream

ModManifest, SubmitWizard
 '- ModPublish             build, publish, submit, upload
     '- ProjectCommands, and INSTANCEs: CommandMenu, DoctorRun, MachO, ModBuild
         '- ProjectCommandsProofs

BindingRecords
 '- BindingCatalog         contributors, reviewers, one extraction, generation
     |- MCBindingCommands, on CatalogExtraction, Surface and ByteSignatures too,
     |    with INSTANCEs of PbindFormat and GameBuilds (on VtableExtraction)
     '- BindingCommandsProofs, of the same but GameBuilds

SequenceLemmas             sequences and filters, for the proofs
```

Every checked module `M` has a module `MCM` that defines a small instance; each
run has a configuration of its name. `ProjectCommands` and `MCBindingCommands`
hold several modules that share no state (`MCByteSignatures` also runs on its
own): a behaviour is one of their
*parts*, chosen at the start, so that one run checks each of them on its own.
What is filtered, of the nodes of a chain or the lines of a stream, is `Kept` of
`SequenceFilter`: `SelectSeq`, as a recursive function that can be proved about.

### The loader

**ChainOrder.** `Precedes` is `HookChain::precedes` on clamped priorities, with
the link itself (its index in the SDK registry) as load order, so that it is a
strict total order: a chain is a *set* of links, and its head and successors are
functions of the set. That this is legitimate is what `VectorIsAChain` checks of
the vector in `HookChain`.

**HookChain.** `Add` is `upper_bound` and insert, `RemoveOwnersNodes` the
erase-remove. A dispatch is a stack of `LinkState` and a point of control:
invoking a position, in a handler, or unwinding an exception. A handler may at
any time call `callNext` (again), return or throw, the original may throw, and a
handler may catch what `callNext` lets through. `trace` records what ran.

**HookChainRegistry.** One action per handler: `insertLink` is `RejectInsert`,
`InstallFirst`, `InstallFails` or `InsertSubsequent`; `removeOwner` is
`RemoveOwner`, and a teardown, which holds the mutex throughout, is
`BeginTeardown` and a `TeardownStep` per mod. The variables are the fields of
the slots; `patch` is what the backend has done to the function: nothing, a jump
to a thunk whose cell is alive, or (`dangling`) to one whose `ChainSlot` was
erased. The pointers are *not* derived from the chain: insertion writes the
neighbours as `insertSubsequent` does, removal rewrites the rest as
`relinkAfterRemoval` does, and the properties ask whether that is enough. Adding
a rollback record may fail; removing a hook may fail if `RemoveCanFail`.

**HookDispatch** refines the granularity of the same operations. Each begins
with the registry's step, which fixes the stores it will do in the order of the
code (`InstallStores`, `InsertStores`, `RelinkStores`, `RemoveLastStores`); then
`StepStore` performs them one at a time on the memory that the game reads, while
a call of the game proceeds by `Enter`, `LoadHead`, `RunLink` and `Return`.
`StoresAddUp`, a part of `StoresAreInOrder`, relates the two levels when no
operation is under way. The last store of a removal also frees the `HeadCell`,
which the code erases with its `ChainSlot`: a call that is then still in the
thunk reads whatever is there (`LoadFreedHead`). `StoresAreInOrder` says that
this happens to calls that a removal of the hook crosses, and to no other.

**ModLifecycle** puts the manager and its wiring on top of the registry, whose
actions are conjuncts of its own. An operation that calls out several times is a
`job` of several steps, each of which may fail where the code provides for it:
load, resolve the entry point, run it, install each link of the window, roll
back. A teardown first terminates the Enabled mods in reverse order, then
removes their hooks once more and unloads each. `mapped` is what is really in
memory, `loaded` what the wiring believes. The demo's links are in the chains
from the start, as the runtime entry puts them there. This is the path with a
chain registry, the one the runtime takes.

**CrashSentinel.** The two files, what the process holds in memory, and how far
it has got. The recovery is split where a crash makes a difference: marker
removed, disabled list written, each record restored. `End` kills the process at
any point. A failed write leaves the old file or none. A list that cannot be
read at `Start` leaves the process with an empty one, and its next change is
written over the old; what is lost that way is excused (`blind`, `excused`), and
nothing else. Any mod may be recorded as active, a disabled one too, as nothing
in the loader asks `isModDisabled`: the properties are about the list. History
variables say whom the end of a process *ought* to be charged to; no action's
effect on the program's own state reads them.

### The command line

**Installer** on **UndoLog.** One action per write of the code, in its order,
and for each the failure the code handles; `Crash` at any point. A file in place
holds bytes of a release of the game, of the installer, or of a write that was
cut off. An install goes from `BeginInstall` by `SaveOriginal` and
`WriteManifest` to `EndInstall`; an uninstall, and the rollback of an install
that failed, by `RestoreEntry` to `RemoveBackup`. What they leave behind where a
restore failed is remembered (`missed`, `forsaken`). `SteamDelivers` replaces
files at any time. `UndoLog` is the promise in three variables: which files are
their own, which are on record, which were given up. `KeepsAnUndoLog` is the
refinement.

**LogStream.** The game writes, closes its streams, leaves its pipes to other
processes and ends; the readers number a line, send it and notice the end in
separate steps; main receives, prints, stops the watcher, joins. The watcher's
raw mode, poll, its failure and exit are steps too, and of a Ctrl-C the store of
`interrupted` and the end of raw mode are two. The pure `multiplex` and
`classify_exit` are functions, applied to what a run has printed.

**ModManifest, SubmitWizard, ModPublish.** `Violations` is `validate`;
`ConstraintOf` reads a version constraint. The wizard is a function of its state
and a key. `ModPublish` runs the four commands step by step; `pulse.toml` and
sources may change between any two, which is why `publish`, which reads the
manifest, and the build it calls, which reads it again, may see two; writing the
package may fail, and its error ends the command. The index
stores or refuses what it is sent, and its answer may get lost.

**CommandMenu, DoctorRun.** The terminal's two modes, the guard that restores
them and the panic hook; every call that changes them may fail. The doctor's
threads answer before or after the timeout; a channel belongs to one check.

**MachO, ModBuild.** Pure: the patch of an executable against "every image still
has its bytes and one more library, or the file is refused"; and the choice of
compiler, the command line and the entries of a package.

**BindingRecords, BindingCatalog.** A command of a contributor is a read, then a
write in place that may be cut off. Two hands set the flag of a verified offset:
a reviewer, after `verify-prologue`, and `bindings extract`, for an address that
it derives and whose bytes pass its sanity check (`DerivedOffset`). The
extraction is followed for one symbol: `StartExtraction` loads the entry and
compares its signature; `ReadAgain` reads the *text* once more and appends to
what it is by then; `RenameExtracted` replaces the file, and `DieExtracting` may
come at any time. A file that lists a pair twice is *doubled*: read alone it is
taken, a catalog with it is not. `checks` remembers what a reviewer or an
extraction ever saw agree with the binary, `crossed` what an extraction put
behind a signature that was changed under it; no action reads them. A generation
reads the whole catalog and then replaces a `.pbind` file per pair.

**CatalogExtraction, Surface.** Both compute everything first and then replace
files one by one, killed anywhere; contributors edit while they run. The
extraction loads a single file, where a pair may be listed twice; only the load
of a whole catalog refuses that (`HoldsPairsOnce`). The name of a type in the
headers loses its scopes and, if it has any, what stands before them: of an
unscoped type the `const` stays (`LeafName`).

**ByteSignatures.** A build is a sequence of instructions, each one unit or two:
plain ones, and three kinds with a field that the linker fills in. The mask
makes the low bytes of an arm64 `branch` or `address` (`adr`, `adrp`) wild and
keeps the top byte, with the sign of the one and the lowest bits of the other;
of x86-64 only the operand of a `branch` is wild, an `address` relative to `rip`
stays as it is; and so does a `page`, the low 12 bits that go with an `adrp`.
`Relink` links every field anew, whatever the mask does with it.
`GenerateSignature`, `ScanAll` and `Classify` see units only. `Steady` names the
bits that must not have changed for a signature to hold, and `SteadyCodeIsFound`
that these are all. `siggen` may be run again at any time.

**VtableExtraction, GameBuilds.** `GameBuilds` lays out small classes the way
compilers do, in a library with names and in a build without; `VtableExtraction`
is the code that reads them: slots, ordinals, locators, matches, prologues. They
are kept apart so that what is assumed of compilers is not mixed with what the
code does.

**PbindFormat.** The generator's lines and the linter's checks; that a text it
writes passes exactly when its types are words, and no longer when a line is
lost; and the table of reference addresses behind its firewall.

## Runs

| run | question | states |
|---|---|---|
| `registry_failures` | what holds however the backend fails: `Wired`, `LedgerIsUnionOfChains`, `OthersKeepTheirHooks`, `LostTargetStaysLost` | 187 000 |
| `registry_no_failures` | what holds when hooks can be removed: `CallRunsTheChain`, `HooksMatchTheRegistry`, `TeardownLeavesNothingPlanned` | 144 000 |
| `dispatch_calls` | a call against every single store: `StoresAreInOrder`, `RunsTheSteadyChain`, `CallsEnd` | 545 000 |
| `lifecycle_failures` | mods over their whole lives: `HooksFollowTheStates`, `ChainsAreSafe`, `OperationsKeepWindows` | 135 000 |
| `chain_dispatch` | handlers that do anything: `VectorIsAChain`, `RunsOnceInOrder`, `StepsKeepTheChain` | 1 800 |
| `sentinel_crashes` | crashes and failing disks: `RecoversFromTheCulprit`, `ChargesTheLastActive` | 228 000 |
| `installer_crashes` | installs and uninstalls that fail and die: `EveryFileIsOwnOrRecorded`, `RecordsTheGameOnly`, `PatchedFindsItsDylib`, and that they are an undo log (`KeepsAnUndoLog`) | 622 000 |
| `logs_stream` | threads, pipes and Ctrl-C: `PrintsWhatWasWritten`, `LeavesNothingBehind`, `EndsWithTheGame` | 807 000 |
| `project_commands` | a project's commands, the menu, the doctor, every small executable and package: `PackagesAreValid`, `SubmissionsAreComplete`, `MenuIsWellBehaved`, `DoctorIsHonest`, `PatchesAndPackagesAreSound` | 1 402 000 |
| `binding_commands` | the way of an address into a mod: `VerifiedMeansChecked`, `ExtractionIsFaithful`, `HeadersFitTogether`, `SteadyCodeIsFound`, `DerivedAddressesAreTrue`, `TextsAreChecked` | 2 650 000 |
| `lifecycle_lost_window` | a disagreement, see below | |
| `signature_relinked` | a disagreement, see below | |

The type invariant of each module is a property of its run, or the first
conjunct of one. Several invariants are conjunctions with a name for each part,
to be read in the module: `HooksMatchTheRegistry` (one hook per installed slot,
only enabled links are called, records hold the original), `StoresAreInOrder`
(the stores of an operation add up to the registry's step, null only around an
install), `RunsTheSteadyChain` (in order, no steady link skipped, no absent one
run), `HooksFollowTheStates`, `ChainsAreSafe`, `OperationsKeepWindows`, and so
on.

**Bounds.** No run bounds its depth. The state spaces of the loader are finite
because links, mods and functions are; those of the command line because what
people and servers do is counted (`Max...`). All are explored completely.

* *Registry*: a demo and two mods, six links (four with failures) on two
  functions. Four links on one function are the least with which a link can be
  inserted at the head, in the middle with both neighbours of different owners,
  and at the tail, and a removal can take two non-adjacent links at once. The
  priorities include ties at the default, two values above the maximum that tie
  once clamped, and one below the minimum; one link has no slot and one is
  unresolved. With the second function a mod holds chains that it empties and
  chains that it shares, so one removal can half fail.
* *Dispatch*: three links on one function, two of one mod on either side of the
  other's, one call at a time. A call's state depends on one function only, and
  calls do not write what others read, so more functions or calls add nothing.
* *Lifecycle*: the demo and two mods, three links of `ModA` (one on a function
  of its own, one unresolved), one of `ModB` on the function all share.
* *Chain*: four nodes: a tie, a priority out of range, one without handler.
* *Sentinel*: two mods, three records interleaved `A B A`, so that a restore can
  stop half-way and has another mod's record to leave alone.
* *Installer*: two releases of the game, so that bytes of the wrong one exist;
  the three files an installation rewrites. The commands are not counted: any
  number of installs and uninstalls, in any order.
* *Logs*: two lines in each stream: the least with an order to lose, or with a
  line behind one that is not text. One other process may hold a pipe.
* *Project*: three manifests (two valid ones whose packages have one file name,
  one invalid), two edits, one upload, which may meet any state of the packages.
  Texts of the menu have two characters, those of the wizard one: what differs
  is empty or not.
* *Executables*: images of six units with every padding, section table and byte
  order, alone and in pairs. *Packages*: every subset of three sources, three
  operating systems, paths with the compilers the code knows.
* *Catalog*: two contributors, one symbol, two pairs, one real address beside
  zero and the sentinel, three changes (commands, extractions and reviews):
  enough for two to cross and for a third to build on what they leave. Entries
  share nothing but their file, so that a second symbol adds nothing here; in
  *extraction*, where two symbols may share a file, there are three.
* *Surface*: five manifests and three catalogs (a pair of tokens, a duplicate, a
  mapped type, a destructor), changed twice during a generation.
* *Signatures*: programs of one to three instructions of every kind, one update
  that puts nothing or one instruction before them, fields of one bit, windows
  of four units, on both architectures.
* *Vtables*: a class of one or two methods, an interface of four, and a class
  derived from one or both, with overrides, an addition, a pure method; names,
  sizes or entries missing; folded functions.
* *Text*: two functions with empty and full fields; two lines of reference.

**Fairness.** Safety is checked without any. `CallsEnd` assumes weak fairness of
`LoadHead \/ LoadFreedHead \/ RunLink \/ Return`: a call that has begun goes on,
as the Game_Thread is scheduled and takes no lock that the loader holds. The
loader is *not* assumed to be scheduled, nor the game to call. The property is
not trivial: a loader that rewired in front of a call for ever, or into a ring,
would keep it running. `EndsWithTheGame` assumes that the readers, the watcher
and the main thread are scheduled and that the loop, which looks at the flag
before each reception, sees it; not that the game ends or writes, nor that its
heirs let go of the pipes. Its premises say so: with a pipe in other hands the
command waits, as the code does.

**Deadlock** is checked in every run but three. `project_commands`,
`binding_commands` and `signature_relinked` have parts that end: a menu that is left, a report that is printed, an input that has been
evaluated, and counted edits that are used up.

## Where code and documentation disagree

`PROJECT.json` quotes the documentation. Two of them are runs that TLC ends
with a counterexample:

* `lifecycle_lost_window`: a first enable that loads the module and then fails
  records no window. The second does not load the module again, opens its epoch
  after the module's registrations and records an empty window: the mod is
  Enabled without hooks for good.
* `signature_relinked`: the top byte of an arm64 `adr` or `adrp` also holds the
  two lowest bits of its immediate, that of `b` and `bl` the sign of theirs. The
  mask keeps it, so that the same function, when its page has moved by one or
  its callee is behind it instead of before, is reported as gone.
  `SteadyCodeIsFound` says how far the promise holds.

The others were met while the modules were written. In the loader:

* An emptied slot whose hook the backend could not remove is, on the next
  insertion, erased with the `HeadCell` that the installed thunk still reads:
  "one hook per installed slot" (`hook_chain_registry.hpp:178`) ends there. The
  model has the step (`patch` = dangling); `HooksMatchTheRegistry` holds of a
  backend that does not fail.
* A function is hooked before its `currentHead` is written, and a call in that
  moment jumps to null, although `head_thunk.hpp:41` excludes intermediate
  states. `StoresAreInOrder` shows that this moment and the removal of a hook
  are the only ones.
* The second `rollbackModHooks` of a teardown finds an empty chain and an empty
  ledger; the module is unloaded while its function still jumps into it.
  `ChainsAreSafe` shows that functions whose chain is not empty are safe.
* The recovery removes the marker before it persists the disabled mod. If it
  dies in between, the mod that crashed the game is on no list; this and failing
  disks apart, it is on it (`RecoversFromTheCulprit`).
* The sentinel's purpose is that a disabled mod is not loaded at the next start.
  `isModDisabled` tells, but nothing outside the tests asks it.

In the command line:

* `logs`: a line that is not UTF-8 ends its reader, and the game with its next
  write; and a Ctrl-C after both streams have drained is not looked at.
* `upload`: an error is said to leave nothing on the index; a lost or empty
  answer is an error, and the resource is there. `publish` reports a receipt for
  a package that the default client does not send.
* The manifest's id is measured in characters here and in bytes by the loader.
* `extract` compares the signature of an entry, then reads the file again and
  appends its verified offset. A `set-signature` in between leaves an offset that
  counts as verified under a signature it was never checked with. The model has
  the steps (`crossed`); `VerifiedMeansChecked` says that nothing else does this.
* `extract`: the "atomic commit" is one rename per file, with the text as it was
  planned, over edits made since. The order of a table of a PE build is not that
  of the Itanium ABI, and an ordinal may come from the second table of a class,
  or from another class's.
* `surface`: `A::b_c` and `A_b::c` have one token. An opaque type `const X`
  without a scope is declared as `struct const X;`.
* `install`: `codesign --deep` rewrites nested code that no backup holds.

## Proofs

TLC's answers are for the small instances. The theorems below, which TLAPS
checks to the last leaf, are for all of them: any sets of mods, functions and
links, any priorities, any number of lines, edits or releases, and a backend and
a disk that fail as they like.

| module | theorem | establishes |
|---|---|---|
| `HookChainProofs` | `VectorStaysAChain` | `VectorIsAChain` |
| | `HandlersRunOnce`, `StepsAreStable` | `RunsOnceInOrder`, `StepsKeepTheChain` |
| `HookChainRegistryProofs` | `TypeCorrect`, `ChainsAreWired` | `TypeOK`, `Wired` |
| | `LedgerCorrect` | `LedgerIsUnionOfChains` |
| | `RemovalSparesOthers`, `LostHooksStay` | `OthersKeepTheirHooks`, `LostTargetStaysLost` |
| | `HooksMatch`, `TeardownEmptiesThePlan` | `HooksMatchTheRegistry`, `TeardownLeavesNothingPlanned` |
| | `CallsRunTheChain` | `CallRunsTheChain` |
| `RegistryInUseProofs` | `StoresAddUpToTheRegistry` | `StoresAreInOrder` |
| | `CallsRunTheSteadyChain` | `RunsTheSteadyChain` |
| | `DispatchImplementsTheRegistry` | `DispatchSpec => Spec` |
| | `HooksAreTheStates`, `ChainsStaySafe` | `HooksFollowTheStates`, `ChainsAreSafe` |
| | `OperationsAreComplete` | `OperationsKeepWindows` |
| | `LifecycleImplementsTheRegistry` | `LifecycleSpec => Spec` |
| `GameRunProofs` | `RecoveryIsJust` | `RecoversFromTheCulprit` |
| | `TheLastActiveIsCharged` | `ChargesTheLastActive` |
| | `CommandTidiesUp` | `LeavesNothingBehind` |
| | `PrintsAllThatWasWritten` | `PrintsWhatWasWritten` |
| `InstallerProofs` | `InstallerTyped` | `InstallerTypeOK` |
| | `NothingOfTheGameIsLost`, `RecordsAreTheGames` | `EveryFileIsOwnOrRecorded`, `RecordsTheGameOnly` |
| | `GameStarts` | `PatchedFindsItsDylib` |
| | `ImplementsTheUndoLog` | `KeepsAnUndoLog` |
| `ProjectCommandsProofs` | `TypeCorrect`, `PackagesStayValid` | `PublishTypeOK`, `PackagesAreValid` |
| | `SubmissionsStayComplete` | `SubmissionsAreComplete` |
| | `ProjectPublishes`, `ProjectTyped` | `ProjectSpec => Spec`, `ProjectTypeOK` |
| | `MenuBehaves`, `DoctorStaysHonest` | `MenuIsWellBehaved`, `DoctorIsHonest` |
| | `PatchesStaySound` | `PatchesAndPackagesAreSound`, of patches |
| `BindingCommandsProofs` | `CatalogIsTyped`, `VerifiedIsChecked` | `BindingTypeOK`, `VerifiedMeansChecked` |
| | `ExtractionIsTyped`, `ExtractionStaysFaithful` | `ExtractionTypeOK`, `ExtractionIsFaithful` |
| | `SurfaceIsTyped`, `HeadersStayTogether` | `SurfaceTypeOK`, `HeadersFitTogether` |
| | `CodeIsFoundAgain` | `SteadyCodeIsFound` |
| | `ReferencesConfirmOnlyTheirs` | `ReferencesConfirmWhatTheySay`, of all references |

**Assumptions.** Those on the constants, which every run evaluates:
`LinkAssumption` (links are natural numbers, with owners, targets and integer
priorities), `PointerAssumption` (the null pointer and the trampoline are not
links, nor each other), and those of each module on its own: bounds are natural
numbers, what is put in as a parameter has the types of the code
(`BindingCatalogAssumption`, `CatalogExtractionAssumption`, `SurfaceAssumption`,
`ByteSignaturesAssumption`), and of an executable (`ProjectCommandsAssumption`,
`IsExecutable`) that a section with data does not lie at offset 0, which is the
header's, and that a thin file has one image. Three theorems also
assume `IsFiniteSet(Link)`: links are static objects of the modules, so that
there are finitely many; without it a call might have no end to reach.
`HooksMatch` and `TeardownEmptiesThePlan` assume `~RemoveCanFail`, a backend
that removes what it installed, and are false without it (see *Where code and
documentation disagree*); the run `registry_no_failures` checks them under the
same condition. No step is left unproved.

### Why the invariants have to be stronger

*The registry.* That relinking *two* pointers keeps the *whole* list wired
depends on a link's being in the chain of its own function only
(`ChainsAreOnTheirTargets`): otherwise writing its slot for one chain would
unwire another. `IInv` is that with `TypeOK`, `Wired` and `InstalledIsHooked`.
The ledger is a union over chains, and again only because a link is in one chain
(`LedgerFollowsChains`) does removing it there remove it from the union. With a
backend that removes, `TrueToTheBackend` adds that a function without links has
no hook and that no record was made of a hooked function.

*A call along a wired chain.* `CallPath` is a recursive function, and the
library's induction theorems, which take an operator as a parameter, cannot be
used. What it does is proved by the least element instead: a set of indices at
which a claim fails has a least one, if it has any (`InductionUpTo`), and a
function that satisfies the equation of the definition exists by the same
argument (`IterationExists`). Every step of the path goes one place further down
the order (`CallPathDescends`), and no link is jumped over.

*Single stores under a call.* `DInv` has five parts. `Registry`: the registry's
own invariant. `Memory`: what the game reads differs from what the registry has
exactly where a store is still to come, and such a store settles it; nothing
leads to a joining link before that link leads on. `Enterable` and `Call`: there
is a set of links that a call may yet run, which holds the chain but for a link
that is just joining, which following a slot never leaves, and no slot of which
jumps over a steady link. The set grows with the store that leads a joining link
on, and a call keeps the set it began with or a larger one. That the code
writes a new link's own slot before the pointer that leads to it is what makes
`InsertPrepares` true. `CellsGoUnread`: a call in the thunk of a function whose
cell is gone was crossed by the removal, and is not one that the rest of the
invariant guides. TLC has checked `DInv`, too.

*Lives of mods.* Between two operations what is hooked depends on the states
alone, but in the middle of one it depends on how far the job has come: `Life`
says, for every kind of job, what of the window is installed
(`InstallIsHalfDone`), which mods may be hooked (`OnlyEnabledAreHooked`), and
that a teardown has all the enabled ones before it (`EnabledAreComplete`). Of
the registry only the ledger is needed, so that each step either adds a link,
takes a mod out or leaves it alone (`LedgerEffects`). TLC has checked this
invariant, too.

*The registry under both.* `HookDispatch` and `ModLifecycle` reuse the
registry's actions in other granularities. `DispatchImplementsTheRegistry` and
`LifecycleImplementsTheRegistry` say that seen through the registry's variables
nothing else ever happens, so that every theorem of `HookChainRegistryProofs`
holds of them.

*The sentinel.* Whom the marker accuses is decided long before a recovery reads
it. `MarkerIsOnDisk` says at each stage what the file is worth,
`ChargedIsListed` where a charged mod is already on the list, on disk and,
unless the process is blind, in memory, and where it is about to be, and
`ReportIsTrue` which records have been restored so far.

*The installer.* That a file may be rewritten depends on its record being on
disk, which depends on how far the backup has come. `Safe` says, for every
stage, which entries are saved already (`SavedSoFar`), whether the manifest on
disk is the one in memory (`Holding`), and which files have been put back
(`RestoredSoFar`); with the types that is `IInv`. A crash may leave any stage,
and the next command starts from the disk alone; so the parts of `Safe` that
outlive a crash speak of the disk, and the others hold in their stage only.
`DylibInPlace` adds in which stages the library must be in the bundle.
`StepRefines` takes each action to a step of the undo log or to none.

*The logs.* `Stages`: the main thread goes through its stages in one order, and
each keeps what the ones before it waited for. That nothing is left out of what
is printed is a matter of what is under way: `Printing` says of the lines
printed and those in the channel, taken together (`SentAreTaken`), that they are
the lines each reader has taken but for the one it holds, each with its number
in its own stream, and greater numbers behind smaller ones. What `multiplex`
makes of two streams is an iteration with the invariant `Merged`: so far the
first lines of each, all of them before what is still to come.

*The vector of a chain.* `Sorted` is kept by insertion at an upper bound because
what is before that place is not behind the new node and what is from it on is,
and by a filter because it keeps the order (`SequenceLemmas`). Of a dispatch,
`DispatchIsInAPhase` says that it is going on, in which case the handlers that
ran are those above its place (`GoingOn`), or winding down, in which case the
original has run or one handler stopped it; and `FramesAreNested`, that a
handler with another one inside it has called it, so that none is entered twice.

*Publishing*: what a command carries from one step to the next was checked when
it was read (`BuildIsChecked`, `DialogueIsGated`, `UploadIsChecked`), whatever
happens to the files in between. *Menu and doctor*: `TerminalIsGuarded` says in
which stages there is a guard to restore the terminal, and `AnswersAreTrue` that
an answer in a channel or a report is that of the check the channel belongs to.

*The catalog.* A command writes back what it read some time ago. So
`ChecksAreKept` says of every entry in somebody's hands, in a file, in a
command, in an extraction or in a generation, that of each offset it calls
verified a check is known (`KnownTo`), or that it was put there by an extraction
under which the signature changed (`SeenOrCrossed`); loading, editing and
merging entries keep that, and an offset loses its flag where its address or its
signature changes. Of the offset an extraction has in hand a check is known for
the signature it looked at (`ExtractionWasSeen`).

*Extraction.* Contributors change files while a run reads and writes.
`PlansGrow`, `QuietIsLoaded` and `PlansAreCommitted` say of the files *nobody*
touched during the run what the plans and the disk have of what was loaded;
`PlansAreCounted` relates the report to the plans: a plan per file, whose
symbols were seen and resolved.

*The surface.* `SurfaceIsWritten`: the first files hold what the elements give,
and the elements are those of a compilation of the manifest and catalog that
were read, not of those that are there now. What fits together does so within
one compilation (`HeadersFit`).

*Signatures.* `SiggenInvariant` is that a signature fits the build it was made
of, that the build there is now is that one, moved by `Shift` and linked anew
(`SameCode`), and that a verdict is about it (`SignatureFits`). In its own build
the signature is found at the function and nowhere else, as the pattern of a
window there. If the instructions of the window are steady (`SteadyWindow`),
every unit that is not wild is the same in the new build (`MaskedIsTheSame`): on
arm64 because windows begin with an instruction and all are as long
(`Arm64Offsets`); on x86-64 because what the mask takes for an operand, reading
the window from its start, is the second unit of an instruction
(`TailsAreSeconds`). Offsets shift by what was put before the code
(`OffsetsMove`), so that the function is among the places found (`FoundAgain`),
and if it is the only one, it is the one reported (`SteadyIsFound`).

*The order.* In `HookChainRegistryProofs`, `Precedes` is a strict total order
(`PrecedesIsStrictTotalOrder`, by way of a rank in Nat), every non-empty chain
has exactly one head (`HeadExists`, `HeadIsUnique`), and a link's successor is
the first link behind it (`SuccessorIsBehind`). A new link changes the head only
if it becomes the head (`InsertKeepsHead`), and the successor only of the links
it then follows (`InsertKeepsSuccessors`). Removal needs no such lemma, as the
code rewrites every slot that remains (`RemoveKeepsWired`).

### What is only model-checked

* *Liveness*, `CallsEnd` and `EndsWithTheGame`: fairness and `ENABLED` are out
  of the prover's reach.
* `DerivedAddressesAreTrue`: it is about classes of a few methods, laid out in
  `GameBuilds` as compilers do, and has no meaning beyond them.
* `TextsAreChecked`, of what the generator writes: which keys a text has is a
  question about a concatenation of blocks (`FlattenSeq`, a recursive operator)
  with one line removed. Its other half, the references, is proved.
* `PackageIsSealed`, the half of `PatchesAndPackagesAreSound` about packages:
  their entries are put in an order by recursion over sets of paths.
* `BindingsTypeOK` as a whole, whose conjuncts of the catalog, the extraction
  and the surface are proved; that of the signatures is not.

## Limits

* Loads and stores are sequentially consistent. `pulse_original` is read without
  an atomic operation, and on ARM64 the thunk's load is not an acquire: the
  orders the results rest on (a link's own slot before the pointer to it; the
  head before the slots on removal) are taken from the program, not from what
  the hardware guarantees.
* The HookDispatch model lets the backend remove every hook: failures are the
  subject of `registry_failures`. Of what a removal frees under a call the
  `HeadCell` is modelled, the backend's trampoline is not.
* Mods do not change chains from within handlers, no link is inserted while it
  is in a chain (`ChainsAreSafe` shows this of the wiring), and the resolver
  gives the same answer every time (`Resolved` is a constant).
* Exceptions that the no-throw barriers catch in places where nothing throws in
  the code (out of memory) are not modelled.
* File formats of the loader, messages and counts are abstracted; a file that
  cannot be read is the case of a failing disk.
* The parts of `ProjectCommands` and of `MCBindingCommands` do not interact.
  In the code they do through files that one command leaves for another, which
  each part has in its initial or chosen inputs.
* What a module assumes of other programs is external in the map: the game and
  Steam, the terminal, the compiler, the linker, the author of a project.

## Not modelled

* *Of the command line*: drawing and animations; the syntax of TOML and the
  bytes of a zip archive; demangling, decoding of instructions and reading of
  object files, which are libraries; the encoding of a symbol into a file name,
  and that two symbols may share one is an assumption of `CatalogExtraction`;
  `validate_surface`, which only reads; argument parsing; the template of a new
  project; what `codesign` writes: that nested code was signed again is a flag.
* *Of the loader*: the `HookEngine` and hot reload, which the runtime does not
  take; discovery, resolver and plan; parsing of manifests and `.pbind` files,
  whose counterparts in the command line are modelled; platform bootstraps,
  sandbox, scripting and telemetry, which are I/O, tables or third-party code.
* *The SDK*: tasks, events, settings and storage.

## Plan

In this order:

1. `TaskScheduler` (`sdk/async`, `sdk/http`): workers, the ready queue and the
   main thread's pump, cancellation of a mod under way; an abstract
   specification (a continuation runs at most once, on the main thread, never
   after the cancellation has returned) implemented by the detailed one.
2. `HookEngine` with `HotReload` and the direct path of the wiring, over the
   same backend; `ModManagerUI`.
3. `RollbackStore` on disk and its use at start, composed with `CrashSentinel`.
4. `LoadPipeline`: discovery, deduplication, resolver against a reference
   definition, `DiagnosticLedger`'s partition, `CentralizedLoader`'s watchdog.
5. `EventBus`; settings and storage.
6. Proofs: what the linter finds in a text of any length, by the positions of
   the lines of a block; the entries of a package; and the same for the modules
   above.
