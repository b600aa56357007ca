# HAZE in TLA+

HAZE is a CUDA-shaped C library for polynomial arithmetic. A call such as
`hazeAdd` computes nothing: it appends to a recording. `hazeFlush` hands the
recording to the Niobium compiler, which replays it, and copies the results that
were tagged as outputs into host-side *shadows* of device memory, where
`hazeMemcpy(D2H)` finds them. The values a program sees thus depend on four
tables that must agree: which addresses are live, which have a shadow, which are
bound to a recorded polynomial, and which are tagged, alone or as residues of a
group. They depend as well on the files through which the replay bridge hands the
inputs over and gets the results back. This project models the tables, the calls
that change them, the locks under which threads make those calls, and the bridge.

Paths below are relative to the repository root; `core/`, `api/` and `common/`
are below `src/`.

## 1. Inventory

| Component | State | Operations | Correct when |
|---|---|---|---|
| `DeviceAllocator` (`core/allocator.cpp`) | live addresses, free list, bump pointer, allocation size, shadows, host pointers | allocate, free, groups of both, H2D, memset, D2H, promotion (evicting read), flushed values, size change, reset | an address has one owner, allocations do not overlap or leak, a new owner finds no old bytes, a shadow has the current size |
| Output bookkeeping (`core/epoch.cpp`: tags and MRP groups) | tagged addresses and their output names, groups, reverse index, group names, counters | tag, register group, evict, invalidate, clear | the indexes are inverses, an address is in one group, names are unique, what is tagged is bound, the latest write decides a group |
| `EpochState` (`core/epoch.cpp`, `core/mrp_polymap.cpp`, `core/compute.hpp`) | bindings, inputs, recorded moduli, names of MRP inputs, `recording_` | promote, compute, copy, tag input, tag output, invalidate, finalize | an operation reads the current value of its operands, a flush delivers each tagged result to its address, a failed flush leaves nothing behind |
| `Config` (`core/config.cpp`) | ring dimension, modulus table, `configured_`, target, format flags, program data | setters, `configure_device`, reset | frozen once configured; the allocator's size follows the ring dimension |
| `CompilerBackend` (`core/backend.cpp`) | `initialized_` | `ensure_initialized`, start, stop, replay, reset | nothing is recorded without a backend; start-up happens once |
| C entry points (`api/`) | thread-local last error | null checks, then one or more critical sections of the above | the pieces of one call compose |
| Basis conversion (`core/basis_convert.cpp`) | none of its own | convert, mod-down, mod-up (several groups stored in one call) | every digit is lifted from the operand as it was, also when it is overwritten; each digit is one group; a tagged group rescaled in place stays exported |
| Replay bridge (`replay_bridge/`) | hook and its context's ring dimension, error flag; on disk, by project directory: crypto context, ciphertexts of the inputs, templates of the outputs, probes | init (chooses the directory), hook, take error, result by name, reset | a successful flush leaves a whole project and returns results of its own epoch; a failed one is blamed on this lifetime's hooks only |
| Result extraction (`core/polynomial_io.cpp`) | a temporary file | decode a result | a value that does not decode fails the flush |
| Locks (`common/thread_safety.hpp`) | mutexes of `EpochState`, `CompilerBackend`'s init, `Config`, `DeviceAllocator` | - | no call waits for ever; what one section leaves behind serves no other thread wrong data |
| Streams, events, device, graph | handles | stubs that succeed or are unsupported | - |

**Interaction.** Everything is a call; there are no messages or background
threads. `Config::set_ring_dimension` calls the allocator under its own lock.
`hazeFree`, `hazeMemset` and H2D take the epoch's and the allocator's lock one
after the other. A computing call opens an `EpochSession`: it brings up the
backend, takes the epoch lock and starts a recording if there is none; inside,
promotion takes the allocator lock. The compiler is called from within the epoch
lock, and calls back into the bridge's hook while it stops; bridge and compiler
then share the files of the project directory, which the bridge's init and the
backend's start-up each choose, from what was configured by then. A device reset
goes through epoch, backend, allocator, config and compiler one after the other.

**Hard behaviours.** Long sequences of legal calls (recycling of addresses,
re-registration of overlapping groups, size changes with live allocations);
values cached in two places (shadow and binding); partial failure in the middle
of a flush or of a group operation; lookups that must precede stores because
operands overlap; state set on one side of a failure and drained on the other;
files that outlive the epoch, the lifetime and the process whose names they
repeat; and, if the caller does not serialise the calls as the README asks
(`README.md:675-679`), interleavings between the critical sections of a call.
`PROJECT.json` lists each at its line, with the properties that watch over it.

## 2. Modules

| Module | Models | Used by |
|---|---|---|
| `Tables` | partial functions as `std::unordered_map`: `Drop` (erase), `Put` (insert_or_assign) | all |
| `DeviceHeap` | what the allocator promises: polynomials that do not overlap, each with all of its bytes or none | `Allocator` |
| `Allocator` | `DeviceAllocator`, one action per method; implements `DeviceHeap` | `Epoch`, the proofs |
| `MrpGroups` | output bookkeeping: methods as functions from record to record, and a driver with one action per critical section | `Epoch`, the proofs |
| `Epoch` | `EpochState` over instances of `Allocator` and `MrpGroups` | `Haze`, `HazeThreads` |
| `Haze` | the C API: one action per call, with `Config` and the backend flag | `BasisConvert`, `RefusedFlush` |
| `RefusedFlush` | `Haze` with a history variable: the results that refused flushes still owe | `HazeProofs` |
| `BasisConvert` | `hazeBasisConvert`, `hazeModDown`, `hazeModUp` over `Haze` | |
| `HazeThreads` | the C API called by several threads: one action per critical section, over `Epoch` | |
| `Bridge` | the replay bridge around one flush, its files, project directories, resets and crashes | the proofs |
| `MCAllocator`, `MCMrpGroups`, `MCHaze`, `MCRefusedFlush`, `MCBasisConvert`, `MCHazeThreads`, `MCBridge` | values of the constants, views, constraints | runs |
| `AllocatorProofs`, `MrpGroupsProofs`, `BridgeProofs`, `ThreadProofs`, `SettledProofs`, `FreshnessProofs`, `HazeProofs`, `BasisConvertProofs` | theorems | |

**Correspondence.** Variables have the names of the members they stand for,
without the trailing underscore. Addresses and sizes are counted in
coefficients, the unit of `shadow_data_`. `err` is the internal code the last
call ended with. In `MrpGroups` the variable `reg` is the part of `EpochState`
that tags and groups own. An `EpochState` method is an operator from one session
state (`Here`) to the next; an operation chains them in the order of the code,
an `err` other than `"Ok"` turns the rest of the chain into a no-op as the early
returns do, and `Become` makes the outcome the step.

`DeviceHeap`'s `live`, `bytes` and `size` are the allocator's `alloc_set`,
`shadow_data` and `poly_bytes`; the pool, the bump pointer, the host pointers and
`err` are hidden. A reservation, single or of a group, is an `Acquire`, a release
a `Release`, the three kinds of write are a `Store`, the promoting read is an
`Evict`, and a refused call stutters.

In `HazeThreads` a call is a record of where its thread is in it (`at`) and its
arguments. A section that takes one mutex is one action; a mutex under which
another is wanted is a holder (`epoch_lock`, `init_lock`, `config_lock`), and the
allocator's, wanted last everywhere, is never seen held. `Starts` begins a call,
`At` continues one. A session is `FastPath` (the look at `initialized_` without a
lock), `LockInit` and `InitBackend` (the look under it), `EnterEpoch`, and a body
(`TagInput`, `Record`). A body that goes to the allocator for bytes first reads the
ring dimension under `Config`'s lock (`ReadRingDim`); between that read and the
allocator's other threads run. A flush keeps the epoch lock over one `Populate` per
output. `hazeDeviceReset` is its five resets in the order of the code. `inits`
counts the compiler's inits since its reset.

In `Bridge`, `dir` is the compiler's project directory, and `context`, `bins`,
`templates` and `probes` are what each directory holds. Names of inputs and outputs
are their indices, which restart with every epoch as the code's counters do.
Content is told apart by where it comes from: `"now"` of the epoch being recorded,
`"old"` of an earlier one, `"past"` of one before the last reset or start of the
process, `"wrong"` of a tower never filled. A replay that succeeds may leave an
output out, and a reset's wipe may leave any of the files (`Leavings`), as the code is
prepared for the one (`epoch.cpp:441-448`) and only logs the other
(`openfhe_template.cpp:577-591`).
`Records`, `Failures` and `on_post_recording` are the hook's loop; `StopFails`,
`HookFails`, `ReplayFails` and `ReadBack` the ways through
`finalize_locked` from `stop()` on; `Crash` ends the process anywhere and keeps the
files.

**Abstraction.** A recorded polynomial is its value, which replay would compute,
and the modulus bound to its node. `Eval` is an arbitrary function of the
operand values (in the runs: flip or add bits). Names `haze_out_N` and
`haze_mrp_out_N` are N. Names of inputs are left out, and with them
`input_counter_`: the code never reads them back. In `Haze` and `HazeThreads`, `BackendOutputDecodeFailed`
is merged with `BackendOutputMissing`, which ends the epoch in the same way.
Null checks and unknown copy kinds are left out where they return before any
state is touched. Lists of residues name no address twice. The asynchronous
calls are the synchronous ones. A lifted residue is `Lift` of the operand's values
and the residue's modulus; the FBC variant and centre shape that the
configuration selects (`basis_convert.cpp:37-44`) are part of `Lift`. A `ModUp`
has no failure between two digits: once the operand is found, no store can fail.
Two ghosts make freshness expressible: `truth`,
what a program that thinks of device memory as memory would find at an address
(undefined where no doc says), and `unflushed`, results not yet brought back.
`truth` is computed from what the program wrote, never from what the code did with it:
a partial write (`Overwritten`) leaves the new words before the rest of the old truth,
where the shadow held that truth, and undefined where it did not (a
result that no flush brought back, bytes never written or moved to the recording).
A change of the ring dimension leaves all of it undefined.
`RefusedFlush` adds a history of its own, `promised`: the tagged results that flushes
refused to bring back, until the program replaces them, ends the epoch
by another call or changes the ring dimension.
`HazeThreads` has single-residue calls with one operand: a call on a group takes
the same locks in the same order. Each thread passes addresses it allocated
(ghost `owned`), as the code gives no meaning to two calls on one address; the
addresses pass between the threads through free and malloc. Its ghost `overtaken`
marks a write between whose two sections a flush delivered an older result, and
`raced` a device reset that overlapped a call. `Bridge` has shapes of moduli lists,
one residue or several, which is all HAZE tags; its ghosts say whether a hook
failed in this lifetime (`hookFailed`) and which directories hold what a process that
ended without a reset, or a reset that could not wipe them, left there (`unwiped`).

**Unreachable branches.** `reserve`'s desynchronised branch and `finalize`'s
`MissingPolyMapBinding` are translated because the code has them; the properties
`NeverDesync` and `FlushResolves`, both theorems, say they are dead.

**Mutations.** Operators marked `mutation` are not part of the model. Each is a
plausible bug in the definition that follows it (a dropped guard, a missing
reset, a swapped order) and shows that some property would notice.

## 3. Runs

`tlc -config <cfg> <module>`.

| Run (cfg) | Shows |
|---|---|
| `allocator_one_size` (`MCAllocatorOneSize`) | one size of two coefficients, three polynomials of addresses, groups of two, one host pointer: `TypeOK`, `NeverDesync`, `NonOverlap`, `Accounted`, `ShadowSized`, and the refinement `ImplementsHeap`: nothing overlaps, leaks, or starts with the bytes of an earlier lifetime |
| `allocator_two_sizes` (`MCAllocatorTwoSizes`) | the size changes at any time: `NoAlias` and `ResizeKeepsLive` still hold. What rests on one size is not claimed here |
| `mrp_groups` (`MCMrpGroups`) | the bookkeeping alone, over three addresses: `TypeOK`, `Lockstep`, `OneGroupPerAddr`, `FlushResolves`, `OutputNamesUnique`, `LatestWriteWins`, `OutputTagsKept`, `ExportKept` |
| `haze_srp` (`MCHazeSrp`) | single-residue programs with every step of a flush allowed to fail: `TypeOK`, `ReadsAreCurrent`, `FreedIsForgotten`, `FlushDelivers` |
| `haze_mrp` (`MCHazeMrp`) | two-residue programs, operands that overlap and swap: `BindingsAreCurrent`, `ModuliAgree` |
| `haze_formats` (`MCRefusedFlush`) | format flags, targets, two ring dimensions, short and empty uploads, a backend that may not start, a replay that may fail: `RefusedWorkIsDelivered`, what a flush refused for its format is brought back by the next that succeeds |
| `basis_convert` (`MCBasisConvert`) | conversions whose results overlap their operands, rescales in place and over another group, lifts to two digits over the operand and over each other, and refused calls of each: `BindingsAreCurrent`, `DigitsAreGroups`, `RescaleKeepsExport` |
| `haze_threads` (`MCHazeThreads`) | two threads, one of them also resizing, switching formats and resetting: `TypeOK`, `FreedIsForgotten`, `ReadsAreCurrent`, `BindingsAreCurrent`, `FlushDelivers` wherever the other thread is; an address is one thread's until its free is over (`OneOwner`); the compiler comes up once (`BroughtUpOnce`) |
| `threads_raced` (`MCHazeThreadsRaced`) | the same calls, none of them left out after a reset that raced, the compiler failing at will: no tag stays that fails every flush (`SurvivesRaces`), whoever holds a mutex waits, if at all, for one who waits for nobody (`EveryWaitEnds`), and once no new calls are made every call returns (`CallsReturn`) |
| `bridge` (`MCBridge`) | two shapes of records, a right and a wrong ring dimension, every step failing, replays that leave outputs out, wipes that fail, resets and crashes: `ProjectIsWhole`, `ResultsAreOfThisLifetime`, `UnbridgedFlushFails`, `BlamesThisLifetime` |
| `stale_read` (`MCHazeStaleRead`), `split_project` (`MCBridgeSplit`) | violations, of `UnflushedIsRefused` and `ProjectIsWhole`: findings 1 and 2 |

**Bounds.**
- Addresses (`MaxAddr`): two or three polynomials. Two are needed for aliasing
  and recycling, three for two overlapping groups that differ on both sides.
  `MaxAddr` also stands for the end of the address space, which the code does
  not check: a call that would pass it is not taken.
- Groups (`MaxGroup`) of two, and three in `mrp_groups`, whose bases give two
  groups that differ in the moduli only and one that differs in length.
- `MaxOutputs` and `MaxGroups` bound the name counters of one epoch; clearing
  the epoch resets them, so epochs themselves are not bounded.
- `MaxInNames` in `haze_mrp` is larger than any counter TLC reaches, because the
  view `WithoutInputNames` drops `mrp_in`: nothing but the tagging of another
  MRP input reads it, and no property does.
- The view `WithoutErr` drops `err`, which no action reads. Properties that look
  at `err'` speak of one step, which TLC evaluates on every step it generates.
- `NotFrozen`, in `haze_srp`, `haze_mrp`: a configured device behaves as an
  unconfigured one for all calls but the setters, and these have a single value
  to set in those runs. `haze_formats` runs without it.
- `AnyDst = FALSE` in `haze_srp` and `haze_mrp`: operations name allocated
  destinations. The code does not check that; with `TRUE`, an address may be
  bound while free, and a later owner inherits the binding, so that
  `FreedIsForgotten` is a property of programs that keep to live destinations.
  `haze_formats` has `TRUE`.
- `basis_convert` has six addresses, since two digits under three moduli need
  six destinations, and fixes the calls and the upload (`MCBasisConvert`): over all argument
  lists the state space is out of reach, and the calls are chosen to overlap. Only
  address 1, which leads every group there, is tagged, and nothing is freed: `haze_mrp` has frees.
  `Bases` are the three that the calls store under; `AnyDst = TRUE`, as a call with a
  destination that is not allocated would otherwise never be made. `KeptBaseAssumption` compares
  the base a rescale keeps with the library's `SelectSeq`.
- Multi-residue arguments of one residue are run in `haze_srp`, groups of two in
  `haze_mrp`.

- Two threads, one address each at a time (`MaxOwned`), two addresses in all, so
  that an address freed by one thread is handed to the other. Only one of them
  configures and resets (`Managers`). Two are enough for each hazard listed: a
  pair of sections of one call, and a section of another between them.
- `OnlyResetsFollowARace`, in `haze_threads`: when a reset has raced with a
  call, of the calls of several sections that may start only resets are
  explored. The calls under way run on. The properties of `haze_threads` speak of states before a race
  or after the next reset that did not race, which leaves nothing of what came
  before. `threads_raced`, whose properties hold after a race as well, and the theorems are
  without it.
- `threads_raced` has one address, one polynomial and one output per epoch: neither waiting nor
  what a tag resolves to depends on the values, and the theorems have any number. It has
  neither view nor constraint, for the sake of `CallsReturn`.
- `Bridge` has two inputs and an output per epoch, so that a hook can fail on one
  record and write another; names
  `haze`, the default, and one other; one directory to pin; any number of epochs,
  lifetimes and crashes. The view `WithoutLast` drops how the last flush ended and what it
  read, which no action reads. `PinAnytime = FALSE` restricts configuration to the order
  that works, before the bridge's init, and `TRUE`, in `split_project`, lifts it. A flush
  that reads one of several results and misses another is in the proofs, which bound neither
  inputs nor outputs.

**Symmetry** is used in `mrp_groups` only, on the addresses: there they are model
values that nothing orders.

**Fairness.** `HazeThreads` alone assumes any: `WF(Continue(t))` for each thread,
that is, a thread inside a call runs on when it can, which is what an operating
system's scheduler gives; one outside a call need never make another. It is weak
because of a mutex no more can be assumed: a `std::mutex` may pass a waiter over
for as long as others want it. Under weak fairness a call can therefore starve
while other threads keep calling, and `CallsReturn` says what is left and what
matters: in a program of finitely many calls no call waits on a lock that was left
behind, or on a holder that waits in turn. The other specifications claim no
liveness: in them a call is a step, and what comes next is the program's choice.
Their runs, and those of the threads, check deadlock.

## 4. Findings

1. **Stale D2H** (`stale_read`). H2D to `p`, an operation in place on `p`, D2H of
   `p` without tag or flush. `store_compute_result_locked` does not touch the
   shadow, so the D2H succeeds with the uploaded bytes. `haze.h:80-81` says it
   returns `HAZE_ERROR_NOT_FLUSHED`.
2. **Split project** (`split_project`). The bridge's init writes its crypto context
   to the directory pinned so far, or to `<cwd>/haze`; the backend's start-up, at
   the first upload or operation, moves the compiler's project to the name and directory configured by
   then. `hazeSetProgramInfo("other")`, or `hazeSetProgramDirectory` between the
   two, as `haze.h:164` permits, leaves the trace in one directory and the context
   in another. `epoch.cpp:416-418` speaks of a full project directory, ready to
   ship, and `openfhe_template.cpp:526` calls the later init idempotent.

The model has, and its properties except, more of what the code does and a comment or doc
denies. Each follows from the actions named.

3. **Stale result file** (`Bridge.ReadBack`). Results are read from files named after the
   output, names restart at `haze_out_0` with every epoch, and the files are wiped by a
   device reset only. A replay that returns success without an output, which
   `epoch.cpp:441-448` is prepared for, is not noticed if an earlier epoch of the
   lifetime had an output of that number: the flush succeeds with the old value.
   `epoch.cpp:437-438` says that no stale shadow can surface as a silent wrong value.
   What does hold, and is proved, is that the value is of this lifetime
   (`ResultsAreOfThisLifetime`).
4. **Unflagged record** (`Bridge.Failures`). An input of another length than the
   bridge's ring dimension is logged and left at zero (`openfhe_template.cpp:184`), and the
   flush succeeds; lines 82-83 call the flag one for any per-record failure.
5. **Compute without a backend** (`Haze.Recorded`). Where the backend does not start,
   `epoch.cpp:53` skips the recording, and the operation binds its result and
   succeeds; `backend.hpp:36-40` says that it fails.
6. **Untagged flush** (`Epoch.finalize`). A flush before any tag clears the epoch
   (`epoch.cpp:374`): recorded results are gone and cannot be tagged any more.
   `haze.h:144-145` calls such a flush a no-op.
7. **Untagged residue** (`Epoch.tag_h2d_input`, `MrpGroups.register_mrp_output_group`). An upload
   to a residue of a tagged group takes its tag. When the group is computed again its
   registration is identical and returns (`epoch.cpp:254`) before the loop that tags members,
   so the flush never populates that residue, which keeps the uploaded bytes; lines 292-294
   say that every member carries a tag for just that.
8. **Resized shadow** (`Allocator.set_polynomial_size`). `hazeSetRingDimension` with a live upload
   leaves a shadow of another size than `allocator.cpp:219-221` says every
   shadow has (`ShadowSized` holds of one size only), and the promotion that discovers it has
   already erased the data.
9. **Two reads of one size** (`HazeThreads.ReadRingDim`). `epoch.cpp:107-108` and `209-215` read the
   ring dimension under `Config`'s lock and then go to the allocator under its own; a
   `set_ring_dimension` of another thread fits between, although `config.cpp:44-46` holds
   its lock across both so that no observer sees one new and one old. `TypeOK` has the half
   that holds.

Other behaviour that the model reproduces, that no doc settles and no property claims away:

- An upload or memset whose two sections (`memory.cpp:134`, `memory.cpp:177`) have a flush of
  another thread between them may be replaced by the older result it delivers.
- A device reset that races with other calls may leave `initialized_` set over a
  compiler that was reset, and a free that passed its first section before the reset may
  pool, after it, an address that has been handed out again, so that the address gets two owners;
  until a reset that runs alone.
- Files left by a process that ended without a reset, or by a wipe that failed, are
  replayed by a flush that has no hook, and read for an output that replay leaves out;
  the properties of `Bridge` except such directories (`unwiped`). A bridge initialised in a
  second directory leaves the first one unwiped.
- A partial write over a result that no flush brought back, or over bytes that were moved to the
  recording, starts from what the shadow happens to hold: old bytes, or zeros.

## 5. Theorems

For every value of the constants under their assumptions, which are: 0 is a word,
sizes and the first address are positive, a group has at least one member
(`Allocator`); a base is a sequence of at least two moduli, as no shorter group is
registered, `mrp_polymap.cpp:70` (`MrpGroups`); an operation on one or two
polynomials gives a polynomial, and a base is a sequence of moduli, not empty,
`compute.cpp:120` (`Epoch`); uploads are sequences of words and operations have one
or two operands (`Haze`); the polynomial a thread uploads has one of the sizes, managers are
threads, and the placeholder for "no thread" is not one (`HazeThreads`); the default
name is a name, no name or directory is the placeholder for none, and ring
dimensions differ from the placeholder for no hook (`Bridge`). Of a conversion that passes
validation: an address for each residue of the operand and of the result, those of a result (of
a digit) different, digits of the operand's moduli, the bases it stores under among
`Bases`, and a lift of polynomials is a polynomial (`BasisConvert`).

| Module, theorem | Statement |
|---|---|
| `AllocatorProofs`: `TypeCorrect` | `Spec => []TypeOK`: types, and shadows for live addresses only |
| `OneOwner` | `Spec => []NoAlias` |
| `DesyncUnreachable` | `Spec => []NeverDesync` |
| `ResizeIsHarmless` | `Spec => ResizeKeepsLive` |
| `DisjointAllocations` | one size in use: `Spec => []NonOverlap` |
| `AllocatorIsHeap` | one size in use: `Spec => ImplementsHeap`, the refinement of `DeviceHeap` |
| `ShadowsAreWhole` | one size in use: `Spec => []ShadowSized` |
| `NothingLeaks` | one size in use: `Spec => []Accounted` |
| `MrpGroupsProofs`: `TypeCorrect`, `ExactIndex`, `GroupsDisjoint`, `TagsResolve`, `NamesUnique`, `LatestStoreWins` | `Spec => []P` for `TypeOK`, `Lockstep`, `OneGroupPerAddr`, `FlushResolves`, `OutputNamesUnique`, `LatestWriteWins` |
| `TagsOutlive`, `ExportOutlives` | `Spec => OutputTagsKept`, `Spec => ExportKept` |
| `BridgeProofs`: `BlameIsJust` | `Spec => BlamesThisLifetime`, in any order of configuration and init |
| `WholeProject`, `ResultsAreOwn`, `UnbridgedFails` | configured before the bridge's init (`~PinAnytime`): `Spec => ProjectIsWhole`, `ResultsAreOfThisLifetime`, `UnbridgedFlushFails` |
| `ThreadProofs`: `RacesSurvived`, `NoCircularWait` | `Spec => []SurvivesRaces`, `[]EveryWaitEnds`, any number of threads and addresses, reset included |
| `SettledProofs`: `BackendBroughtUpOnce`, `FreedIsForgottenByAll`, `AddressesHaveOneOwner`, `SizesAgreeAndTypes` | `Spec => []P` for `BroughtUpOnce`, `FreedIsForgotten`, `OneOwner`, `TypeOK` |
| `FreshnessProofs`: `ReadsAreCurrentForAll`, `BindingsAreCurrentForAll`, `FlushDeliversToAll` | one size in use: `Spec => []ReadsAreCurrent`, `[]BindingsAreCurrent`, `FlushDelivers` |
| `HazeProofs`: `HazeTypes`, `ModuliAgreeForAll` | `Spec => []TypeOK`, `[]ModuliAgree` |
| `FreedIsForgottenInHaze` | destinations are live (`AnyDst = FALSE`): `Spec => []FreedIsForgotten` |
| `ReadsAreCurrentInHaze`, `BindingsAreCurrentInHaze`, `FlushDeliversInHaze` | one size in use: `Spec => []ReadsAreCurrent`, `[]BindingsAreCurrent`, `FlushDelivers` |
| `RefusedWorkIsDeliveredInHaze` | one size in use: `RSpec => RefusedWorkIsDelivered` |
| `BasisConvertProofs`: `DigitsAreGroupsForAll`, `RescaleKeepsExportForAll` | `FullSpec => []DigitsAreGroups`, `[]RescaleKeepsExport` |
| `ReadsAreCurrentWithConversions`, `BindingsAreCurrentWithConversions`, `FlushDeliversWithConversions`, `TypesAndModuliWithConversions`, `FreedIsForgottenWithConversions` | the theorems of `Haze` for `FullSpec`, with the same assumptions |
| `ConversionPrograms` | `ConvertSpec => FullSpec`: they hold of the programs that `basis_convert` runs |

*Allocator.* `Inv == TypeOK /\ NoAlias` is inductive. `NoAlias` has three parts,
none inductive alone: no pooled address is live, the pool holds no address
twice, and both lie below the bump pointer. A recycled address is not live by
the first and not recycled twice in one call by the second; a fresh one is new
by the third. Conversely a freed address was live, so by the first part it was
not yet pooled. `ReserveStep` and `ReleaseStep` are these two arguments;
`NextInv` has one case per method. `NeverDesync` follows because under `Inv` the
set `Desynced(n)` is empty. The other results use `KindsOfStep`: a step
reserves, changes the size, resets, or moves addresses between the live set and the
pool. `DisjointAllocations` needs a further invariant, `Tiled`: the known
addresses, pooled ones included, are pairwise a polynomial apart and end below the
bump pointer. It is not inductive when the size changes, whence the assumption
`PolySizes = {size}`.

*Heap.* `HeapStep` maps each method to an action of `DeviceHeap` or a stutter:
`Tiled'` makes a reservation an `Acquire`, `TypeOK` (shadows of live addresses
only) says that what it grants has no bytes, and `WholePolynomial` that a write,
of whatever length over whatever was there, leaves a whole polynomial. That
shadows have the current size is then a fact about the abstract heap
(`SizedStep`). `NothingLeaks` has its own invariant, `Covered`: the fresh
addresses of a reservation fill the space between the old bump pointer and the new
(`InSomePolynomial`, by division), and what leaves the pool becomes live.

*Groups.* `Inv` says that the record is `Good` (types of the groups; the reverse
index exact, with every member of a group known to it; tags named by distinct
counters below the next one; group names below theirs), that what is tagged is
bound, and that bindings are of addresses. `Lockstep` and `OneGroupPerAddr` are
only inductive together: a registration evicts the groups its addresses claim,
and it finds them all because the index is exact, while the index stays exact
because each group evicted is scrubbed from every member (`ScrubStep`,
`EvictStep`). The residues of a tagged group are named by rank among those not yet
named (`RankStep`), so their names are distinct and above the earlier ones. One
lemma for each operation (`InvalidateStep`, `ReplaceStep`, `RegisterStep`,
`TagStep`, ...) says what it does to a good record; the theorems on tags and
exports that outlive a step read them off.

*Bridge.* `FlagIsExplained` (the flag is up only if a hook of this lifetime failed)
is inductive alone. The others rest on `IInv`: while there is a hook, the
compiler's directory is the one its init chose and wrote the context to
(`Anchored`); a directory that holds templates or probes is that one, or one that a process that
died or a wipe that failed left them in, and only there is anything of an earlier lifetime
(`Contained`). Under it a flush writes every record of this epoch where the
replay reads it, and what the replay writes overwrites what is older; what it does not
write is, where the wipe succeeded, of this lifetime.
`~PinAnytime` cannot be dropped: `split_project` is its counterexample.

*Threads: `Core`.* `SurvivesRaces` speaks of what one thread finds when it runs
between the others' sections, resets included, and is far from inductive. `Core`
is: a mutex has the holder whose call is inside its section, and no other call is
(this is what lets one section be treated as one step); a call in progress has the
operands and the place its entry point gives it; the allocator is well typed and
aliases nothing; the registry is `Good` (of `MrpGroupsProofs`, cited with
`Addrs <- DevAddrs`) and resolves to bound addresses; a flush between its sections
still holds the outputs it is to deliver. The step lemmas of the two earlier modules
are reused by instance: `ThreadProofs` proves only what a section does with them. `NoCircularWait` is the
first part of `Core` read alone: who holds the epoch's or the init mutex is at a section that wants
Config's at most, and who holds Config's wants only the allocator's. It is the safety half of
`CallsReturn`, for any number of threads: a waiting call waits for one that can go on.

*Threads: `CalmInv`.* What a reset tears down in three sections is not consistent
between them, so the remaining properties hold under `Settled` only (no reset
is under way, and none raced a call since the last that did not). `CalmInv` adds to `Core` how far a running reset has
come (`ResetInv`: what it has cleared stays clear until its end, because no other
call runs), and, while settled: the size of the config is the allocator's
(`SizesAgree`: its setter holds both mutexes), at most one bring-up happened per
lifetime (`BackendOnce`), an address is one thread's, and live, until the second section of its free
(`Ownership`, whence `AddressesHaveOneOwner`), and what the epoch knows of an address has a live owner or a call in
progress that explains it (`Traces`, whence `Forgotten`).

*Threads: `FreshInv`.* An upload writes the shadow in one section and the binding in
the next; in between the two disagree. `FreshInv` adds to `CalmInv` that only
the call in between may see this (`Between`), and, for the other addresses, that
binding and shadow hold `truth`, that what is unflushed is bound, and that a
delivered output is in its shadow (`Current`). It is proved for one polynomial
size: a flush cuts or pads a result to the current size
(`allocator.cpp:323-335`) and a shorter upload is laid over older words, so with
two sizes the truth of a polynomial is not what its program wrote.

*The C API.* A call of `Haze` chains methods of `Epoch`, each a function from a
session state to the next, so `HazeProofs` states what a method keeps of a
session state and has one lemma per method (`LookupStep`, `BuildStep`, `CopiesStep`,
...), for lists of addresses of any length. `Sound` has four parts: types (`Typed`);
all the epoch keeps of an address it keeps of a bound one, and, where destinations must be
live, bound addresses are live (`Rooted`); the registry is `Good`, as in
`MrpGroupsProofs`, and refers to bound addresses (`Booked`); a result's node carries its
recorded modulus (`Moduled`). None can be left out: `Moduled` survives a new
result because the modulus recorded for the old one is replaced with it, and
`FreedIsForgotten` is `Rooted` and `Booked` read backwards from an
address that is not live. `Current` says that binding and shadow hold `truth`, the shadow
unless a result is still out, and that what is out is bound: a look-up that
takes the bytes of a shadow and binds them therefore keeps it, also when it fails halfway.

Between calls the invariant is `Inv`: the allocator's (`MemInv`, whose
steps are those of `AllocatorProofs`, cited by instance), shadows that are
polynomials, and `Sound(Here)` under a typed `conf` whose ring dimension is the
allocator's size. `AllCurrent` is inductive under it for one polynomial size: a
flush cuts or pads what it brings back to the size in force (`allocator.cpp:323-335`).
`FlushDelivers` follows because a flush reads results back by output name and
names are distinct: what comes back for an address is what it was bound to
(`Delivers`), and that is its `truth`. The copies of a group run in order and may
overlap; `CopiesStep` is an induction on their number, over the recursive functions
`copies` and `CopiedTruth`, which the invariant relates step by step.

`RefusedWorkIsDelivered` needs a third invariant, `Owing`: what is promised is recorded, tagged,
not yet brought back, and has as its `truth` the value promised. Only the tag is not in the
ghosts' hands. `TagsStay` says that a step which goes on recording takes no tag of a result it
does not replace, with one lemma per method (`LookupKeeps`, `StoreKeeps`, `CopiesKeep`, ...) and
one per call; what an upload, a memset or a free untags, it has also replaced. The flush that
succeeds then brings back all that is tagged, by the argument of `FlushDelivers`.

*Conversions.* `FullSpec` is `Haze` with the conversions among its calls, any of them between any
others. A conversion adds nothing to the invariant: it is a look-up (`BuildStep`), a lift, and
stores of groups (`StoreLiftedStep`), and `Inv` and `AllCurrent` go through each. What is
new is a `ModUp`, whose digits are stored over its operand and, where the caller says so, over each
other. `DigitsStep` is an induction on the number of digits stored: the values lifted are those
looked up before the first (`Hold`), whatever has been overwritten since, and what the program then
finds at an address is the last digit stored there (`Tells`, `LastAt`). For disjoint destinations it
also carries the groups along: each digit makes its group (`GroupMade`, from what
`MrpGroupsProofs` says a registration stores) and leaves those that share no address with it
(`GroupStays`). `RescaleHolds` reads a rescale in place off the same two facts: the group it
finds under the leading address differs, being longer (`KeptIsShorter`), so it is replaced and not
merely found identical, and stays exported; a residue it drops was in that group alone, and that
group has it no more.

*Found by proving.* `FlushDelivers` of `Haze` was first bracketed so that a flush
that left a tagged address without a shadow satisfied it. TLC and the mutants
had not shown it; the attempt to prove it did. The property is now the one meant, and
both the run and the proof hold of it.

*Model-checked only.* `CallsReturn` of `HazeThreads`: liveness is out of the prover's reach, beyond
what `NoCircularWait` says of it. `RefusedWorkIsDelivered` with two polynomial sizes: the theorem
has one. The violations are TLC's counterexamples. Every other property of a run is a theorem.
That `kept_base` is what a filter gives is checked on the calls of `basis_convert` only, as
the provers know nothing of `SelectSeq`. No module uses `RECURSIVE`.

## 6. Not modelled

The last error: every call writes the thread-local, a success included, and no
call reads it (`errors.hpp:21`); its codes are a table. Twiddle generators
and `reduced_noise`, which are only stored and passed on;
`pointer_attributes`, which only reads; streams, events, graph and device queries,
which are stubs; logging; the JSON and temporary file of the result decoder,
beyond its failure. The compiler and OpenFHE are external: their failures are
nondeterministic outcomes, and what a second MRP input under one leading address
means to the compiler (`epoch.cpp:230`, a limitation `epoch.hpp:130-133` names)
is outside this repository. The crypto itself, and array shapes in the bridge, which HAZE never
tags, are left out.

## 7. Plan

1. *Done.* `Allocator`, `MrpGroups`, `Epoch`/`Haze`, `BasisConvert`, `HazeThreads`
   with its liveness, `Bridge`, `DeviceHeap` and its refinement; all properties of
   `Allocator`, `MrpGroups` and `Bridge` proved.
2. Left out: a specification of device memory with deferred results, refined by `Haze`. Its state
   would be the ghosts `truth` and `unflushed` and its steps what the calls do to
   them, so that the refinement would hold by the ghosts' definition; what ties them to the
   tables is `ReadsAreCurrent`, `BindingsAreCurrent` and `FlushDelivers`, which are theorems.
3. *Done.* Proofs for the threads: every safety and action property of `HazeThreads`.
4. *Done.* Proofs for the C API: every safety and action property of `Haze` that holds.
5. *Done.* The same for `BasisConvert`, in programs of all calls of the API.
6. *Done.* A proof of `RefusedWorkIsDelivered`, for one polynomial size.
