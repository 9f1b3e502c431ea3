# TLA+ models of xenia's module preparation, virtual file system and GL blitter

This directory holds TLA+ specifications of the C++ sources under `src/src/`. TLC
model-checks them on small instances. For every value of the constants,
TLAPS proves the main safety invariants of the CPU module pipeline, that
pipeline's refinement of an abstract lifecycle, and what the GL blitter's
save and restore keep.

## 1. The system

| Part | Source | State | Operations |
|---|---|---|---|
| `xe::cpu::ExecModule` | `cpu/exec_module.cc` | `sdb_`, `gen_module_`, `codegen_`, guest memory at import slots | constructor, `PrepareUserModule`, `PrepareRawBinary`, `Prepare` (private), `InjectGlobals`, `Init`, `Uninit`, destructor, `AddFunctionsToMap`, `Dump` |
| trampolines | `cpu/exec_module.cc` 237-290 | none | `XeTrap`, `XeIndirectBranch`, `XeInvalidInstruction`, `XeTrace*` |
| `xe::kernel::fs::FileSystem` | `xenia/kernel/fs/filesystem.cc` | `devices_` (vector), `symlinks_` (map) | `InferType`, `InitializeFromPath`, `Register*Device`, `CreateSymbolicLink`, `DeleteSymbolicLink`, `ResolvePath`, `Open`, destructor |
| `gl4::Blitter` | `xenia/gpu/gl4/blitter.cc` | GL context state saved by `SavedState` | `BlitTexture2D`, `CopyColorTexture2D`, `CopyDepthTexture`, `Draw` |
| headers | `xboxkrnl_threading.h`, `xam_module.h`, `xinput_input_driver.h` | declarations only | none |

### How the parts interact

An `ExecModule` is built for one guest executable. `PrepareUserModule` and
`PrepareRawBinary` each install a new symbol database in `sdb_`, then run the
shared `Prepare()` pipeline.

The pipeline's first part runs only while `gen_module_` is null. It loads the
runtime bitcode, analyses the database, creates the module, injects globals
and trampolines, links the runtime, and generates code. The rest runs on every
call: materialise, pass manager with the final verifier, optional dumps,
`Init()` and the JIT loop.

`Init()` binds each kernel-import variable by writing the export's value,
byte-swapped for the big-endian guest, into guest memory. It then calls the
guest's `xe_module_init`. The destructor calls `Uninit()`, which runs
`xe_module_uninit`, then removes the module from the shared engine.

The `FileSystem` is the kernel's mount table. `InitializeFromPath` registers
one device for the game container and links `game:` and `d:` to it.
`ResolvePath` rewrites a guest path's drive through the links, then hands the
rest to the first device whose path is a prefix.

The GL4 `Blitter` shares the renderer's GL context. Each blit saves part of
the context's state in a `SavedState`, sets up its own pipeline, draws a
quad through `Draw()`, and restores what it saved. The renderer's other GL
calls, in the command processor (not in this repository), happen between
blits on the same thread.

### Hard behaviours present in the code

- **Repeated calls and partial failure.** A `Prepare*` call can fail at
  any `XEEXPECT*` check. The object keeps what was built so far, and the next
  call's cache test (`if (!gen_module_.get())`) decides what is redone.
- **Unchecked results.** `LinkModules` (line 159) and the map dump are not
  tested. The entry-point lookups (410, 419) are not null-checked.
- **Stale pointers.** `codegen_` holds `sdb_.get()` across a later call that
  replaces `sdb_`.
- **Byte order.** `XESWAP32BE` on a little-endian host, with the guest
  reading big-endian.
- **Insert without overwrite, unordered iteration, first match.** These
  happen in the file system's link and device tables.
- **Raw owning pointers.** `devices_` holds `Device*` values that the
  destructor deletes and `ResolvePath` dereferences.
- **Boundary values.** `std::wstring::npos` in `InferType`.
- **Save and restore that do not match.** `Draw()` changes GL state that
  `SavedState` does not save: every viewport index, and unit 0's texture when
  another unit is active. The sampler query is an indexed query of a
  non-indexed state.

Nothing in these sources starts a thread or takes a lock. Each public method
runs to completion on its caller's thread, so each is one atomic action, and
`Prepare()` is a sequence of steps of one process.

## 2. Modules

| Module | Models | Used by |
|---|---|---|
| `ExecModule` | one `ExecModule` object: every step of `Prepare()` and its early exits, `Init()`, `Uninit()`, the destructor | `MC_ExecModule`, `ExecModule_proofs` |
| `MC_ExecModule` | a model: four variable symbols (no export, a function export, an implemented and an unimplemented variable export) | runs `exec_*` |
| `PrepareLifecycle` | what a `Prepare*` call promises its caller: build only without a module, generate once, run, return or crash | instantiated by `ExecModule` |
| `ExecModule_proofs` | TLAPS proofs about `ExecModule` | `tlapm` |
| `FileSystem` | `devices_`, `symlinks_`, every mutating method, `ResolvePath` as the operator `Resolve` | `MC_FileSystem`, `FileSystem_proofs` |
| `FileSystem_proofs` | TLAPS proofs about `FileSystem` | `tlapm` |
| `MC_FileSystem` | link names `game:`, `d:` and `GAME:` (case-equal to `game:`); device paths `\Device\Cdrom0` and `\Device\Harddisk1\Partition0` | runs `fs_*` |
| `FsPath` | `FileSystem::InferType` as a pure operator over character sequences, and a reference decision | runs `infer_*`, `FsPath_proofs` |
| `FsPath_proofs` | TLAPS proof about `InferType` | `tlapm` |
| `Blitter` | the GL context state `SavedState` touches, `Save`, `Restore`, `Draw`, the three blits, and the renderer's GL calls | runs `blit_*`, `Blitter_proofs` |
| `Blitter_proofs` | TLAPS proofs about `Blitter` | `tlapm` |

### ExecModule: how state and actions correspond to the code

- **State.**
  - `pc` is the point the caller's thread has reached in `Prepare()`. `idle`
    is between calls, `destroyed` is after the destructor, and `crashed` is
    the process dying on a null `Function*`.
  - `sdb` numbers the database the n-th `Prepare*` call created. `codegen`
    is the number of the database `codegen_` was built over.
  - `genModule` is `gen_module_ != null`, and `content` is what the module
    holds (`memory_base`, `trampolines`, `runtime`, `code`).
  - `entries` are the guest entry points the generator emitted, and `verified`
    says the verifier pass ran after the module's last change.
  - `mem[v]` is the guest-memory bytes of variable `v`'s import slot. A slot
    is `Unwritten` until `Init()` writes it.
  - `status` is the last call's result code.
  - `generateRuns` is history: how often `Generate()` was called.
- **Actions.**
  - `PrepareUserModule` and `PrepareRawBinary` replace `sdb_`, then branch on
    the cache test (`StartPrepare`).
  - `LoadRuntime`, `Analyze`, `CreateModule`, `InjectGlobals`, `LinkRuntime`,
    `Generate` and `DumpPreopt` are the generation block.
  - `Materialize`, `Optimize`, `DumpPostopt`, `ExecInit` (all of `Init()`)
    and `ForceJit` follow.
  - `Destroy` is the destructor, with `Uninit()`.
  - Each `XEEXPECT*` failure is a disjunct that returns 1 through `Return`.
- **Collaborators.** The code of the symbol database, the bitcode reader, the
  linker, the module generator, the pass manager and the guest's
  `xe_module_init` is not in this repository. Each is modelled by the outcomes
  its result can have where the code tests it.
  - A database's variables are empty until `Analyze()` succeeds on it.
  - `Generate()` may leave any set of entry points emitted, whether it
    succeeds or fails.
- **Data.** The import value is a 4-byte word, most significant byte first.
  - `Swap32` and `XESWAP32BE` are the byte swap.
  - `HostBytes` is how the host stores a `uint32_t`.
  - `GuestLoad32` is the guest's big-endian load, modelled from spec §8.2
    because the guest's memory semantics are not code of this repository.

### PrepareLifecycle and the refinement

`PrepareLifecycle` has four variables:
- `phase`: idle, build, run, destroyed or crashed;
- `built`: whether a module exists;
- `generated`: whether the generator has run;
- `status`: the last result code.

Its actions are `Call`, `Build`, `Generate`, `StartRun`, `Fail`, `Succeed`,
`Crash` and `Destroy`. `ExecModule` instantiates it as `Lifecycle` under this
mapping:
- `LifecyclePhase` maps the generation block's `pc` values to `build`, the
  steps from `Materialize` to `ForceJit` (`RunSteps`) to `run`, and every
  other value to itself;
- `built` is `genModule`;
- `generated` is `generateRuns > 0`.

The property `LifecycleRefined == Lifecycle!Spec` says that every behaviour
of the pipeline is one of the lifecycle's. Each step of `Prepare()` is
either an abstract step or a stutter:
- `CreateModule` is `Build`.
- `Generate` is `Generate`.
- `DumpPreopt` is `StartRun` when it goes on to `materialize`, and `Fail`
  when it returns 1.
- Every `XEEXPECT*` failure is `Fail`.
- `ForceJit` is `Succeed`.
- `ExecInit` on a null entry point is `Crash`.
- The destructor is `Destroy`, or `Crash` when `Uninit()` hits a null entry
  point.

### FileSystem

- **State.**
  - `devices` is `devices_` in registration order, as records of path and
    allocation number.
  - `symlinks` is the map.
  - `allocated` and `freed` count the `Device` objects created with `new`
    and the ones deleted.
  - `alive` is false after the destructor.
  - `mounted` is the device the last successful `InitializeFromPath`
    registered.
- **Resolution.**
  - A guest path is abstracted to its drive, and `Root` stands for a path
    starting with `\`, which `ResolvePath` makes relative to `game:`.
  - Link matching is a case-insensitive prefix test, modelled by the constant
    `CaseFold`.
  - The iteration order of the map is unspecified, so `Resolve(d)` is the
    set of devices a call may return, 0 standing for `nullptr`.
  - The device paths used are not prefixes of one another, so a device
    matches a link's target exactly when its path is that target.

### Ownership of the devices

`devices_` holds raw `Device*` pointers. The destructor deletes every one of
them (lines 27-30), and `ResolvePath` hands paths to the same objects
(line 178). `DevicesOwnedOnce` states what makes both safe:
- no device object occurs twice in `devices_`, so none is deleted twice;
- no device in `devices_` has been deleted, so `ResolvePath` never reaches a
  freed one.

Only the three `Register*` methods call `RegisterDevice`, and each passes an
object it has just allocated with `new`. The model numbers each object by
its allocation (`NextId`).

### Blitter

- **State.**
  - `gl` is the GL context as a record. It has the fourteen single-valued
    settings `SavedState` saves (`Dom` gives each its values), the active
    texture unit, and per-unit 2D texture and sampler bindings. It also has
    the viewport array, indexed by `Viewports`.
  - A value is a name: `app_...` for what the renderer set, and the
    blitter's objects (`color_pipeline`, `blit_vao`, `nearest_sampler`,
    `scratch`, ...) by their own names.
  - `scratch` is the scratch framebuffer's attachments and draw buffer.
  - `calls` counts the renderer's GL calls, bounded by `MaxAppCalls`.
- **Actions.**
  - Each blit is one action, since it runs to completion on the GL thread.
    It leaves `Restore(Draw(setup(gl), filter), Save(gl, s0))`:
    `ColorSetup` or `DepthSetup` first, plus the scratch framebuffer for the
    copies.
  - `Draw` sets the fixed raster state and binds the source texture and the
    filter's sampler to unit 0. Its `glViewport` sets every viewport index.
  - `Save` reads the active unit's 2D texture and viewport 0.
  - `Restore` writes those back, and binds `sampler_0` to unit 0 when it is
    a sampler name.
  - `SamplerQuery` is every value `sampler_0` can hold. The indexed query of
    the non-indexed `GL_SAMPLER_BINDING` raises `GL_INVALID_ENUM` and leaves
    the variable uninitialized, so the model chooses any value.
  - The `App*` actions are the renderer's calls between blits:
    `glEnable`/`glDisable` and the like on one setting, `glActiveTexture`,
    `glBindTexture`, `glBindSampler` and `glViewportIndexedf`.

## 3. Runs

| Run | Result | What it shows |
|---|---|---|
| `exec_safety` | pass | `TypeOK`; `GenerateOnce`: the generator runs at most once over any sequence of calls, failed ones included; `ImportSlotsCorrect`: every written slot holds the export value (or 0xDEADBEEF) in guest byte order; `VerifiedBeforeRun`: `xe_module_init` and the JIT only run on a verified module; `LifecycleRefined`: the pipeline implements `PrepareLifecycle`; `PrepareReturns`: under weak fairness of the `Prepare()` steps, each call returns or the process crashes. |
| `exec_linked` | violation | a call returns 0 after the runtime link failed (spec §7). |
| `exec_generated` | violation | a retry after a failed `Generate()` returns 0 over a half-generated module, skipping the rest of generation (spec §5). |
| `exec_entry` | violation | a module without `xe_module_init` or `xe_module_uninit` crashes (spec §8.6). |
| `exec_dbalive` | violation | `codegen_` keeps a pointer to a released database. |
| `fs_safety` | pass | `TypeOK`; `DevicesOwnedOnce`: over successful and failed registrations, mounts of every type, link calls and the destructor, the devices in `devices_` are distinct objects and none of them has been deleted. |
| `fs_mount` | violation | after `InitializeFromPath`, `game:` may resolve to an older device. |
| `fs_leak` | violation | a container whose `Init()` fails is leaked. |
| `infer_dir` | pass | `InferType` is right on every path with a directory part. |
| `infer_bare` | violation | every bare file name is taken for an STFS container. |
| `blit_confined` | pass | `TypeOK`; `BlitConfined`: a blit puts back every single-valued setting, the active unit, the active unit's texture and viewport 0. It leaves the other units' bindings alone. Only unit 0's bindings and the other viewports may change. |
| `blit_preserves` | violation | a blit does not leave the GL state as it found it: viewport 1, unit 0's texture or unit 0's sampler can change. |

Each violation is listed with its explanation under `findings` in
`PROJECT.json`. Each property of a passing run has a mutant there: a plausible
bug in a mapped definition that TLC finds violating it.

### Bounds

- **ExecModule runs.**
  - `MaxCalls = 3`. The interesting sequences need two or three calls: one
    that fails after `CreateModule`, then a retry, then another retry that
    sees the re-prepared state.
  - Both flags range over both values in `Init`.
  - Four variable symbols cover the four branches of `Init()`'s loop.
  - `HostLittleEndian = TRUE` is the host xenia runs on. The proofs cover
    both host byte orders.
  - The run has 9056 distinct states. It checks the safety properties, the
    refinement and `PrepareReturns` under `FairSpec`.
- **FileSystem runs.**
  - `MaxDevices = 3` allows a mount, a remount or a kernel registration, and
    a failing container.
  - Three link names include one case variant.
  - The run has 2948 distinct states.
- **FsPath runs.** Every path of up to 5 characters over `a x e . /`
  (3906 paths). This includes `a.xex`, `/.xex`, `.x/a` and names with dots
  in directories.
  - `Npos` is `2^31-1` in the model. The code only uses it as a value above
    every index, and TLC's integers cannot hold `2^64-1`.

- **Blitter runs.**
  - There are two texture units and two viewport indices. This is the
    least that tells unit 0 and index 0 from the others.
  - `MaxAppCalls = 3` lets the renderer switch the active unit, bind a
    texture there and change a setting before a blit.
  - Every blit can follow every such state, with all three filters and
    every value of `sampler_0`.
  - The run has 17570 distinct states.

### Fairness

`PrepareReturns` assumes `WF_vars(PrepareStep)`. `Prepare()` runs on its
caller's thread and never blocks or waits, so once a call has started, its
next step stays enabled until taken. No fairness is assumed for the public
calls, since a caller may stop calling.

### Deadlock

The `exec_*` and `fs_*` runs set `CHECK_DEADLOCK FALSE`. The `blit_*` runs
check for deadlock, since a blit is always possible. An object's life ends
in its destructor (or, for `ExecModule`, in a crash on a null `Function*`),
after which no operation is possible.

## 4. Proofs

`ExecModule_proofs.tla` is checked by `tlapm` and holds these results:

- **`TypeCorrect`: `Spec => []TypeOK`.** The step lemmas are split into
  `TypeBoolStep` (the Boolean state, by Zenon) and `TypeDataStep` (the rest,
  one step per action, by SMT).
- **`GenerateOnceHolds`: `Spec => []GenerateOnce`.** `GenerateOnce` is not
  inductive: a state at `generate` with one run already behind it would break
  it. The strengthening `GenInv` (in `ExecModule.tla`) says:
  - with no module there was no generator run;
  - the steps before `CreateModule` run only while no module exists;
  - the steps between `CreateModule` and `Generate` run only before the first
    generator run.

  TLC checks `GenInv` on the `exec_safety` instance. The proof shows `Init`
  implies it and every step keeps it.
- **`VerifiedBeforeRunHolds`: `Spec => []VerifiedBeforeRun`.** It uses the
  strengthening `VerInv`: the module is verified from the pass manager's run
  (`dump_postopt`) to the end of the call.
- **`LifecycleRefinedHolds`: `Spec => LifecycleRefined`.**
  - `Init` maps to the lifecycle's initial state.
  - The lemma `LifecycleStep` shows that, under `TypeOK` and `GenInv`,
    every step of `Next` maps to a step of `Lifecycle!Next` or leaves the
    mapped variables unchanged. It has one case per group of actions.
  - `GenInv` is needed here as well. `Generate` may only be an abstract
    `Generate` if no generator run came before. `DumpPreopt` may only be an
    abstract `StartRun` if `Generate` ran.
  - To carry the second fact, `GenInv` also says that at `dump_preopt`
    exactly one generator run happened.
  - The lemma `GenInvHolds` gives `Spec => []GenInv`, and PTL combines the
    two.
- **`ImportSlotsCorrectHolds`: `Spec => []ImportSlotsCorrect`.** It rests on
  two lemmas:
  - `SwapRoundTrip`: storing `XESWAP32BE(w)` on either host and loading it
    big-endian gives `w` back;
  - `ImportSlotValue`: the word `Init()` writes reads back as the export's
    value.

  The invariant is inductive given `TypeOK`.

The assumptions are `ConstantsAssumption` in `ExecModule.tla`. The exports'
kinds and values are functions of the right types, the marker `Unwritten` is
not a word, and `MaxCalls` is a natural number. TLC evaluates them in every
`exec_*` run.

`Blitter_proofs.tla` proves two results for every set of texture units and
viewport indices:
- **`TypeCorrect`: `Spec => []TypeOK`.**
- **`BlitConfinedHolds`: `Spec => BlitConfined`.**

Both rest on the lemma `SaveRestore`. For any well-typed state `g`, any
setup `h` that keeps the active unit and the bindings (`SetupKeeps`), any
filter and any value of `sampler_0`, `Restore(Draw(h), Save(g))` has these
properties:
- it is well typed;
- it agrees with `g` on every saved setting and the active unit;
- it agrees with `g` on viewport 0 and on the bindings of units other than 0;
- when unit 0 is active, it agrees with `g` on unit 0's texture.

`BlitIsResult` shows that each of the three blits is such a result. The
assumption `BlitterAssumption` is that unit 0 and index 0 exist and that
`MaxAppCalls` is a natural number.

`FileSystem_proofs.tla` proves two results for every set of link names
and device paths and every `MaxDevices`:
- **`TypeCorrect`.**
- **`DevicesOwnedOnceHolds`: `Spec => []DevicesOwnedOnce`.** The property
  is not inductive as it stands. A push-back keeps the devices distinct only
  because the new id is above every registered one. The destructor is safe
  only because nothing is freed before it runs and it empties `devices_`.
  The inductive invariant `IInv` is therefore `TypeOK`, `OwnedInv` and the
  distinctness conjunct. `OwnedInv` is defined in `FileSystem.tla` and says
  three things:
  - `IdsBelow`: every registered id is at most `allocated`;
  - `alive => freed = {}`;
  - `~alive => devices = <<>>`.

  TLC checked `OwnedInv` on the `fs_safety` instance before the proof.
  `NewDeviceOwned` shows that a registration with id `allocated + 1`
  preserves `IdsBelow` and distinctness. `OwnedStep` has one case per
  operation.

`FsPath_proofs.tla` proves **`InferTypeWithDirectoryHolds`:
`Spec => []InferTypeWithDirectory`** for every alphabet, every separator
other than `.`, and every bound on the length.
- **Positions.** `find_last_of` is the largest element of a finite set of
  positions, or `npos`. `GreatestPos` shows that `Max` of a non-empty subset
  of `1..n` is one of its elements and bounds all of them. It uses the
  library's `WFMin` with `NatLessThanWellFounded`, which take no operator
  parameter, applied to the set `{n - i}`. So no induction over sequences is
  needed.
- **Main lemma.** `InferTypeAgrees` splits on whether the last dot comes
  before or after the last separator `k`.
  - Before, or no dot at all: both sides answer `STFS_TITLE`.
  - After, at position `j`: `InferType` compares `s[j..]` with `.xex`. The
    reference's last dot in the file name is `j - k`, and the suffix there is
    the same `s[j..]`.
- **Assumptions.** `FsPathAssumption` says the separator is not `.` (as
  `poly::path_separator` is `\\` or `/`). It also says `npos` exceeds every
  length considered, as `size_t`'s largest value does.

### Left to TLC

- **Liveness.** `PrepareReturns` needs fairness and ENABLED, which are out of
  the prover's reach.
- **Induction over data.** No proved result needs it. The one place that
  would, the existence of a greatest position, is taken from `WFMin`
  (in `FsPath_proofs`). The
  library's induction theorems take an operator parameter, which the
  installed provers cannot instantiate.
- **The violated properties.** The `violation` runs show a counterexample,
  and there is nothing to prove.

## 5. Not modelled

- **The trampolines (lines 237-290).** They only log or assert, and are
  called by generated guest code, which is not in this repository.
- **`Blitter::Initialize` and `Shutdown`.** They create and delete the
  driver objects (programs, pipelines, buffer, vertex array, samplers and
  scratch framebuffer). The model names these objects by constants and
  starts after `Initialize`. The shader text and the uniforms of `Draw()`
  are left out, since no saved state depends on them.
- **`FileSystem::Open` and the devices' own `ResolvePath`.** They change no
  file-system state.
- **The three headers.** Declarations only.
