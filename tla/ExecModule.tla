----------------------------- MODULE ExecModule -----------------------------
(***************************************************************************)
(* The lifecycle of one xe::cpu::ExecModule (src/cpu/exec_module.cc): the  *)
(* two public preparation entry points, the shared Prepare() pipeline with  *)
(* every early exit of its XEEXPECT* checks, Init() binding the kernel      *)
(* import variables into guest memory and calling xe_module_init, the      *)
(* forced JIT loop, and the destructor (Uninit() then removeModule).        *)
(*                                                                          *)
(* Prepare() runs on the caller's thread and is synchronous, so a call is  *)
(* a sequence of steps labelled by pc; no other operation of the object    *)
(* starts before the call returns (pc = "idle").  The collaborators whose  *)
(* code is not in this repository (the symbol database, the bitcode        *)
(* reader, the LLVM linker, the module generator, the pass manager, the    *)
(* guest's xe_module_init) are modelled by the outcomes their results can  *)
(* have at the call site: success, or the failure the caller tests for.    *)
(***************************************************************************)
EXTENDS Naturals, FiniteSets

CONSTANTS
  Vars,             \* the VariableSymbols a successful Analyze() discovers
  Exports,          \* the KernelExport descriptors the export resolver holds
  NoExport,         \* var->kernel_export == NULL
  ExportOf,         \* [Vars -> Exports \cup {NoExport}]
  IsFunction,       \* [Exports -> BOOLEAN]: type == KernelExport::Function
  IsImplemented,    \* [Exports -> BOOLEAN]: kernel_export->is_implemented
  VariablePtr,      \* [Exports -> Word]: kernel_export->variable_ptr
  Unwritten,        \* what the image loader left in an import slot
  HostLittleEndian, \* the host stores the low byte of a word first
  MaxCalls          \* bound on PrepareUserModule/PrepareRawBinary calls

\* A 32-bit value as its four bytes, most significant first.
Byte == 0 .. 255
Word == [1 .. 4 -> Byte]

ASSUME ConstantsAssumption ==
  /\ NoExport \notin Exports
  /\ Unwritten \notin Word
  /\ ExportOf \in [Vars -> Exports \cup {NoExport}]
  /\ IsFunction \in [Exports -> BOOLEAN]
  /\ IsImplemented \in [Exports -> BOOLEAN]
  /\ VariablePtr \in [Exports -> Word]
  /\ HostLittleEndian \in BOOLEAN
  /\ MaxCalls \in Nat

\* The command-line flags Prepare() reads (FLAGS_dump_module_bitcode,
\* FLAGS_optimize_ir_modules); FLAGS_dump_module_map only gates a write
\* whose result is ignored and changes no state.
Flags == {"dump_module_bitcode", "optimize_ir_modules"}

\* The guest entry points Init() and Uninit() look up by name.
EntryPoints == {"xe_module_init", "xe_module_uninit"}

\* What InjectGlobals, the linker and the module generator put into the
\* generated module.
Parts == {"memory_base", "trampolines", "runtime", "code"}

\* Steps of a Prepare() call that only run while the module is first built.
GenBlock == {"load_thunk", "analyze", "create_module", "inject_globals",
             "link_runtime", "generate", "dump_preopt"}

PCs == {"idle"} \cup GenBlock \cup
       {"materialize", "optimize", "dump_postopt", "init", "force_jit",
        "destroyed", "crashed"}

VARIABLES
  pc,           \* where the object's single thread is
  flags,        \* the FLAGS_* values of this process
  calls,        \* Prepare* calls made so far
  source,       \* the SymbolDatabase variant sdb_ points to
  sdb,          \* sdb_: 0 when null, n for the database the n-th call made
  analyzed,     \* sdb_->Analyze() has succeeded on the current database
  codegen,      \* the database codegen_ was built over (0: codegen_ null)
  genModule,    \* gen_module_ is non-null
  content,      \* what the generated module contains
  entries,      \* which guest entry points the generated module defines
  verified,     \* the verifier pass ran after the module's last change
  compiled,     \* every function with a body has been JIT-compiled
  detached,     \* engine_->removeModule(gen_module_) has run
  mem,          \* guest memory at the import slot of each variable symbol
  status,       \* the result of the last Prepare* call
  generateRuns  \* history: how often codegen_->Generate() was called

vars == <<pc, flags, calls, source, sdb, analyzed, codegen, genModule,
          content, entries, verified, compiled, detached, mem, status,
          generateRuns>>

-----------------------------------------------------------------------------
(* Byte order.                                                             *)

\* 0xDEADBEEF, the value Init() writes for an unimplemented export.
DEADBEEF == <<222, 173, 190, 239>>

\* A byte swap that forgets to mask the bits shifted into the second byte.
Swap32Unmasked(w) == <<w[4], w[3] + 256 * w[4], w[2], w[1]>>

\* The byte swap of XESWAP32BE.
Swap32(w) == <<w[4], w[3], w[2], w[1]>>

\* XESWAP32BE: a guest (big-endian) word from a host word.
XESWAP32BE(w) == IF HostLittleEndian THEN Swap32(w) ELSE w

\* The bytes, at ascending addresses, of a host store of word w.
HostBytes(w) == IF HostLittleEndian THEN [i \in 1 .. 4 |-> w[5 - i]] ELSE w

\* The word a big-endian guest load reads from bytes b.
GuestLoad32(b) == b

-----------------------------------------------------------------------------
(* Init() (lines 373-415).                                                 *)

\* The variables sdb_->GetAllVariables() returns: the database is filled
\* by Analyze(), so a database that was never analyzed has none.
DatabaseVariables == IF analyzed THEN Vars ELSE {}

\* The variables whose slot Init() writes: bound to an export that is not
\* of kind Function.
Importable == {v \in Vars : ExportOf[v] # NoExport /\ ~IsFunction[ExportOf[v]]}

\* The value Init() installs for export e.
ImportValue(e) == IF IsImplemented[e] THEN VariablePtr[e] ELSE DEADBEEF

\* *slot = value, without the byte swap.
ImportSlotUnswapped(e) == HostBytes(ImportValue(e))

\* *slot = XESWAP32BE(value): the guest-memory bytes of the slot.
ImportSlot(e) == HostBytes(XESWAP32BE(ImportValue(e)))

\* Guest memory after Init()'s loop over the database's variables.
BindImports ==
  [v \in Vars |-> IF v \in DatabaseVariables \cap Importable
                    THEN ImportSlot(ExportOf[v])
                    ELSE mem[v]]

-----------------------------------------------------------------------------
(* Operations.                                                             *)

\* Prepare() returns result code r to its caller.
Return(r) == pc' = "idle" /\ status' = r

\* A cache test that never finds the module built.
StartPrepareAlwaysBuild == "load_thunk"

\* The cache test `if (!gen_module_.get())`: where Prepare() starts.
StartPrepare == IF genModule THEN "materialize" ELSE "load_thunk"

\* PrepareUserModule / PrepareRawBinary: replace sdb_ by a new database of
\* the given variant, then run Prepare().
NewDatabase(kind) ==
  /\ pc = "idle"
  /\ calls < MaxCalls
  /\ calls' = calls + 1
  /\ source' = kind
  /\ sdb' = calls + 1
  /\ analyzed' = FALSE
  /\ pc' = StartPrepare
  /\ UNCHANGED <<flags, codegen, genModule, content, entries, verified,
                 compiled, detached, mem, status, generateRuns>>

PrepareUserModule == NewDatabase("xex")

PrepareRawBinary == NewDatabase("raw")

\* MemoryBuffer::getFile + ParseBitcodeFile of xethunk.bc.
LoadRuntime ==
  /\ pc = "load_thunk"
  /\ \/ pc' = "analyze" /\ UNCHANGED status
     \/ Return("failed")
  /\ UNCHANGED <<flags, calls, source, sdb, analyzed, codegen, genModule,
                 content, entries, verified, compiled, detached, mem,
                 generateRuns>>

\* sdb_->Analyze(), then the optional map dump whose result is ignored.
Analyze ==
  /\ pc = "analyze"
  /\ \/ analyzed' = TRUE /\ pc' = "create_module" /\ UNCHANGED status
     \/ Return("failed") /\ UNCHANGED analyzed
  /\ UNCHANGED <<flags, calls, source, sdb, codegen, genModule, content,
                 entries, verified, compiled, detached, mem, generateRuns>>

\* gen_module_ = new Module(module_name_, context).
CreateModule ==
  /\ pc = "create_module"
  /\ genModule' = TRUE
  /\ content' = {}
  /\ verified' = FALSE
  /\ pc' = "inject_globals"
  /\ UNCHANGED <<flags, calls, source, sdb, analyzed, codegen, entries,
                 compiled, detached, mem, status, generateRuns>>

\* InjectGlobals(): xe_memory_base and the six trampolines bound with
\* addGlobalMapping; it always returns 0.
InjectGlobals ==
  /\ pc = "inject_globals"
  /\ content' = content \cup {"memory_base", "trampolines"}
  /\ verified' = FALSE
  /\ pc' = "link_runtime"
  /\ UNCHANGED <<flags, calls, source, sdb, analyzed, codegen, genModule,
                 entries, compiled, detached, mem, status, generateRuns>>

\* Linker::LinkModules; its result is not tested, so a failed link
\* continues with the runtime module missing.
LinkRuntime ==
  /\ pc = "link_runtime"
  /\ \E linked \in BOOLEAN :
       content' = IF linked THEN content \cup {"runtime"} ELSE content
  /\ verified' = FALSE
  /\ pc' = "generate"
  /\ UNCHANGED <<flags, calls, source, sdb, analyzed, codegen, genModule,
                 entries, compiled, detached, mem, status, generateRuns>>

\* codegen_ = new ModuleGenerator(..., sdb_.get(), ...); Generate().  The
\* generator may have emitted any of the entry points when it returns,
\* whether it succeeded or failed part way.
Generate ==
  /\ pc = "generate"
  /\ codegen' = sdb
  /\ generateRuns' = generateRuns + 1
  /\ entries' \in SUBSET EntryPoints
  /\ verified' = FALSE
  /\ \/ content' = content \cup {"code"} /\ pc' = "dump_preopt"
        /\ UNCHANGED status
     \/ Return("failed") /\ UNCHANGED content
  /\ UNCHANGED <<flags, calls, source, sdb, analyzed, genModule, compiled,
                 detached, mem>>

\* A failed dump that leaves the call's result code at 0.
DumpPreoptReturnsOk ==
  /\ pc = "dump_preopt"
  /\ \/ pc' = "materialize" /\ UNCHANGED status
     \/ flags["dump_module_bitcode"] /\ Return("ok")
  /\ UNCHANGED <<flags, calls, source, sdb, analyzed, codegen, genModule,
                 content, entries, verified, compiled, detached, mem,
                 generateRuns>>

\* The pre-optimisation bitcode dump: a failed open aborts Prepare().
DumpPreopt ==
  /\ pc = "dump_preopt"
  /\ \/ pc' = "materialize" /\ UNCHANGED status
     \/ flags["dump_module_bitcode"] /\ Return("failed")
  /\ UNCHANGED <<flags, calls, source, sdb, analyzed, codegen, genModule,
                 content, entries, verified, compiled, detached, mem,
                 generateRuns>>

\* MaterializeAllPermanently, then setTargetTriple.
Materialize ==
  /\ pc = "materialize"
  /\ \/ pc' = "optimize" /\ verified' = FALSE /\ UNCHANGED status
     \/ Return("failed") /\ UNCHANGED verified
  /\ UNCHANGED <<flags, calls, source, sdb, analyzed, codegen, genModule,
                 content, entries, compiled, detached, mem, generateRuns>>

\* A pass pipeline whose last verifier pass is added only when the
\* optimiser is enabled.
OptimizeVerifyOnlyIfEnabled ==
  /\ pc = "optimize"
  /\ verified' = flags["optimize_ir_modules"]
  /\ pc' = "dump_postopt"
  /\ UNCHANGED <<flags, calls, source, sdb, analyzed, codegen, genModule,
                 content, entries, compiled, detached, mem, status,
                 generateRuns>>

\* The pass manager: when FLAGS_optimize_ir_modules, a verifier and the
\* O3/LTO pipeline; then, unconditionally, a verifier; pm.run.
Optimize ==
  /\ pc = "optimize"
  /\ verified' = TRUE
  /\ pc' = "dump_postopt"
  /\ UNCHANGED <<flags, calls, source, sdb, analyzed, codegen, genModule,
                 content, entries, compiled, detached, mem, status,
                 generateRuns>>

\* The post-optimisation dump, written only when both flags are set.
DumpPostopt ==
  /\ pc = "dump_postopt"
  /\ \/ pc' = "init" /\ UNCHANGED status
     \/ flags["optimize_ir_modules"] /\ flags["dump_module_bitcode"]
        /\ Return("failed")
  /\ UNCHANGED <<flags, calls, source, sdb, analyzed, codegen, genModule,
                 content, entries, verified, compiled, detached, mem,
                 generateRuns>>

\* XEEXPECTZERO(Init()).  GetAllVariables may fail (Init returns 1);
\* otherwise the import slots are written, the static constructors run and
\* xe_module_init is called through runFunction: a null Function* when the
\* module does not define it, which crashes; else its result is Init's.
ExecInit ==
  /\ pc = "init"
  /\ \/ Return("failed") /\ UNCHANGED mem
     \/ /\ mem' = BindImports
        /\ IF "xe_module_init" \in entries
             THEN \/ pc' = "force_jit" /\ UNCHANGED status
                  \/ Return("failed")
             ELSE pc' = "crashed" /\ UNCHANGED status
  /\ UNCHANGED <<flags, calls, source, sdb, analyzed, codegen, genModule,
                 content, entries, verified, compiled, detached,
                 generateRuns>>

\* A JIT loop that never advances its iterator.
ForceJitStuck ==
  /\ pc = "force_jit"
  /\ UNCHANGED vars

\* The loop over gen_module_ calling getPointerToFunction on every function
\* with a body; then Prepare() returns 0.
ForceJit ==
  /\ pc = "force_jit"
  /\ compiled' = TRUE
  /\ Return("ok")
  /\ UNCHANGED <<flags, calls, source, sdb, analyzed, codegen, genModule,
                 content, entries, verified, detached, mem, generateRuns>>

\* Uninit(): runFunction on getFunction("xe_module_uninit"), a null
\* Function* when the module does not define it, which crashes; then the
\* static destructors run and Uninit() returns 0.
UninitReturns == "xe_module_uninit" \in entries

\* ~ExecModule(): when gen_module_ exists, Uninit(), then the module is
\* removed from the engine.
Destroy ==
  /\ pc = "idle"
  /\ IF genModule
       THEN IF UninitReturns
              THEN pc' = "destroyed" /\ detached' = TRUE
              ELSE pc' = "crashed" /\ UNCHANGED detached
       ELSE pc' = "destroyed" /\ UNCHANGED detached
  /\ UNCHANGED <<flags, calls, source, sdb, analyzed, codegen, genModule,
                 content, entries, verified, compiled, mem, status,
                 generateRuns>>

-----------------------------------------------------------------------------

Init ==
  /\ pc = "idle"
  /\ flags \in [Flags -> BOOLEAN]
  /\ calls = 0
  /\ source = "none"
  /\ sdb = 0
  /\ analyzed = FALSE
  /\ codegen = 0
  /\ genModule = FALSE
  /\ content = {}
  /\ entries = {}
  /\ verified = FALSE
  /\ compiled = FALSE
  /\ detached = FALSE
  /\ mem = [v \in Vars |-> Unwritten]
  /\ status = "none"
  /\ generateRuns = 0

\* The steps of a Prepare() call in progress.
PrepareStep ==
  \/ LoadRuntime \/ Analyze \/ CreateModule \/ InjectGlobals \/ LinkRuntime
  \/ Generate \/ DumpPreopt \/ Materialize \/ Optimize \/ DumpPostopt
  \/ ExecInit \/ ForceJit

Next ==
  \/ PrepareUserModule \/ PrepareRawBinary
  \/ PrepareStep
  \/ Destroy

Spec == Init /\ [][Next]_vars

\* The caller's thread runs Prepare() to its end without blocking: every
\* step that is enabled is eventually taken.
Fairness == WF_vars(PrepareStep)

FairSpec == Spec /\ Fairness

-----------------------------------------------------------------------------
(* Properties.                                                             *)

\* The Boolean-valued state.
TypeBool ==
  /\ flags \in [Flags -> BOOLEAN]
  /\ analyzed \in BOOLEAN
  /\ genModule \in BOOLEAN
  /\ verified \in BOOLEAN
  /\ compiled \in BOOLEAN
  /\ detached \in BOOLEAN

\* The rest of the state: names, counters, sets and guest memory.
TypeData ==
  /\ pc \in PCs
  /\ calls \in 0 .. MaxCalls
  /\ source \in {"none", "xex", "raw"}
  /\ sdb \in 0 .. MaxCalls
  /\ codegen \in 0 .. MaxCalls
  /\ content \subseteq Parts
  /\ entries \subseteq EntryPoints
  /\ mem \in [Vars -> Word \cup {Unwritten}]
  /\ status \in {"none", "ok", "failed"}
  /\ generateRuns \in Nat

\* Every variable holds a value of its type.
TypeOK == TypeBool /\ TypeData

\* Idempotent preparation (the `if (!gen_module_.get())` cache test): over
\* any sequence of Prepare* calls, failed ones included, the module
\* generator runs at most once, so the generated functions and the
\* trampoline bindings are never rebuilt.
GenerateOnce == generateRuns <= 1

\* Import binding (Init's loop): a slot Init has written belongs to a
\* variable bound to a non-function export and, read by the big-endian
\* guest, holds the export's value, or 0xDEADBEEF when unimplemented.
ImportSlotsCorrect ==
  \A v \in Vars :
    mem[v] # Unwritten =>
      /\ v \in Importable
      /\ GuestLoad32(mem[v]) = ImportValue(ExportOf[v])

\* The final verifier pass: guest code (xe_module_init, then the JIT) only
\* runs on a module verified after its last change, whether or not
\* FLAGS_optimize_ir_modules enabled the optimiser.
VerifiedBeforeRun ==
  pc \in {"init", "force_jit"} => verified

\* The strengthening of GenerateOnce: the generator has not run while no
\* module exists, the build steps before CreateModule run only while none
\* exists, and the ones after it only before the generator's first run.
GenInv ==
  /\ ~genModule => generateRuns = 0
  /\ pc \in {"load_thunk", "analyze", "create_module"} => ~genModule
  /\ pc \in {"inject_globals", "link_runtime", "generate"} =>
       genModule /\ generateRuns = 0
  /\ pc = "dump_preopt" => genModule /\ generateRuns = 1
  /\ generateRuns <= 1

\* The strengthening of VerifiedBeforeRun: from the pass manager's run to
\* the end of Prepare(), the module is verified.
VerInv == pc \in {"dump_postopt", "init", "force_jit"} => verified

-----------------------------------------------------------------------------
(* The lifecycle ExecModule promises (module PrepareLifecycle).            *)

\* The steps of Prepare() that run on every call.
RunSteps == {"materialize", "optimize", "dump_postopt", "init", "force_jit"}

\* Where a call is, seen from its caller.
LifecyclePhase ==
  IF pc \in GenBlock THEN "build" ELSE IF pc \in RunSteps THEN "run" ELSE pc

Lifecycle == INSTANCE PrepareLifecycle
               WITH phase <- LifecyclePhase, built <- genModule,
                    generated <- generateRuns > 0, status <- status

\* The whole pipeline implements the lifecycle: the cache test decides
\* between building and reusing, the module is created and generated once
\* and only by the call that found none, only a call that reached the run
\* steps returns 0, and the process only dies in Init or the destructor.
LifecycleRefined == Lifecycle!Spec

\* Every Prepare* call returns (or the process dies): no step of Prepare()
\* waits forever.
PrepareReturns ==
  \A p \in PCs \ {"idle", "destroyed", "crashed"} :
    (pc = p) ~> (pc \in {"idle", "crashed"})

-----------------------------------------------------------------------------
(* What the spec says and the code does not do (each checked alone).      *)

\* Spec 7: a LinkError aborts preparation, so a module prepared with result
\* 0 has the runtime support module linked in (LinkModules, line 159).
PreparedImpliesLinked == status = "ok" => "runtime" \in content

\* Spec 5: a failed stage leaves its partial state for a retry "of the
\* remaining stages", so a Prepare* call that returns 0 has a module whose
\* guest code was generated (the cache test at line 127).
PreparedImpliesGenerated == status = "ok" => "code" \in content

\* Spec 8.6: Init() and Uninit() complete when the guest entry point is
\* absent (runFunction of getFunction's result, lines 410-421).
EntryPointsOptional == pc # "crashed"

\* The ModuleGenerator holds sdb_.get(): the database it reads (for
\* AddFunctionsToMap, line 234) is the one sdb_ still owns, not one a later
\* PrepareUserModule/PrepareRawBinary released (lines 73, 89, 165).
CodegenDatabaseLive == codegen # 0 => codegen = sdb

=============================================================================
