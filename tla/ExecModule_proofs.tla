------------------------- MODULE ExecModule_proofs -------------------------
(***************************************************************************)
(* Proofs, for every value of the constants, of the safety properties the  *)
(* run MC_ExecModule checks on a small instance: type correctness, that    *)
(* the module generator runs at most once (GenerateOnce), that the import  *)
(* slots Init() writes hold the export's value in guest byte order         *)
(* (ImportSlotsCorrect), and that guest code only runs on a verified       *)
(* module (VerifiedBeforeRun).                                             *)
(***************************************************************************)
EXTENDS ExecModule, TLAPS

-----------------------------------------------------------------------------
(* Byte order.                                                             *)

\* XESWAP32BE yields a word, and storing it on the host then loading it
\* big-endian in the guest gives back the value it was given, on either
\* host byte order.
LEMMA SwapRoundTrip ==
  ASSUME NEW w \in Word
  PROVE  /\ XESWAP32BE(w) \in Word
         /\ HostBytes(XESWAP32BE(w)) \in Word
         /\ GuestLoad32(HostBytes(XESWAP32BE(w))) = w
<1>1. CASE HostLittleEndian
  <2>1. XESWAP32BE(w) = <<w[4], w[3], w[2], w[1]>>
    BY <1>1 DEF XESWAP32BE, Swap32
  <2>2. <<w[4], w[3], w[2], w[1]>> \in Word
    BY DEF Word, Byte
  <2>3. HostBytes(XESWAP32BE(w)) = [i \in 1 .. 4 |-> XESWAP32BE(w)[5 - i]]
    BY <1>1 DEF HostBytes
  <2>4. [i \in 1 .. 4 |-> <<w[4], w[3], w[2], w[1]>>[5 - i]] = w
    BY DEF Word
  <2>5. QED
    BY <2>1, <2>2, <2>3, <2>4 DEF GuestLoad32
<1>2. CASE ~HostLittleEndian
  BY <1>2 DEF XESWAP32BE, HostBytes, GuestLoad32
<1>3. QED
  BY <1>1, <1>2

\* The slot Init() writes for an export is a word, and the guest reads the
\* export's value (or 0xDEADBEEF) from it.
LEMMA ImportSlotValue ==
  ASSUME NEW e \in Exports
  PROVE  /\ ImportValue(e) \in Word
         /\ ImportSlot(e) \in Word
         /\ GuestLoad32(ImportSlot(e)) = ImportValue(e)
<1>1. ImportValue(e) \in Word
  BY ConstantsAssumption DEF ImportValue, DEADBEEF, Word, Byte
<1>2. QED
  BY <1>1, SwapRoundTrip DEF ImportSlot

-----------------------------------------------------------------------------
(* Type correctness.                                                       *)

\* The finite sets of names the state ranges over are used everywhere.
USE DEF PCs, GenBlock, Parts, EntryPoints

\* No step makes a Boolean variable non-Boolean.
LEMMA TypeBoolStep == TypeBool /\ [Next]_vars => TypeBool'
BY Zenon DEF TypeBool, Next, PrepareStep, PrepareUserModule, PrepareRawBinary,
             NewDatabase, LoadRuntime, Analyze, CreateModule, InjectGlobals,
             LinkRuntime, Generate, DumpPreopt, Materialize, Optimize,
             DumpPostopt, ExecInit, ForceJit, Destroy, UninitReturns, Return, vars

\* No step takes the other variables out of their types.
LEMMA TypeDataStep == TypeOK /\ [Next]_vars => TypeData'
<1> SUFFICES ASSUME TypeOK, [Next]_vars PROVE TypeData'
  OBVIOUS
<1>0. MaxCalls \in Nat
  BY ConstantsAssumption
<1>1. ASSUME NEW kind \in {"xex", "raw"}, NewDatabase(kind) PROVE TypeData'
  BY <1>0, <1>1 DEF NewDatabase, StartPrepare, TypeOK, TypeData
<1>2. CASE LoadRuntime
  BY <1>2 DEF LoadRuntime, Return, TypeOK, TypeData
<1>3. CASE Analyze
  BY <1>3 DEF Analyze, Return, TypeOK, TypeData
<1>4. CASE CreateModule
  BY <1>4 DEF CreateModule, TypeOK, TypeData
<1>5. CASE InjectGlobals
  BY <1>5 DEF InjectGlobals, TypeOK, TypeData
<1>6. CASE LinkRuntime
  BY <1>6 DEF LinkRuntime, TypeOK, TypeData
<1>7. CASE Generate
  <2>1. generateRuns' \in Nat /\ codegen' \in 0 .. MaxCalls
    BY <1>7 DEF Generate, TypeOK, TypeData
  <2>2. entries' \subseteq EntryPoints
    BY <1>7 DEF Generate
  <2>3. pc' \in PCs /\ status' \in {"none", "ok", "failed"}
        /\ content' \subseteq Parts
    BY <1>7 DEF Generate, Return, TypeOK, TypeData
  <2>4. QED
    BY <1>7, <2>1, <2>2, <2>3 DEF Generate, TypeOK, TypeData
<1>8. CASE DumpPreopt
  BY <1>8 DEF DumpPreopt, Return, TypeOK, TypeData
<1>9. CASE Materialize
  BY <1>9 DEF Materialize, Return, TypeOK, TypeData
<1>10. CASE Optimize
  BY <1>10 DEF Optimize, TypeOK, TypeData
<1>11. CASE DumpPostopt
  BY <1>11 DEF DumpPostopt, Return, TypeOK, TypeData
<1>12. CASE ExecInit
  <2>1. BindImports \in [Vars -> Word \cup {Unwritten}]
    <3>1. \A v \in DatabaseVariables \cap Importable :
            ImportSlot(ExportOf[v]) \in Word
      BY ImportSlotValue, ConstantsAssumption DEF Importable
    <3>2. QED
      BY <3>1 DEF BindImports, TypeOK, TypeData
  <2>2. QED
    BY <1>12, <2>1 DEF ExecInit, Return, TypeOK, TypeData
<1>13. CASE ForceJit
  BY <1>13 DEF ForceJit, Return, TypeOK, TypeData
<1>14. CASE Destroy
  BY <1>14 DEF Destroy, TypeOK, TypeData
<1>15. CASE UNCHANGED vars
  BY <1>15 DEF vars, TypeOK, TypeData
<1>16. QED
  BY <1>1, <1>2, <1>3, <1>4, <1>5, <1>6, <1>7, <1>8, <1>9, <1>10, <1>11,
     <1>12, <1>13, <1>14, <1>15
  DEF Next, PrepareStep, PrepareUserModule, PrepareRawBinary

\* Type correctness of every reachable state.
THEOREM TypeCorrect == Spec => []TypeOK
<1>1. Init => TypeOK
  <2>1. Init => TypeBool
    BY Zenon DEF Init, TypeBool
  <2>2. Init => TypeData
    BY ConstantsAssumption DEF Init, TypeData
  <2>3. QED
    BY <2>1, <2>2 DEF TypeOK
<1>2. TypeOK /\ [Next]_vars => TypeOK'
  BY TypeBoolStep, TypeDataStep DEF TypeOK
<1>3. QED
  BY <1>1, <1>2, PTL DEF Spec

-----------------------------------------------------------------------------
(* The module generator runs at most once.                                 *)

\* GenInv holds initially and is kept by every step.
LEMMA GenInvStep == TypeOK /\ GenInv /\ [Next]_vars => GenInv'
<1> SUFFICES ASSUME TypeOK, GenInv, [Next]_vars PROVE GenInv'
  OBVIOUS
<1>1. ASSUME NEW kind \in {"xex", "raw"}, NewDatabase(kind) PROVE GenInv'
  BY <1>1 DEF NewDatabase, StartPrepare, GenInv
<1>2. CASE CreateModule
  BY <1>2 DEF CreateModule, GenInv
<1>3. CASE Generate
  BY <1>3 DEF Generate, Return, GenInv, TypeOK, TypeData
<1>4. CASE PrepareStep /\ ~CreateModule /\ ~Generate
  BY <1>4 DEF PrepareStep, LoadRuntime, Analyze, InjectGlobals, LinkRuntime,
              DumpPreopt, Materialize, Optimize, DumpPostopt, ExecInit,
              ForceJit, Return, GenInv
<1>5. CASE Destroy
  BY <1>5 DEF Destroy, GenInv
<1>6. CASE UNCHANGED vars
  BY <1>6 DEF vars, GenInv
<1>7. QED
  BY <1>1, <1>2, <1>3, <1>4, <1>5, <1>6
  DEF Next, PrepareUserModule, PrepareRawBinary

\* GenInv holds in every reachable state.
LEMMA GenInvHolds == Spec => []GenInv
<1>1. Init => GenInv
  BY DEF Init, GenInv
<1>2. QED
  BY <1>1, GenInvStep, TypeCorrect, PTL DEF Spec

\* The `if (!gen_module_.get())` cache test makes codegen_->Generate() run
\* at most once over any sequence of Prepare* calls, failed ones included.
THEOREM GenerateOnceHolds == Spec => []GenerateOnce
<1>1. GenInv => GenerateOnce
  BY DEF GenInv, GenerateOnce
<1>2. QED
  BY <1>1, GenInvHolds, PTL

-----------------------------------------------------------------------------
(* Guest code only runs on a verified module.                              *)

\* VerInv is kept by every step.
LEMMA VerInvStep == VerInv /\ [Next]_vars => VerInv'
<1> SUFFICES ASSUME VerInv, [Next]_vars PROVE VerInv'
  OBVIOUS
<1>1. ASSUME NEW kind \in {"xex", "raw"}, NewDatabase(kind) PROVE VerInv'
  BY <1>1 DEF NewDatabase, StartPrepare, VerInv
<1>2. CASE LoadRuntime \/ Analyze \/ CreateModule \/ InjectGlobals
           \/ LinkRuntime \/ Generate \/ DumpPreopt \/ Materialize
  BY <1>2 DEF LoadRuntime, Analyze, CreateModule, InjectGlobals, LinkRuntime,
              Generate, DumpPreopt, Materialize, Return, VerInv
<1>3. CASE Optimize \/ DumpPostopt \/ ExecInit \/ ForceJit
  BY <1>3 DEF Optimize, DumpPostopt, ExecInit, ForceJit, Return, VerInv
<1>4. CASE Destroy
  BY <1>4 DEF Destroy, VerInv
<1>5. CASE UNCHANGED vars
  BY <1>5 DEF vars, VerInv
<1>6. QED
  BY <1>1, <1>2, <1>3, <1>4, <1>5
  DEF Next, PrepareStep, PrepareUserModule, PrepareRawBinary

\* The unconditional final verifier pass: xe_module_init and the JIT loop
\* only run on a module verified after its last change, whatever
\* FLAGS_optimize_ir_modules is.
THEOREM VerifiedBeforeRunHolds == Spec => []VerifiedBeforeRun
<1>1. Init => VerInv
  BY DEF Init, VerInv
<1>2. VerInv => VerifiedBeforeRun
  BY DEF VerInv, VerifiedBeforeRun
<1>3. QED
  BY <1>1, <1>2, VerInvStep, PTL DEF Spec

-----------------------------------------------------------------------------
(* Import slots.                                                           *)

\* ImportSlotsCorrect is kept by every step, given the types.
LEMMA ImportSlotsStep ==
  TypeOK /\ ImportSlotsCorrect /\ [Next]_vars => ImportSlotsCorrect'
<1> SUFFICES ASSUME TypeOK, ImportSlotsCorrect, [Next]_vars
             PROVE  ImportSlotsCorrect'
  OBVIOUS
<1>1. CASE mem' = mem
  BY <1>1 DEF ImportSlotsCorrect
<1>2. CASE mem' = BindImports
  <2> SUFFICES ASSUME NEW v \in Vars, mem'[v] # Unwritten
               PROVE  v \in Importable
                      /\ GuestLoad32(mem'[v]) = ImportValue(ExportOf[v])
    BY DEF ImportSlotsCorrect
  <2>1. CASE v \in DatabaseVariables \cap Importable
    <3>1. ExportOf[v] \in Exports
      BY <2>1, ConstantsAssumption DEF Importable
    <3>2. mem'[v] = ImportSlot(ExportOf[v])
      BY <1>2, <2>1 DEF BindImports
    <3>3. QED
      BY <2>1, <3>1, <3>2, ImportSlotValue
  <2>2. CASE v \notin DatabaseVariables \cap Importable
    BY <1>2, <2>2 DEF BindImports, ImportSlotsCorrect
  <2>3. QED
    BY <2>1, <2>2
<1>3. QED
  BY <1>1, <1>2
  DEF Next, PrepareStep, PrepareUserModule, PrepareRawBinary, NewDatabase,
      LoadRuntime, Analyze, CreateModule, InjectGlobals, LinkRuntime,
      Generate, DumpPreopt, Materialize, Optimize, DumpPostopt, ExecInit,
      ForceJit, Destroy, vars

\* Init()'s loop writes, for each variable bound to a non-function export,
\* the export's value (or 0xDEADBEEF) byte-swapped so that the big-endian
\* guest reads it back unchanged, on either host byte order.
THEOREM ImportSlotsCorrectHolds == Spec => []ImportSlotsCorrect
<1>1. Init => ImportSlotsCorrect
  BY ConstantsAssumption DEF Init, ImportSlotsCorrect
<1>2. QED
  BY <1>1, ImportSlotsStep, TypeCorrect, PTL DEF Spec

-----------------------------------------------------------------------------
(* The pipeline implements the lifecycle.                                  *)

\* Every step of the pipeline is a step of the lifecycle, or leaves the
\* lifecycle's state as it is.
LEMMA LifecycleStep ==
  TypeOK /\ GenInv /\ [Next]_vars => [Lifecycle!Next]_Lifecycle!vars
<1> SUFFICES ASSUME TypeOK, GenInv, [Next]_vars
             PROVE  [Lifecycle!Next]_Lifecycle!vars
  OBVIOUS
<1> USE DEF LifecyclePhase, RunSteps, Lifecycle!vars
<1>1. ASSUME NEW kind \in {"xex", "raw"}, NewDatabase(kind)
      PROVE  Lifecycle!Call
  BY <1>1 DEF NewDatabase, StartPrepare, Lifecycle!Call
<1>2. CASE LoadRuntime \/ Analyze
  BY <1>2 DEF LoadRuntime, Analyze, Return, Lifecycle!Next, Lifecycle!Fail
<1>3. CASE CreateModule
  BY <1>3 DEF CreateModule, GenInv, Lifecycle!Next, Lifecycle!Build
<1>4. CASE InjectGlobals \/ LinkRuntime \/ Optimize
  BY <1>4 DEF InjectGlobals, LinkRuntime, Optimize
<1>5. CASE Generate
  BY <1>5 DEF Generate, Return, GenInv, TypeOK, TypeData, Lifecycle!Next,
              Lifecycle!Generate
<1>6. CASE DumpPreopt
  BY <1>6 DEF DumpPreopt, Return, GenInv, Lifecycle!Next, Lifecycle!StartRun,
              Lifecycle!Fail
<1>7. CASE Materialize \/ DumpPostopt
  BY <1>7 DEF Materialize, DumpPostopt, Return, Lifecycle!Next, Lifecycle!Fail
<1>8. CASE ExecInit
  BY <1>8 DEF ExecInit, Return, Lifecycle!Next, Lifecycle!Fail, Lifecycle!Crash
<1>9. CASE ForceJit
  BY <1>9 DEF ForceJit, Return, Lifecycle!Next, Lifecycle!Succeed
<1>10. CASE Destroy
  BY <1>10 DEF Destroy, UninitReturns, Lifecycle!Next, Lifecycle!Destroy,
               Lifecycle!Crash
<1>11. CASE UNCHANGED vars
  BY <1>11 DEF vars
<1>12. QED
  BY <1>1, <1>2, <1>3, <1>4, <1>5, <1>6, <1>7, <1>8, <1>9, <1>10, <1>11
  DEF Next, PrepareStep, PrepareUserModule, PrepareRawBinary, Lifecycle!Next

\* ExecModule implements PrepareLifecycle under the mapping of pc to the
\* caller's view of a call: the cache test, the single creation and
\* generation of the module, the result codes and the points where the
\* process may die are those the lifecycle allows.
THEOREM LifecycleRefinedHolds == Spec => LifecycleRefined
<1>1. Init => Lifecycle!Init
  <2>1. "idle" \notin GenBlock \cup RunSteps
    BY DEF GenBlock, RunSteps
  <2>2. QED
    BY <2>1 DEF Init, Lifecycle!Init, LifecyclePhase
<1>2. QED
  BY <1>1, LifecycleStep, TypeCorrect, GenInvHolds, PTL
  DEF Spec, LifecycleRefined, Lifecycle!Spec

=============================================================================
