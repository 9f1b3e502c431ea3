CONSTANTS
  vNone = vNone
  vFn = vFn
  vImpl = vImpl
  vUnimpl = vUnimpl
  eFn = eFn
  eImpl = eImpl
  eUnimpl = eUnimpl
  NoExport = NoExport
  Unwritten = Unwritten
  Vars <- MCVars
  Exports <- MCExports
  ExportOf <- MCExportOf
  IsFunction <- MCIsFunction
  IsImplemented <- MCIsImplemented
  VariablePtr <- MCVariablePtr
  HostLittleEndian = TRUE
  MaxCalls = 3

SPECIFICATION FairSpec

INVARIANT TypeOK
INVARIANT GenerateOnce
INVARIANT ImportSlotsCorrect
INVARIANT VerifiedBeforeRun

PROPERTY LifecycleRefined
PROPERTY PrepareReturns

\* The object's life ends in its destructor, or in a crash of the process.
CHECK_DEADLOCK FALSE
