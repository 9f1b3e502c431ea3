--------------------------- MODULE MC_ExecModule ---------------------------
(***************************************************************************)
(* A small instance of ExecModule for TLC: four import variables covering  *)
(* every branch of Init()'s loop (no export, a function-kind export, an    *)
(* implemented and an unimplemented variable export), a little-endian     *)
(* host, and three Prepare* calls, enough for a failed call followed by    *)
(* a retry and a re-preparation.                                           *)
(***************************************************************************)
EXTENDS ExecModule, TLC

CONSTANTS vNone, vFn, vImpl, vUnimpl, eFn, eImpl, eUnimpl

MCVars == {vNone, vFn, vImpl, vUnimpl}

MCExports == {eFn, eImpl, eUnimpl}

MCExportOf == (vNone :> NoExport) @@ (vFn :> eFn) @@ (vImpl :> eImpl)
                @@ (vUnimpl :> eUnimpl)

MCIsFunction == [e \in MCExports |-> e = eFn]

MCIsImplemented == [e \in MCExports |-> e # eUnimpl]

\* variable_ptr 0x12345678 for every export; 0x12345678 is not a
\* palindrome, so a missing byte swap shows.
MCVariablePtr == [e \in MCExports |-> <<18, 52, 86, 120>>]

=============================================================================
