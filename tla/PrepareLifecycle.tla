-------------------------- MODULE PrepareLifecycle --------------------------
(***************************************************************************)
(* What an ExecModule promises its callers, without the pipeline's steps:  *)
(* a Prepare* call either builds the generated module (only when none     *)
(* exists yet) or reuses the one it finds, then runs it.  The generator   *)
(* runs at most once, and only in the call that created the module.  A    *)
(* call ends by returning a result code; the process can only die while  *)
(* the module runs guest code (Init) or is destroyed.                     *)
(***************************************************************************)

VARIABLES
  phase,      \* "idle", "build", "run", "destroyed" or "crashed"
  built,      \* the generated module exists
  generated,  \* the module generator has run
  status      \* the result code of the last call

vars == <<phase, built, generated, status>>

Init ==
  /\ phase = "idle"
  /\ built = FALSE
  /\ generated = FALSE
  /\ status = "none"

\* A Prepare* call starts: it builds the module when there is none, else
\* goes straight to running the existing one.
Call ==
  /\ phase = "idle"
  /\ phase' = IF built THEN "run" ELSE "build"
  /\ UNCHANGED <<built, generated, status>>

\* The module is created, once.
Build ==
  /\ phase = "build"
  /\ ~built
  /\ built' = TRUE
  /\ UNCHANGED <<phase, generated, status>>

\* The generator runs on the module this call created, once; it may fail.
Generate ==
  /\ phase = "build"
  /\ built /\ ~generated
  /\ generated' = TRUE
  /\ \/ UNCHANGED <<phase, status>>
     \/ phase' = "idle" /\ status' = "failed"
  /\ UNCHANGED built

\* A built and generated module goes on to run.
StartRun ==
  /\ phase = "build"
  /\ built /\ generated
  /\ phase' = "run"
  /\ UNCHANGED <<built, generated, status>>

\* A call fails part way and returns 1.
Fail ==
  /\ phase \in {"build", "run"}
  /\ phase' = "idle"
  /\ status' = "failed"
  /\ UNCHANGED <<built, generated>>

\* A call that ran the module returns 0.
Succeed ==
  /\ phase = "run"
  /\ phase' = "idle"
  /\ status' = "ok"
  /\ UNCHANGED <<built, generated>>

\* Guest code run by Init, or the destructor's Uninit, takes the process down.
Crash ==
  /\ phase \in {"run", "idle"}
  /\ phase' = "crashed"
  /\ UNCHANGED <<built, generated, status>>

\* The object is destroyed between calls.
Destroy ==
  /\ phase = "idle"
  /\ phase' = "destroyed"
  /\ UNCHANGED <<built, generated, status>>

Next ==
  \/ Call \/ Build \/ Generate \/ StartRun \/ Fail \/ Succeed
  \/ Crash \/ Destroy

Spec == Init /\ [][Next]_vars

=============================================================================
