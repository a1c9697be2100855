-------------------------- MODULE MCOrchestrator --------------------------
(***************************************************************************)
(* Model checking of Orchestrator, and its implementation of TaskLedger.   *)
(***************************************************************************)
EXTENDS Orchestrator, TLC

\* Where no action has a session of its own, actions are told apart by their
\* routes only.
Symmetry == Permutations(Actions)

Ledger == INSTANCE TaskLedger WITH
    asked <- [t \in Tasks |-> record[t].action],
    top <- topAttempt,
    MaxAttempts <- MAX_RETRIES

\* Every behaviour of the two threads is one TaskLedger allows.
ImplementsLedger == Ledger!Spec
=============================================================================
