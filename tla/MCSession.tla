----------------------------- MODULE MCSession -----------------------------
(***************************************************************************)
(* StreamSession's implementation of SessionLedger.                        *)
(***************************************************************************)
EXTENDS StreamSession

Ledger == INSTANCE SessionLedger WITH
    used <- topAttempt, samples <- saved,
    Reasons <- EndReasons, MaxAttempts <- MAX_RECONNECT_ATTEMPTS

\* Every behaviour of the consumer and the sweeper, with its faults and
\* crashes, is one SessionLedger allows.
ImplementsSessionLedger == Ledger!Spec
=============================================================================
