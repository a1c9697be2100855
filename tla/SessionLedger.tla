--------------------------- MODULE SessionLedger ---------------------------
(***************************************************************************)
(* What the live streaming agent promises the rest of the system, whatever *)
(* its threads, its store and its crashes do: the reconnects of a session  *)
(* are numbered one by one up to MaxAttempts, and none is announced before *)
(* its number was recorded; an end is announced only when a sample for it  *)
(* is in the training set, which never shrinks, and by the agent's own     *)
(* decision only when the session's last reconnect has been used.  It      *)
(* promises neither that a reconnect is announced once nor that a session  *)
(* that ended stays ended.                                                 *)
(***************************************************************************)
EXTENDS Integers, Sequences

CONSTANTS Sessions, Reasons, MaxAttempts

VARIABLES
    used,        \* reconnects recorded so far
    reconnects,  \* their numbers, as announced
    ends,        \* announced ends
    samples      \* size of the training set

vars == <<used, reconnects, ends, samples>>

Init ==
    /\ used = [s \in Sessions |-> 0]
    /\ reconnects = [s \in Sessions |-> << >>]
    /\ ends = << >>
    /\ samples = 0

Use(s) ==
    /\ used[s] < MaxAttempts
    /\ used' = [used EXCEPT ![s] = @ + 1]
    /\ UNCHANGED <<reconnects, ends, samples>>

Reconnect(s, attempt) ==
    /\ attempt \in 1 .. used[s]
    /\ reconnects' = [reconnects EXCEPT ![s] = Append(@, attempt)]
    /\ UNCHANGED <<used, ends, samples>>

\* Samples that an earlier step could not save may come along.
Learn ==
    /\ samples' \in Nat /\ samples' > samples
    /\ UNCHANGED <<used, reconnects, ends>>

End(s, reason) ==
    /\ Len(ends) < samples
    /\ reason # "live_ended" => used[s] = MaxAttempts
    /\ ends' = Append(ends, [session |-> s, reason |-> reason])
    /\ UNCHANGED <<used, reconnects, samples>>

Next ==
    \/ Learn
    \/ \E s \in Sessions :
          \/ Use(s)
          \/ \E attempt \in 1 .. MaxAttempts : Reconnect(s, attempt)
          \/ \E reason \in Reasons : End(s, reason)

Spec == Init /\ [][Next]_vars
=============================================================================
