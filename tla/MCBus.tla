------------------------------- MODULE MCBus -------------------------------
(***************************************************************************)
(* Model checking of StreamBus, and its implementation of MessageChannel.  *)
(***************************************************************************)
EXTENDS StreamBus, TLC

\* Events are told apart by whether the agent is subscribed to them.
Symmetry == Permutations(Events \ Foreign)

\* The messages the agent has dealt with, and those the group has left behind:
\* it will not be given them again.
Ended   == {m \in 1 .. lastRead : fate[m] # "none" \/ DeadLettered(m)}
Settled == {m \in 1 .. lastRead : m \notin pel}

Channel == INSTANCE MessageChannel WITH
    sent <- Len(stream), attempts <- dispatched, ended <- Ended, settled <- Settled

\* Whatever raises and whenever the process dies, every step is one the
\* channel allows: what the group has acknowledged was dealt with and is never
\* dispatched again, by this process or by a later one.
ImplementsChannel == Channel!Spec

-----------------------------------------------------------------------------
(* The run of bus_delivers: the third message, with which an event can pass  *)
(* the dedup again after an eviction, comes only to a process that does not  *)
(* die, and a process that dies has two messages to deal with.  No step of   *)
(* the consumer thread is held back by that.                                 *)

ThirdIsCalm == Len(stream) <= 2 \/ crashes = 0

BoundedFairSpec == Init /\ [][Next /\ ThirdIsCalm']_vars /\ WF_vars(Consumer)
=============================================================================
