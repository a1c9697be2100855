------------------------------ MODULE Delivery ------------------------------
(***************************************************************************)
(* One agent's consumer thread, as the handler of a small agent sees it:   *)
(* BaseAgent takes an event, runs the handler under its RetryPolicy, and   *)
(* the bus acknowledges.  The modules above add the handler, one action    *)
(* per command.                                                            *)
(*                                                                         *)
(* Redelivery after a death, a replayed dead letter and a backend that     *)
(* sends again look alike here: an event arrives again.  The dedup is left *)
(* out: a copy it drops changes nothing, and after dedup_max_size other    *)
(* events, or a restart, it drops none.                                    *)
(***************************************************************************)
EXTENDS Integers, FiniteSets

CONSTANTS
    Events,           \* event ids
    NoEvent,          \* no event in hand
    HandlerAttempts,  \* RetryPolicy.max_attempts
    MaxArrivals,      \* bound: events handed to the handler, copies included
    MaxFaults,        \* bound: commands that raise
    MaxCrashes        \* bound: process deaths

ASSUME DeliveryAssumption == NoEvent \notin Events /\ HandlerAttempts \in Nat \ {0}
ASSUME DeliveryBounds == {MaxArrivals, MaxFaults, MaxCrashes} \subseteq Nat

VARIABLES
    pc,       \* where the consumer thread is
    cur,      \* the event in its hands
    tries,    \* RetryPolicy attempt
    arrived,  \* history: events ever handed to the handler
    handled,  \* history: events whose handler returned
    arrivals, faults, crashes

deliveryVars == <<pc, cur, tries, arrived, handled, arrivals, faults, crashes>>

DeliveryTypeOK ==
    /\ cur \in arrived \cup {NoEvent}
    /\ cur = NoEvent <=> pc = "idle"
    /\ tries \in 0 .. HandlerAttempts
    /\ handled \subseteq arrived /\ arrived \subseteq Events
    /\ {arrivals, faults, crashes} \subseteq Nat

DeliveryStart ==
    /\ pc = "idle" /\ cur = NoEvent /\ tries = 0
    /\ arrived = {} /\ handled = {}
    /\ arrivals = 0 /\ faults = 0 /\ crashes = 0

\* The handler's next command.
Goto(label) ==
    /\ pc' = label
    /\ UNCHANGED <<cur, tries, arrived, handled, arrivals, faults, crashes>>

Take(e) ==
    /\ pc = "idle"
    /\ arrivals < MaxArrivals
    /\ arrivals' = arrivals + 1
    /\ arrived' = arrived \cup {e}
    /\ cur' = e
    /\ tries' = 1
    /\ pc' = "handle"
    /\ UNCHANGED <<handled, faults, crashes>>

\* Back to waiting, after XACK or as a new process.
Idle == pc' = "idle" /\ cur' = NoEvent /\ tries' = 0

\* XACK.  In "returned" the handler ran to its end, in "ack" it had nothing
\* to do or gave up.
Acknowledge ==
    /\ pc \in {"returned", "ack"}
    /\ handled' = IF pc = "returned" THEN handled \cup {cur} ELSE handled
    /\ Idle
    /\ UNCHANGED <<arrived, arrivals, faults, crashes>>

\* Mutant: RetryPolicy runs the handler once more than max_attempts.
RaiseOnceMore ==
    /\ pc \notin {"idle", "ack"}
    /\ faults < MaxFaults
    /\ faults' = faults + 1
    /\ IF tries <= HandlerAttempts
       THEN pc' = "handle" /\ tries' = tries + 1
       ELSE pc' = "ack" /\ UNCHANGED tries
    /\ UNCHANGED <<cur, arrived, handled, arrivals, crashes>>

\* A command raises, before it took effect or (seen from the state after it)
\* before its reply: the handler runs again from its first line, and after
\* HandlerAttempts runs _safe_handle_event swallows the exception.
Raise ==
    /\ pc \notin {"idle", "ack"}
    /\ faults < MaxFaults
    /\ faults' = faults + 1
    /\ IF tries < HandlerAttempts
       THEN pc' = "handle" /\ tries' = tries + 1
       ELSE pc' = "ack" /\ UNCHANGED tries
    /\ UNCHANGED <<cur, arrived, handled, arrivals, crashes>>

\* The process dies and another one starts.
Restart ==
    /\ pc # "idle"
    /\ crashes < MaxCrashes
    /\ crashes' = crashes + 1
    /\ Idle
    /\ UNCHANGED <<arrived, handled, arrivals, faults>>
=============================================================================
