---------------------------- MODULE TaskLedger ----------------------------
(***************************************************************************)
(* What the orchestrator promises the rest of the system, whatever its     *)
(* threads, its store and its crashes do: a task id is bound to one action *)
(* for ever; its attempts are numbered one by one up to MaxAttempts; the   *)
(* first of them goes out at most once; nothing goes out for an attempt    *)
(* that was not reserved, or for a rejected task; and task.failed goes out *)
(* only when the last attempt has been used.  It promises neither that a   *)
(* retry goes out once nor that a settled task stays settled.              *)
(***************************************************************************)
EXTENDS Integers, Sequences

CONSTANTS Tasks, Actions, NoAction, MaxAttempts

VARIABLES
    asked,      \* the action a task is bound to
    top,        \* attempts reserved so far; 0 for a rejected task
    sent,       \* dispatches published
    announced   \* task.failed events published

vars == <<asked, top, sent, announced>>

Init ==
    /\ asked = [t \in Tasks |-> NoAction]
    /\ top = [t \in Tasks |-> 0]
    /\ sent = [t \in Tasks |-> << >>]
    /\ announced = [t \in Tasks |-> 0]

Bind(t, a, attempts) ==
    /\ asked[t] = NoAction
    /\ asked' = [asked EXCEPT ![t] = a]
    /\ top' = [top EXCEPT ![t] = attempts]
    /\ UNCHANGED <<sent, announced>>

Reject(t, a) == Bind(t, a, 0)
Accept(t, a) == Bind(t, a, 1)

Reserve(t) ==
    /\ top[t] \in 1 .. MaxAttempts - 1
    /\ top' = [top EXCEPT ![t] = @ + 1]
    /\ UNCHANGED <<asked, sent, announced>>

Send(t, attempt) ==
    /\ attempt \in 1 .. top[t]
    /\ attempt = 1 => \A i \in 1 .. Len(sent[t]) : sent[t][i].attempt # 1
    /\ sent' = [sent EXCEPT ![t] = Append(@, [action |-> asked[t], attempt |-> attempt])]
    /\ UNCHANGED <<asked, top, announced>>

Announce(t) ==
    /\ top[t] = MaxAttempts
    /\ announced' = [announced EXCEPT ![t] = @ + 1]
    /\ UNCHANGED <<asked, top, sent>>

Next == \E t \in Tasks :
    \/ \E a \in Actions : Reject(t, a) \/ Accept(t, a)
    \/ Reserve(t)
    \/ \E attempt \in 1 .. MaxAttempts : Send(t, attempt)
    \/ Announce(t)

Spec == Init /\ [][Next]_vars
=============================================================================
