-------------------------- MODULE MessageChannel --------------------------
(***************************************************************************)
(* What the bus promises an agent, whatever Redis commands raise and       *)
(* whenever its process dies: an at-least-once channel.  A message that    *)
(* was sent is offered any number of times; it is settled only after one   *)
(* of these attempts came to an end, or when it is trimmed; and a settled  *)
(* message is never offered again.  It promises neither that a message is  *)
(* offered once nor that messages are offered in the order they were sent. *)
(***************************************************************************)
EXTENDS Integers

CONSTANT Messages   \* the positions 1 .. n of the stream

VARIABLES
    sent,      \* messages sent so far
    trimmed,   \* how many of them may be lost
    attempts,  \* how often each was offered to the agent
    ended,     \* those of which an attempt came to an end
    settled    \* those that are not offered again

vars == <<sent, trimmed, attempts, ended, settled>>

Init ==
    /\ sent = 0 /\ trimmed = 0
    /\ attempts = [m \in Messages |-> 0]
    /\ ended = {} /\ settled = {}

Send ==
    /\ sent' = sent + 1
    /\ trimmed' \in trimmed .. sent'
    /\ UNCHANGED <<attempts, ended, settled>>

Open(m) == m \in 1 .. sent /\ m \notin settled

\* What nobody subscribed to ends as it is offered.
Offer(m) ==
    /\ Open(m)
    /\ attempts' = [attempts EXCEPT ![m] = @ + 1]
    /\ ended' \in {ended, ended \cup {m}}
    /\ UNCHANGED <<sent, trimmed, settled>>

\* Handled, refused, dropped as a duplicate, or dead-lettered.
End(m) ==
    /\ Open(m)
    /\ attempts[m] > 0
    /\ ended' = ended \cup {m}
    /\ UNCHANGED <<sent, trimmed, attempts, settled>>

Settle(m) ==
    /\ Open(m)
    /\ m \in ended
    /\ settled' = settled \cup {m}
    /\ UNCHANGED <<sent, trimmed, attempts, ended>>

Lose(lost) ==
    /\ lost \subseteq 1 .. trimmed
    /\ settled' = settled \cup lost
    /\ UNCHANGED <<sent, trimmed, attempts, ended>>

Next ==
    \/ Send
    \/ \E m \in Messages : Offer(m) \/ End(m) \/ Settle(m)
    \/ \E lost \in SUBSET Messages : Lose(lost)

Spec == Init /\ [][Next]_vars
=============================================================================
