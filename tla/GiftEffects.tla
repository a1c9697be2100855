---------------------------- MODULE GiftEffects ----------------------------
(***************************************************************************)
(* gift_effects_agent: plays the animation a gift event carries, once per  *)
(* event id.  Its TriggerStore keeps a TaskRecord in status "completed"    *)
(* per event played, so that the second command of a save, SREM, changes   *)
(* nothing and the store is the set of event ids that have a record.       *)
(***************************************************************************)
EXTENDS Delivery

VARIABLES
    gift,       \* what each event carries, the same in every copy
    triggered,  \* the trigger store
    effects,    \* per event, gift.effect.triggered published
    skips       \* per event, gift.effect.skipped published

giftVars == <<gift, triggered, effects, skips>>

\* Whether the payload's gift has an animationUrl or at least a name.
GiftContents == {"animated", "bare"}

GiftTypeOK ==
    /\ gift \in [Events -> GiftContents]
    /\ pc \in {"idle", "handle", "mark", "play", "skip", "returned", "ack"}
    /\ triggered \subseteq Events
    /\ effects \in [Events -> Nat] /\ skips \in [Events -> Nat]

GiftStart ==
    /\ triggered = {}
    /\ effects = [e \in Events |-> 0] /\ skips = [e \in Events |-> 0]

GiftInit == DeliveryStart /\ gift \in [Events -> GiftContents] /\ GiftStart

TakeGift(e) == Take(e) /\ UNCHANGED giftVars

\* Mutant: the trigger store is not asked.
HandleAnyGift ==
    /\ pc = "handle"
    /\ Goto(IF gift[cur] = "bare" THEN "skip" ELSE "mark")
    /\ UNCHANGED giftVars

\* Mutant: one effect per combo instead of one per event.
HandleCombo ==
    /\ pc = "handle"
    /\ Goto(CASE triggered # {} -> "returned"
              [] triggered = {} /\ gift[cur] = "bare" -> "skip"
              [] OTHER -> "mark")
    /\ UNCHANGED giftVars

\* _handle_gift up to was_triggered and the animation.
HandleGift ==
    /\ pc = "handle"
    /\ Goto(CASE cur \in triggered -> "returned"
              [] cur \notin triggered /\ gift[cur] = "bare" -> "skip"
              [] OTHER -> "mark")
    /\ UNCHANGED giftVars

MarkTriggered ==
    /\ pc = "mark"
    /\ triggered' = triggered \cup {cur}
    /\ Goto("play")
    /\ UNCHANGED <<gift, effects, skips>>

PublishTriggered ==
    /\ pc = "play"
    /\ effects' = [effects EXCEPT ![cur] = @ + 1]
    /\ Goto("returned")
    /\ UNCHANGED <<gift, triggered, skips>>

\* A skipped gift is not recorded: a copy of it is skipped once more.
PublishSkipped ==
    /\ pc = "skip"
    /\ skips' = [skips EXCEPT ![cur] = @ + 1]
    /\ Goto("returned")
    /\ UNCHANGED <<gift, triggered, effects>>

GiftReturned == Acknowledge /\ UNCHANGED giftVars
GiftFault == (Raise \/ Restart) /\ UNCHANGED giftVars

GiftNext ==
    \/ \E e \in Events : TakeGift(e)
    \/ HandleGift \/ MarkTriggered \/ PublishTriggered \/ PublishSkipped
    \/ GiftReturned \/ GiftFault

GiftSpec == GiftInit /\ [][GiftNext]_<<deliveryVars, giftVars>>

-----------------------------------------------------------------------------
(* What the agent promises. *)

\* No event plays its effect twice, over copies of it, handler retries and
\* restarts: it is marked before the effect is published.
PlayedOnce == \A e \in Events : effects[e] <= 1

\* As long as no command raised and no process died, every animated gift
\* whose handler returned has played, whichever copies came.
PlayedWhenQuiet ==
    faults + crashes = 0 =>
        \A e \in handled : gift[e] = "animated" => effects[e] = 1

\* The agent's acceptance criterion: exactly one trigger per event id.  An
\* event marked and out of the agent's hands was played.
MarkedWasPlayed == \A e \in triggered \ {cur} : effects[e] = 1
=============================================================================
