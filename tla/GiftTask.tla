------------------------------ MODULE GiftTask ------------------------------
(***************************************************************************)
(* The orchestrator and the gift effects agent together.  A task.requested *)
(* of trigger_gift_effect is dispatched as gift.sent, an event with a new  *)
(* event id every time; the agent plays the effect, or skips it, and       *)
(* answers under the task's id.  The backend sends gifts too, whose        *)
(* answers carry ids that are no tasks.                                    *)
(*                                                                         *)
(* Both sides keep their threads, retries and deaths.  The agent takes its *)
(* answers' place in Orchestrator: it may answer one dispatch twice, when  *)
(* a skipped gift is delivered again.                                      *)
(***************************************************************************)
EXTENDS Orchestrator

CONSTANTS
    MaxSends,     \* bound: dispatches of a task that the agent looks at
    GiftArrivals, GiftFaults, GiftCrashes   \* bounds of the agent

ASSUME GiftBounds == {MaxSends, GiftArrivals, GiftFaults, GiftCrashes} \subseteq Nat

VARIABLES
    giftPc, giftCur, giftTries, giftArrived, giftHandled, giftArrivals, giftFaults, giftCrashes,
    gift, triggered, effects, skips,
    answers   \* per task and kind, answers the orchestrator has not read

agentVars == <<giftPc, giftCur, giftTries, giftArrived, giftHandled, giftArrivals, giftFaults,
               giftCrashes, gift, triggered, effects, skips>>

\* The event of the i-th dispatch of t; i = 1 for a gift of the backend.
GiftEvents == Tasks \X (1 .. MaxSends)

ASSUME GiftAssumption == NoTask \notin GiftEvents

Gift == INSTANCE GiftEffects WITH
    Events <- GiftEvents, NoEvent <- NoTask,
    MaxArrivals <- GiftArrivals, MaxFaults <- GiftFaults, MaxCrashes <- GiftCrashes,
    pc <- giftPc, cur <- giftCur, tries <- giftTries, arrived <- giftArrived, handled <- giftHandled,
    arrivals <- giftArrivals, faults <- giftFaults, crashes <- giftCrashes

\* Mutant: every answer of the agent is a success.
AnswerIsSuccess(type) == "success"

\* _is_failure, of the agent's two answers.
AnswerKind(type) == IF type = "gift.effect.skipped" THEN "failure" ELSE "success"

\* All gifts of a behaviour carry alike: what one carries is nothing to others.
GiftTaskInit ==
    /\ Init
    /\ Gift!DeliveryStart /\ Gift!GiftStart
    /\ \E content \in Gift!GiftContents : gift = [e \in GiftEvents |-> content]
    /\ answers = [t \in Tasks |-> [kind \in {"success", "failure"} |-> 0]]

OnTheBus(e) == e[2] <= IF e[1] \in Requested THEN Len(sent[e[1]]) ELSE 1

Answer(type) == answers' = [answers EXCEPT ![giftCur[1]][AnswerKind(type)] = @ + 1]

GiftAgent ==
    /\ \/ /\ \/ \E e \in GiftEvents \ giftHandled : OnTheBus(e) /\ Gift!TakeGift(e)
             \/ Gift!HandleGift \/ Gift!MarkTriggered \/ Gift!GiftReturned \/ Gift!GiftFault
          /\ UNCHANGED answers
       \/ Gift!PublishTriggered /\ Answer("gift.effect.triggered")
       \/ Gift!PublishSkipped /\ Answer("gift.effect.skipped")
    /\ UNCHANGED vars

DeliverGiftAnswer(t, kind) ==
    /\ redeliver = {}
    /\ answers[t][kind] > 0
    /\ answers' = [answers EXCEPT ![t][kind] = @ - 1]
    /\ Deliver([kind |-> kind, task |-> t, action |-> NoAction])
    /\ UNCHANGED <<busVars, targetVars, requests, agentVars>>

OrchestratorSteps ==
    /\ \/ \E t \in Requested, a \in Actions : DeliverRequest(t, a)
       \/ Consumer \/ Sweeper \/ Fault
       \/ \E t \in Tasks : Overdue(t)
    /\ UNCHANGED <<agentVars, answers>>

GiftTaskNext ==
    \/ GiftAgent
    \/ \E t \in Tasks, kind \in {"success", "failure"} : DeliverGiftAnswer(t, kind)
    \/ OrchestratorSteps

GiftTaskSpec == GiftTaskInit /\ [][GiftTaskNext]_<<vars, agentVars, answers>>

-----------------------------------------------------------------------------
(* What each side rests on of the other; with the invariants of the two     *)
(* this is inductive.                                                       *)

Played(t) == \E i \in 1 .. MaxSends : effects[<<t, i>>] > 0

\* The agent only handles, and marks, what is on the bus.
DispatchedInv ==
    /\ \A e \in giftArrived : OnTheBus(e)
    /\ triggered \subseteq giftArrived

\* An answer to a task comes after a dispatch of it.
AnsweredInv ==
    \A t \in Requested :
        (\E kind \in {"success", "failure"} : answers[t][kind] > 0) => sent[t] # << >>

\* Wherever a success is kept, as an answer, an event, a plan or a record, its
\* effect has been played.
SuccessInv ==
    /\ \A t \in Tasks : answers[t]["success"] > 0 => Played(t)
    /\ \A e \in pending \cup InHand : e.kind = "success" => Played(e.task)
    /\ \A th \in Threads :
          job[th].rec.status = "completed" => job[th].task \in Tasks /\ Played(job[th].task)
    /\ \A t \in Tasks : record[t].status = "completed" => Played(t)

HandOver == DispatchedInv /\ AnsweredInv /\ SuccessInv

-----------------------------------------------------------------------------
(* What the two promise together. *)

\* A task that is completed was played, whatever overtook what, and whoever
\* died: a gift without animation never completes.
CompletedWasPlayed ==
    \A t \in Requested : record[t].status = "completed" => Played(t)

\* A task plays at most once for each of its dispatches, over redelivery to
\* the agent and its retries, and nothing plays that was not dispatched.
PlaysWithinDispatches ==
    \A t \in Requested, i \in 1 .. MaxSends :
        effects[<<t, i>>] <= IF i <= Len(sent[t]) THEN 1 ELSE 0
=============================================================================
