--------------------------- MODULE GiftTaskProofs ---------------------------
(***************************************************************************)
(* The orchestrator and the gift agent together keep what each of them     *)
(* promises alone, and a completed task was played, for every set of tasks *)
(* and any number of dispatches, copies, faults and deaths of either side. *)
(*                                                                         *)
(* The agent's half of a step is a step of GiftEffects, so that its own    *)
(* proof carries over.  The orchestrator's half is a step of Orchestrator, *)
(* but for the answers: here they come from the agent, which may answer    *)
(* more often than it was asked, and HandOver says why they still are      *)
(* answers Orchestrator's invariant allows.                                *)
(***************************************************************************)
EXTENDS GiftTask, OrchestratorProofs

Agent == INSTANCE GiftProofs WITH
    Events <- GiftEvents, NoEvent <- NoTask,
    MaxArrivals <- GiftArrivals, MaxFaults <- GiftFaults, MaxCrashes <- GiftCrashes,
    pc <- giftPc, cur <- giftCur, tries <- giftTries, arrived <- giftArrived, handled <- giftHandled,
    arrivals <- giftArrivals, faults <- giftFaults, crashes <- giftCrashes

AnswersTypeOK == answers \in [Tasks -> [{"success", "failure"} -> Nat]]

Inv == IInv /\ AnswersTypeOK /\ HandOver

-----------------------------------------------------------------------------
(* The agent's half. *)

\* What GiftEffects assumes of its constants holds of the composition's.
LEMMA AgentAssumed == Agent!DeliveryAssumption /\ Agent!DeliveryBounds
  BY GiftAssumption, GiftBounds, RetryAssumption DEF Agent!DeliveryAssumption, Agent!DeliveryBounds

\* The agent starts as GiftEffects does.
LEMMA AgentInit == GiftTaskInit => Agent!GiftInit
  <1> SUFFICES ASSUME GiftTaskInit PROVE Agent!GiftInit
    OBVIOUS
  <1>1. Agent!DeliveryStart
    BY DEF GiftTaskInit, Gift!DeliveryStart, Agent!DeliveryStart
  <1>2. Agent!GiftStart
    BY DEF GiftTaskInit, Gift!GiftStart, Agent!GiftStart
  <1>3. gift \in [GiftEvents -> Agent!GiftContents]
    BY DEF GiftTaskInit, Gift!GiftContents, Agent!GiftContents
  <1> QED BY <1>1, <1>2, <1>3 DEF Agent!GiftInit

\* Every step of the agent in the composition is a step of GiftEffects.
LEMMA AgentStep == GiftAgent => Agent!GiftNext
  <1> SUFFICES ASSUME GiftAgent PROVE Agent!GiftNext
    OBVIOUS
  <1> USE DEF Gift!Goto, Agent!Goto, Gift!giftVars, Agent!giftVars
  <1>1. ASSUME NEW e \in GiftEvents, Gift!TakeGift(e) PROVE Agent!TakeGift(e)
    BY <1>1 DEF Gift!TakeGift, Gift!Take, Agent!TakeGift, Agent!Take
  <1>2. ASSUME Gift!HandleGift PROVE Agent!HandleGift
    BY <1>2, Zenon DEF Gift!HandleGift, Agent!HandleGift
  <1>3. ASSUME Gift!MarkTriggered PROVE Agent!MarkTriggered
    BY <1>3 DEF Gift!MarkTriggered, Agent!MarkTriggered
  <1>4. ASSUME Gift!GiftReturned PROVE Agent!GiftReturned
    BY <1>4 DEF Gift!GiftReturned, Agent!GiftReturned, Gift!Acknowledge, Agent!Acknowledge,
                Gift!Idle, Agent!Idle
  <1>5. ASSUME Gift!GiftFault PROVE Agent!GiftFault
    BY <1>5 DEF Gift!GiftFault, Agent!GiftFault, Gift!Raise, Agent!Raise,
                Gift!Restart, Agent!Restart, Gift!Idle, Agent!Idle
  <1>6. ASSUME Gift!PublishTriggered PROVE Agent!PublishTriggered
    BY <1>6 DEF Gift!PublishTriggered, Agent!PublishTriggered
  <1>7. ASSUME Gift!PublishSkipped PROVE Agent!PublishSkipped
    BY <1>7 DEF Gift!PublishSkipped, Agent!PublishSkipped
  <1> QED BY <1>1, <1>2, <1>3, <1>4, <1>5, <1>6, <1>7 DEF GiftAgent, Agent!GiftNext

\* The composition implements GiftEffects: whatever the orchestrator asks for
\* and whenever it dies, the agent does nothing it would not do alone.
THEOREM AgentImplemented == GiftTaskSpec => Agent!GiftSpec
  <1>1. [GiftTaskNext]_<<vars, agentVars, answers>>
        => [Agent!GiftNext]_<<Agent!deliveryVars, Agent!giftVars>>
    <2>1. UNCHANGED agentVars => UNCHANGED <<Agent!deliveryVars, Agent!giftVars>>
      BY DEF agentVars, Agent!deliveryVars, Agent!giftVars
    <2>2. GiftTaskNext => GiftAgent \/ UNCHANGED agentVars
      BY DEF GiftTaskNext, DeliverGiftAnswer, OrchestratorSteps
    <2> QED BY <2>1, <2>2, AgentStep
  <1> QED BY <1>1, AgentInit, PTL DEF GiftTaskSpec, Agent!GiftSpec

\* So the agent's inductive invariant holds in the composition too.
LEMMA AgentInvariant == GiftTaskSpec => []Agent!GiftInv
  BY AgentImplemented, AgentAssumed, Agent!GiftInvariance, PTL

\* What the orchestrator can notice of a step of the agent: effects are only
\* added, what is marked was taken from the bus, and an answer is about the
\* event in hand, a success only once that has played.
LEMMA AgentOutput ==
  ASSUME Agent!GiftInv, AnswersTypeOK, GiftAgent
  PROVE  /\ \A e \in GiftEvents : effects'[e] >= effects[e]
         /\ \A e \in giftArrived' : e \in giftArrived \/ OnTheBus(e)
         /\ triggered' \subseteq triggered \cup giftArrived /\ giftArrived \subseteq giftArrived'
         /\ \/ UNCHANGED answers
            \/ /\ giftCur \in giftArrived
               /\ effects'[giftCur] > 0
               /\ answers' = [answers EXCEPT ![giftCur[1]]["success"] = @ + 1]
            \/ /\ giftCur \in giftArrived
               /\ answers' = [answers EXCEPT ![giftCur[1]]["failure"] = @ + 1]
  <1> USE DEF Gift!Goto, Gift!giftVars
  <1>0. /\ effects \in [GiftEvents -> Nat] /\ giftArrived \subseteq GiftEvents
        /\ giftPc # "idle" => giftCur \in giftArrived
    BY DEF Agent!GiftInv, Agent!DeliveryTypeOK, Agent!GiftTypeOK
  <1>1. CASE \E e \in GiftEvents \ giftHandled : OnTheBus(e) /\ Gift!TakeGift(e)
    BY <1>0, <1>1 DEF Gift!TakeGift, Gift!Take, GiftAgent, Gift!PublishTriggered, Gift!PublishSkipped
  <1>2. CASE (Gift!HandleGift \/ Gift!MarkTriggered) /\ UNCHANGED answers
    BY <1>0, <1>2 DEF Gift!HandleGift, Gift!MarkTriggered
  <1>3. CASE (Gift!GiftReturned \/ Gift!GiftFault) /\ UNCHANGED answers
    BY <1>0, <1>3 DEF Gift!GiftReturned, Gift!GiftFault, Gift!Acknowledge, Gift!Raise, Gift!Restart
  <1>4. CASE Gift!PublishTriggered /\ Answer("gift.effect.triggered")
    <2>1. /\ effects' = [effects EXCEPT ![giftCur] = effects[giftCur] + 1]
          /\ giftCur \in giftArrived /\ giftArrived' = giftArrived /\ triggered' = triggered
      BY <1>0, <1>4 DEF Gift!PublishTriggered
    <2>2. answers' = [answers EXCEPT ![giftCur[1]]["success"] = @ + 1]
      BY <1>4 DEF Answer, AnswerKind
    <2> QED BY <1>0, <2>1, <2>2
  <1>5. CASE Gift!PublishSkipped /\ Answer("gift.effect.skipped")
    <2>1. /\ effects' = effects
          /\ giftCur \in giftArrived /\ giftArrived' = giftArrived /\ triggered' = triggered
      BY <1>0, <1>5 DEF Gift!PublishSkipped
    <2>2. answers' = [answers EXCEPT ![giftCur[1]]["failure"] = @ + 1]
      BY <1>5 DEF Answer, AnswerKind
    <2> QED BY <1>0, <2>1, <2>2
  <1> QED BY <1>1, <1>2, <1>3, <1>4, <1>5 DEF GiftAgent

\* What was played stays played.
LEMMA PlayedStays ==
  ASSUME NEW t \in Tasks, effects \in [GiftEvents -> Nat], effects' \in [GiftEvents -> Nat],
         \A e \in GiftEvents : effects'[e] >= effects[e], Played(t)
  PROVE  Played(t)'
  <1>1. PICK i \in 1 .. MaxSends : effects[<<t, i>>] > 0
    BY DEF Played
  <1>2. <<t, i>> \in GiftEvents
    BY DEF GiftEvents
  <1>3. effects'[<<t, i>>] > 0
    BY <1>1, <1>2
  <1> QED BY <1>3 DEF Played

\* A step of the agent: what the orchestrator holds is as true as before, and
\* the answer the agent gives is one to a dispatch, and true.
LEMMA AgentHandsOver ==
  ASSUME Inv, Agent!GiftInv, Agent!GiftInv', GiftAgent
  PROVE  AnswersTypeOK' /\ HandOver'
  <1>0. /\ effects \in [GiftEvents -> Nat] /\ effects' \in [GiftEvents -> Nat]
        /\ giftArrived \subseteq GiftEvents
    BY DEF Agent!GiftInv, Agent!DeliveryTypeOK, Agent!GiftTypeOK
  <1>1. /\ \A e \in GiftEvents : effects'[e] >= effects[e]
        /\ \A e \in giftArrived' : e \in giftArrived \/ OnTheBus(e)
        /\ triggered' \subseteq triggered \cup giftArrived /\ giftArrived \subseteq giftArrived'
    BY AgentOutput DEF Inv
  <1>2. UNCHANGED <<sent, pending, cur, job, record>>
    BY DEF GiftAgent, vars, storeVars, processVars, busVars, outputVars
  <1>3. \A t \in Tasks : Played(t) => Played(t)'
    BY <1>0, <1>1, PlayedStays
  <1>4. DispatchedInv'
    BY <1>1, <1>2 DEF Inv, HandOver, DispatchedInv, OnTheBus
  <1>c. giftCur \in giftArrived => giftCur[1] \in Tasks
    BY <1>0 DEF GiftEvents
  <1>5. ASSUME giftCur \in giftArrived, NEW t \in Tasks, t = giftCur[1]
        PROVE  /\ t \in Requested => sent[t] # << >>
               /\ effects'[giftCur] > 0 => Played(t)'
    <2>1. PICK i \in 1 .. MaxSends : giftCur = <<t, i>>
      BY <1>0, <1>5 DEF GiftEvents
    <2>2. giftCur[1] = t /\ giftCur[2] = i
      BY <2>1
    <2>3. t \in Requested => i <= Len(sent[t])
      BY <1>5, <2>2 DEF Inv, HandOver, DispatchedInv, OnTheBus
    <2>4. t \in Requested => sent[t] # << >>
      BY <2>3
    <2>5. effects'[giftCur] > 0 => Played(t)'
      BY <2>1 DEF Played
    <2> QED BY <2>2, <2>4, <2>5
  <1>6. AnswersTypeOK' /\ AnsweredInv' /\ \A t \in Tasks : answers'[t]["success"] > 0 => Played(t)'
    <2>0. answers \in [Tasks -> [{"success", "failure"} -> Nat]]
      BY DEF Inv, AnswersTypeOK
    <2>1. CASE UNCHANGED answers
      BY <1>2, <1>3, <2>0, <2>1 DEF Inv, HandOver, AnsweredInv, SuccessInv, AnswersTypeOK
    <2>2. ASSUME giftCur \in giftArrived, NEW kind \in {"success", "failure"},
                 kind = "success" => effects'[giftCur] > 0,
                 answers' = [answers EXCEPT ![giftCur[1]][kind] = @ + 1]
          PROVE  AnswersTypeOK' /\ AnsweredInv' /\ \A t \in Tasks : answers'[t]["success"] > 0 => Played(t)'
      <3>0. PICK t \in Tasks : t = giftCur[1]
        BY <1>c, <2>2
      <3>1. /\ t \in Requested => sent[t] # << >>
            /\ effects'[giftCur] > 0 => Played(t)'
        BY <1>5, <2>2, <3>0
      <3>2. answers' = [answers EXCEPT ![t] = [answers[t] EXCEPT ![kind] = answers[t][kind] + 1]]
        BY <2>2, <3>0
      <3>3. [answers[t] EXCEPT ![kind] = answers[t][kind] + 1] \in [{"success", "failure"} -> Nat]
        BY <2>0
      <3>4. AnswersTypeOK'
        BY <2>0, <3>2, <3>3 DEF AnswersTypeOK
      <3>5. /\ \A u \in Tasks \ {t} : answers'[u] = answers[u]
            /\ answers'[t]["success"] = answers[t]["success"] \/ kind = "success"
        BY <2>0, <3>2
      <3>6. AnsweredInv'
        <4> SUFFICES ASSUME NEW u \in Requested, NEW k \in {"success", "failure"}, answers'[u][k] > 0
                     PROVE  sent[u] # << >>
          BY <1>2 DEF AnsweredInv
        <4>1. CASE u = t
          BY <3>1, <4>1
        <4>2. CASE u # t
          BY <3>5, <4>2, TaskAssumption DEF Inv, HandOver, AnsweredInv
        <4> QED BY <4>1, <4>2
      <3>7. \A u \in Tasks : answers'[u]["success"] > 0 => Played(u)'
        <4> SUFFICES ASSUME NEW u \in Tasks, answers'[u]["success"] > 0 PROVE Played(u)'
          OBVIOUS
        <4>1. answers[u]["success"] > 0 => Played(u)
          BY DEF Inv, HandOver, SuccessInv
        <4>2. CASE answers'[u]["success"] = answers[u]["success"]
          BY <1>3, <4>1, <4>2
        <4>3. CASE u = t /\ kind = "success"
          BY <2>2, <3>1, <4>3
        <4>4. CASE u # t
          BY <3>5, <4>2, <4>4
        <4>5. CASE u = t /\ answers'[t]["success"] = answers[t]["success"]
          BY <4>2, <4>5
        <4> QED BY <3>5, <4>3, <4>4, <4>5
      <3> QED BY <3>4, <3>6, <3>7
    <2> QED BY <2>1, <2>2, AgentOutput DEF Inv
  <1>7. SuccessInv'
    <2>1. /\ \A e \in pending \cup InHand : e.kind = "success" => e.task \in Tasks /\ Played(e.task)
          /\ \A th \in Threads : job[th].rec.status = "completed" => job[th].task \in Tasks /\ Played(job[th].task)
      <3>1. \A e \in pending \cup InHand : e.task \in Tasks
        BY DEF Inv, IInv, TypeOK, InHand, Event
      <3> QED BY <3>1 DEF Inv, HandOver, SuccessInv
    <2> QED BY <1>2, <1>3, <1>6, <2>1 DEF Inv, HandOver, SuccessInv, InHand
  <1> QED BY <1>4, <1>6, <1>7 DEF HandOver

-----------------------------------------------------------------------------
(* The orchestrator's half. *)

\* A step of the orchestrator as the agent's half sees it: nothing but the
\* dispatches, which are only added to.
LEMMA SentGrows ==
  ASSUME TypeOK, OrchestratorSteps
  PROVE  \A t \in Tasks : Len(sent'[t]) >= Len(sent[t]) /\ Len(sent[t]) \in Nat /\ Len(sent'[t]) \in Nat
  <1>0. sent \in [Tasks -> Seq(Dispatch)] /\ \A t \in Tasks : Len(sent[t]) \in Nat
    <2>1. sent \in [Tasks -> Seq(Dispatch)]
      BY DEF TypeOK
    <2> QED BY <2>1
  <1>1. CASE UNCHANGED sent
    BY <1>0, <1>1
  <1>2. ASSUME NEW th \in Threads, Publish(th)
        PROVE  \A t \in Tasks : Len(sent'[t]) >= Len(sent[t]) /\ Len(sent'[t]) \in Nat
    <2> DEFINE d == [action |-> job[th].rec.action, attempt |-> job[th].rec.attempts]
    <2>1. UNCHANGED sent \/ sent' = [sent EXCEPT ![job[th].task] = Append(sent[job[th].task], d)]
      BY <1>2 DEF Publish
    <2> HIDE DEF d
    <2>2. ASSUME NEW t \in Tasks PROVE Len(Append(sent[t], d)) = Len(sent[t]) + 1
      BY <1>0, AppendElement
    <2> QED BY <1>0, <2>1, <2>2
  <1>3. UNCHANGED sent \/ \E th \in Threads : Publish(th)
    <2> USE DEF outputVars
    <2>1. CASE \E t \in Requested, a \in Actions : DeliverRequest(t, a)
      BY <2>1 DEF DeliverRequest, Deliver
    <2>2. CASE Consumer
      BY <2>2 DEF Consumer, Redeliver, Deliver, IgnoreDuplicate, RejectUnknownAction, DispatchRequested,
                  MarkCompleted, IgnoreForeignAnswer, FailPermanently, RetryOnFailure, RouteKeyError,
                  HandlerFrame, HandlerRaised, SaveRecord, SaveIndex, Acknowledge, Threads
    <2>3. CASE Sweeper
      BY <2>3 DEF Sweeper, SweepBegin, SweepListed, SweepEvict, SweepEnd, SweepList, SweepFresh, SweepTimeOut,
                  SweepUnroutable, SweepRetry, SweepTake, SweepFrame, SaveRecord, SaveIndex, Threads
    <2>4. CASE Fault
      BY <2>4 DEF Fault, ConsumerFault, HandlerRaised, SweeperFault, ConsumerStops, Restart
    <2>5. CASE \E t \in Tasks : Overdue(t)
      BY <2>5 DEF Overdue
    <2> QED BY <2>1, <2>2, <2>3, <2>4, <2>5 DEF OrchestratorSteps
  <1> QED BY <1>0, <1>1, <1>2, <1>3

\* A step that brings no success of its own keeps what is known of those kept.
LEMMA SuccessFrame ==
  ASSUME SuccessInv, UNCHANGED <<effects, answers>>,
         \A e \in (pending \cup InHand)' : e \in pending \cup InHand \/ e.kind # "success",
         \A th \in Threads : job'[th] = job[th] \/ job'[th].rec.status # "completed",
         \A t \in Tasks : record'[t].status = record[t].status
  PROVE  SuccessInv'
  BY DEF SuccessInv, Played

\* A success is only ever planned and recorded from a success that came in.
LEMMA SuccessStep ==
  ASSUME IInv, SuccessInv, OrchestratorSteps
  PROVE  SuccessInv'
  <1> USE DEF busVars, storeVars, processVars, NoJob, NoRecord
  <1>0. /\ UNCHANGED <<effects, answers>> /\ redeliver \subseteq pending
        /\ job \in [Threads -> Job] /\ record \in [Tasks -> Record] /\ listing \in [Tasks -> Record]
    BY DEF OrchestratorSteps, agentVars, IInv, TypeOK, StoreTypeOK
  <1>p. ASSUME NEW t, NEW rec, NEW pub, Plan("consumer", t, rec, pub), rec.status # "completed", HandlerFrame
        PROVE  SuccessInv'
    <2>1. \A th \in Threads : job'[th] = job[th] \/ job'[th].rec = rec
      BY <1>0, <1>p DEF Plan
    <2> QED BY <1>0, <1>p, <2>1, SuccessFrame DEF HandlerFrame, InHand
  <1>1. CASE \E t \in Requested, a \in Actions : DeliverRequest(t, a)
    BY <1>0, <1>1, SuccessFrame DEF DeliverRequest, Deliver, InHand
  <1>2. CASE \E e \in redeliver : Redeliver(e)
    BY <1>0, <1>2, SuccessFrame DEF Redeliver, Deliver, InHand
  <1>3. CASE IgnoreDuplicate \/ IgnoreForeignAnswer \/ RejectUnknownAction \/ DispatchRequested
             \/ FailPermanently \/ RetryOnFailure
    <2>1. HandlerFrame
      BY <1>3 DEF IgnoreDuplicate, IgnoreForeignAnswer, RejectUnknownAction, DispatchRequested,
                  FailPermanently, RetryOnFailure
    <2>2. CASE IgnoreDuplicate \/ IgnoreForeignAnswer
      BY <1>0, <2>1, <2>2, SuccessFrame DEF IgnoreDuplicate, IgnoreForeignAnswer, HandlerFrame, InHand
    <2>3. CASE RejectUnknownAction
      BY <1>p, <2>1, <2>3 DEF RejectUnknownAction, RejectedRecord
    <2>4. CASE DispatchRequested \/ RetryOnFailure
      BY <1>p, <2>1, <2>4 DEF DispatchRequested, RetryOnFailure, DispatchRecord
    <2>5. CASE FailPermanently
      <3>1. cur.task \in Tasks
        BY <2>5 DEF FailPermanently, Handling, NoEvent, IInv, TypeOK, Event
      <3>2. [record[cur.task] EXCEPT !.status = "failed"].status = "failed"
        BY <1>0, <3>1 DEF Record
      <3> QED BY <1>p, <2>1, <2>5, <3>2 DEF FailPermanently
    <2> QED BY <1>3, <2>2, <2>3, <2>4, <2>5
  <1>4. CASE MarkCompleted
    <2>1. cur \in pending \cup InHand /\ cur.kind = "success" /\ cur.task \in Tasks /\ HandlerFrame
      BY <1>4 DEF MarkCompleted, Handling, InHand, NoEvent, IInv, TypeOK, Event
    <2>2. job' = [job EXCEPT !["consumer"] = [task |-> cur.task,
                     rec |-> [record[cur.task] EXCEPT !.status = "completed"], pub |-> "none"]]
      BY <1>4 DEF MarkCompleted, Plan
    <2>3. \A th \in Threads : job'[th] = job[th] \/ job'[th].task = cur.task
      BY <1>0, <2>2
    <2> QED BY <1>0, <2>1, <2>3 DEF SuccessInv, Played, HandlerFrame, InHand
  <1>5. ASSUME NEW th \in Threads, SaveRecord(th) PROVE SuccessInv'
    <2>1. /\ record' = [record EXCEPT ![job[th].task] = job[th].rec]
          /\ UNCHANGED <<pending, cur, job>>
      BY <1>5 DEF SaveRecord, SetRecord
    <2>2. \A t \in Tasks : record'[t] = record[t] \/ (t = job[th].task /\ record'[t] = job[th].rec)
      BY <1>0, <2>1
    <2> QED BY <1>0, <2>1, <2>2 DEF SuccessInv, Played, InHand
  <1>6. ASSUME NEW th \in Threads, SaveIndex(th) \/ Publish(th) PROVE SuccessInv'
    BY <1>0, <1>6, SuccessFrame DEF SaveIndex, IndexRecord, Publish, InHand
  <1>7. CASE Acknowledge
    BY <1>0, <1>7, SuccessFrame DEF Acknowledge, InHand
  <1>8. CASE RouteKeyError \/ ConsumerFault
    BY <1>0, <1>8, SuccessFrame DEF RouteKeyError, ConsumerFault, HandlerRaised, InHand
  <1>9. CASE SweepBegin \/ SweepListed \/ SweepEvict \/ SweepEnd
    BY <1>0, <1>9, SuccessFrame DEF SweepBegin, SweepListed, SweepEvict, EvictFromIndex, SweepEnd, SweepFrame, InHand
  <1>10. ASSUME NEW t \in Tasks,
                SweepList(t) \/ SweepFresh(t) \/ SweepTimeOut(t) \/ SweepUnroutable(t) \/ SweepRetry(t)
         PROVE  SuccessInv'
    <2>1. /\ SweepFrame /\ UNCHANGED record
          /\ \A th \in Threads : job'[th] = job[th] \/ job'[th].rec.status # "completed"
      BY <1>0, <1>10 DEF SweepList, SweepFresh, SweepTimeOut, SweepUnroutable, SweepRetry, SweepTake,
             Plan, DispatchRecord, Record
    <2> QED BY <1>0, <2>1, SuccessFrame DEF SweepFrame, InHand
  <1>11. CASE SweeperFault \/ ConsumerStops
    BY <1>0, <1>11, SuccessFrame DEF SweeperFault, ConsumerStops, InHand
  <1>12. ASSUME NEW table \in RouteTables, NEW claimed \in SUBSET (pending \cup InHand), Restart(table, claimed)
         PROVE  SuccessInv'
    BY <1>0, <1>12, SuccessFrame DEF Restart, InHand
  <1>13. ASSUME NEW t \in Tasks, Overdue(t) PROVE SuccessInv'
    <2>1. \A u \in Tasks : record'[u].status = record[u].status
      BY <1>0, <1>13 DEF Overdue, Record
    <2> QED BY <1>0, <1>13, <2>1, SuccessFrame DEF Overdue, InHand
  <1>14. {"consumer", "sweeper"} \subseteq Threads
    BY DEF Threads
  <1> QED BY <1>1, <1>2, <1>3, <1>4, <1>5, <1>6, <1>7, <1>8, <1>9, <1>10, <1>11, <1>12, <1>13, <1>14
          DEF OrchestratorSteps, Consumer, Sweeper, Fault

\* A step of the orchestrator disturbs nothing of what passes between the two.
LEMMA OrchestratorHandsOver ==
  ASSUME Inv, Agent!GiftInv, OrchestratorSteps
  PROVE  AnswersTypeOK' /\ HandOver'
  <1>0. /\ UNCHANGED <<answers, giftArrived, triggered>> /\ giftArrived \subseteq GiftEvents
        /\ IInv /\ SuccessInv
    BY DEF OrchestratorSteps, agentVars, Agent!GiftInv, Agent!DeliveryTypeOK, Inv, HandOver
  <1>1. \A t \in Tasks : Len(sent'[t]) >= Len(sent[t]) /\ Len(sent[t]) \in Nat /\ Len(sent'[t]) \in Nat
    BY <1>0, SentGrows DEF IInv
  <1>2. SuccessInv'
    BY <1>0, SuccessStep
  <1>3. DispatchedInv'
    <2> SUFFICES ASSUME NEW e \in giftArrived PROVE OnTheBus(e)'
      BY <1>0 DEF Inv, HandOver, DispatchedInv
    <2>1. PICK t \in Tasks, i \in 1 .. MaxSends : e = <<t, i>>
      BY <1>0 DEF GiftEvents
    <2>2. e[1] = t /\ e[2] = i /\ OnTheBus(e)
      BY <2>1 DEF Inv, HandOver, DispatchedInv
    <2>3. i \in Nat
      BY GiftBounds
    <2> QED BY <1>1, <2>2, <2>3 DEF OnTheBus
  <1>4. AnsweredInv'
    <2> SUFFICES ASSUME NEW t \in Requested, NEW kind \in {"success", "failure"}, answers[t][kind] > 0
                 PROVE  sent'[t] # << >>
      BY <1>0 DEF AnsweredInv
    <2>1. sent[t] # << >> /\ t \in Tasks
      BY TaskAssumption DEF Inv, HandOver, AnsweredInv
    <2>2. Len(sent[t]) > 0
      <3>1. sent[t] \in Seq(Dispatch)
        BY <1>0, <2>1 DEF IInv, TypeOK
      <3> QED BY <2>1, <3>1
    <2>3. Len(sent'[t]) > 0
      BY <1>1, <2>1, <2>2
    <2> QED BY <2>3
  <1> QED BY <1>0, <1>2, <1>3, <1>4 DEF Inv, HandOver, AnswersTypeOK

-----------------------------------------------------------------------------
(* The agent's answer reaches the orchestrator. *)

\* The answer is about a task that was dispatched, as Orchestrator's
\* invariant asks of one, and a success is one whose effect has been played.
LEMMA AnswerStep ==
  ASSUME Inv, NEW t \in Tasks, NEW kind \in {"success", "failure"}, DeliverGiftAnswer(t, kind)
  PROVE  Inv'
  <1> DEFINE e == [kind |-> kind, task |-> t, action |-> NoAction]
  <1>0. /\ IInv /\ TypeOK /\ Parts /\ answers \in [Tasks -> [{"success", "failure"} -> Nat]]
    BY PartsIInv DEF Inv, AnswersTypeOK
  <1>1. e \in Event /\ e.kind = kind /\ e.task = t
    BY DEF Event
  <1>2. /\ Deliver(e) /\ answers[t][kind] > 0
        /\ answers' = [answers EXCEPT ![t][kind] = @ - 1]
        /\ UNCHANGED <<busVars, targetVars, requests, agentVars>>
    BY DEF DeliverGiftAnswer
  <1>3. UNCHANGED <<pending, redeliver, outstanding, armed, requests, record, topAttempt, sent, announced,
                    job, effects, triggered, giftArrived>> /\ cur' = e
    BY <1>2 DEF Deliver, busVars, targetVars, storeVars, outputVars, agentVars
  <1> HIDE DEF e
  <1>4. EventInv(e)
    <2>1. t \in Requested => sent[t] # << >>
      BY <1>2 DEF Inv, HandOver, AnsweredInv
    <2>2. topAttempt[t] \in Nat /\ (topAttempt[t] = 0 => sent[t] = << >>)
      BY <1>0 DEF TypeOK, Parts, TaskPart, TaskInv
    <2> QED BY <1>1, <2>1, <2>2 DEF EventInv
  <1>5. IInv'
    <2>1. TypeOK'
      BY <1>0, <1>1, <1>2, <1>3, DeliverType DEF TypeOK
    <2>2. TaskPart'
      BY <1>0, <1>3, TaskFrame DEF Parts
    <2>3. Parts'
      BY <1>0, <1>1, <1>2, <1>3, <1>4, <2>2, DeliverStep DEF Parts, BusyPart
    <2> QED BY <2>1, <2>3 DEF IInv, Parts, TaskPart, ListingPart, EventPart, BusyPart, Threads
  <1>6. /\ AnswersTypeOK' /\ \A u \in Tasks, k \in {"success", "failure"} : answers'[u][k] <= answers[u][k]
    <2>1. answers' = [answers EXCEPT ![t] = [answers[t] EXCEPT ![kind] = answers[t][kind] - 1]]
      BY <1>2
    <2>2. [answers[t] EXCEPT ![kind] = answers[t][kind] - 1] \in [{"success", "failure"} -> Nat]
      BY <1>0, <1>2
    <2>3. AnswersTypeOK'
      BY <1>0, <2>1, <2>2 DEF AnswersTypeOK
    <2>4. ASSUME NEW u \in Tasks, NEW k \in {"success", "failure"} PROVE answers'[u][k] <= answers[u][k]
      BY <1>0, <2>1
    <2> QED BY <2>3, <2>4
  <1>7. DispatchedInv'
    BY <1>3 DEF Inv, HandOver, DispatchedInv, OnTheBus
  <1>8. ASSUME NEW u \in Tasks, NEW k \in {"success", "failure"}, answers'[u][k] > 0 PROVE answers[u][k] > 0
    BY <1>0, <1>6, <1>8 DEF AnswersTypeOK
  <1>9. AnsweredInv'
    BY <1>3, <1>8, TaskAssumption DEF Inv, HandOver, AnsweredInv
  <1>10. SuccessInv'
    <2>1. e.kind = "success" => Played(e.task)
      BY <1>1, <1>2 DEF Inv, HandOver, SuccessInv
    <2>2. (pending \cup InHand)' \subseteq pending \cup {e}
      BY <1>3 DEF InHand
    <2> QED BY <1>3, <1>8, <2>1, <2>2 DEF Inv, HandOver, SuccessInv, Played
  <1> QED BY <1>5, <1>6, <1>7, <1>9, <1>10 DEF Inv, HandOver

-----------------------------------------------------------------------------
(* The theorems. *)

\* Nothing is dispatched, played, answered or recorded at the start.
LEMMA StartInv == GiftTaskInit => Inv
  <1> SUFFICES ASSUME GiftTaskInit PROVE Inv
    OBVIOUS
  <1>1. IInv
    BY InitInv DEF GiftTaskInit
  <1>2. AnswersTypeOK
    BY DEF GiftTaskInit, AnswersTypeOK
  <1>3. DispatchedInv
    BY DEF GiftTaskInit, Gift!DeliveryStart, Gift!GiftStart, DispatchedInv
  <1>4. AnsweredInv /\ \A t \in Tasks : ~(answers[t]["success"] > 0)
    BY TaskAssumption DEF GiftTaskInit, AnsweredInv
  <1>5. SuccessInv
    BY <1>4 DEF GiftTaskInit, Init, StoreInit, SuccessInv, NoJob, NoRecord, InHand
  <1> QED BY <1>1, <1>2, <1>3, <1>4, <1>5 DEF Inv, HandOver

\* Every step of either side keeps what both rest on.
LEMMA CompositionStep ==
  ASSUME Inv, Agent!GiftInv, Agent!GiftInv', [GiftTaskNext]_<<vars, agentVars, answers>>
  PROVE  Inv'
  <1>1. CASE GiftAgent
    <2>1. UNCHANGED vars
      BY <1>1 DEF GiftAgent
    <2>2. IInv'
      BY <2>1, InvStep DEF Inv
    <2> QED BY <1>1, <2>2, AgentHandsOver DEF Inv
  <1>2. CASE \E t \in Tasks, kind \in {"success", "failure"} : DeliverGiftAnswer(t, kind)
    BY <1>2, AnswerStep
  <1>3. CASE OrchestratorSteps
    <2>1. Next
      BY <1>3 DEF OrchestratorSteps, Next, Arrival
    <2>2. IInv'
      BY <2>1, InvStep DEF Inv
    <2> QED BY <1>3, <2>2, OrchestratorHandsOver DEF Inv
  <1>4. CASE UNCHANGED <<vars, agentVars, answers>>
    <2>1. IInv'
      BY <1>4, InvStep DEF Inv
    <2>2. AnswersTypeOK' /\ DispatchedInv' /\ AnsweredInv'
      BY <1>4 DEF Inv, HandOver, AnswersTypeOK, DispatchedInv, AnsweredInv, OnTheBus, vars, agentVars, outputVars
    <2>3. SuccessInv'
      BY <1>4, SuccessFrame DEF Inv, HandOver, vars, agentVars, storeVars, processVars, busVars, InHand
    <2> QED BY <2>1, <2>2, <2>3 DEF Inv, HandOver
  <1> QED BY <1>1, <1>2, <1>3, <1>4 DEF GiftTaskNext

\* What the orchestrator promises against any targets it also keeps with the
\* real agent, which may answer a dispatch again; and what each side takes
\* from the other holds in every reachable state.
THEOREM CompositionInvariance == GiftTaskSpec => [](IInv /\ HandOver)
  <1>1. Inv => IInv /\ HandOver
    BY DEF Inv
  <1>2. Inv /\ Agent!GiftInv /\ Agent!GiftInv' /\ [GiftTaskNext]_<<vars, agentVars, answers>> => Inv'
    BY CompositionStep
  <1> QED BY <1>1, <1>2, StartInv, AgentInvariant, PTL DEF GiftTaskSpec

\* A task in status "completed" has played its effect, whatever was retried,
\* timed out or delivered again, and whoever died in between.
THEOREM CompletedTasksPlayed == GiftTaskSpec => []CompletedWasPlayed
  <1>1. IInv /\ HandOver => CompletedWasPlayed
    BY TaskAssumption DEF HandOver, SuccessInv, CompletedWasPlayed
  <1> QED BY <1>1, CompositionInvariance, PTL

\* Every dispatch of a task plays at most once, and nothing else plays for it.
THEOREM DispatchesPlayOnce == GiftTaskSpec => []PlaysWithinDispatches
  <1>1. Agent!GiftInv /\ HandOver => PlaysWithinDispatches
    <2> SUFFICES ASSUME Agent!GiftInv, HandOver, NEW t \in Requested, NEW i \in 1 .. MaxSends
                 PROVE  effects[<<t, i>>] <= IF i <= Len(sent[t]) THEN 1 ELSE 0
      BY DEF PlaysWithinDispatches
    <2> DEFINE e == <<t, i>>
    <2>1. e \in GiftEvents /\ e[1] = t /\ e[2] = i
      BY TaskAssumption DEF GiftEvents
    <2> HIDE DEF e
    <2>2. effects[e] \in Nat /\ effects[e] <= 1 /\ (e \notin triggered => effects[e] = 0)
      BY <2>1 DEF Agent!GiftInv, Agent!GiftTypeOK, Agent!MarkInv
    <2>3. e \in triggered => i <= Len(sent[t])
      BY <2>1 DEF HandOver, DispatchedInv, OnTheBus
    <2>4. effects[e] <= IF i <= Len(sent[t]) THEN 1 ELSE 0
      BY <2>2, <2>3
    <2> QED BY <2>4 DEF e
  <1> QED BY <1>1, CompositionInvariance, AgentInvariant, PTL

\* Every step of the composition is one of the ledger's, or stutters.
LEMMA CompositionRefines ==
  ASSUME IInv, [GiftTaskNext]_<<vars, agentVars, answers>>
  PROVE  [Ledger!Next]_(Ledger!vars)
  <1>1. CASE OrchestratorSteps
    <2>1. Next
      BY <1>1 DEF OrchestratorSteps, Next, Arrival
    <2> QED BY <2>1, StepRefines
  <1>2. CASE GiftAgent \/ UNCHANGED <<vars, agentVars, answers>>
    <2>1. UNCHANGED vars
      BY <1>2 DEF GiftAgent
    <2> QED BY <2>1, StepRefines
  <1>3. CASE \E t \in Tasks, kind \in {"success", "failure"} : DeliverGiftAnswer(t, kind)
    <2>1. LedgerStutters
      BY <1>3 DEF DeliverGiftAnswer, Deliver, LedgerStutters, storeVars, outputVars
    <2> QED BY <2>1, Stutter
  <1> QED BY <1>1, <1>2, <1>3 DEF GiftTaskNext

\* With the real agent the orchestrator still implements the ledger.
THEOREM CompositionImplementsLedger == GiftTaskSpec => ImplementsLedger
  <1>1. GiftTaskInit => Ledger!Init
    BY LedgerInit DEF GiftTaskInit
  <1>2. IInv /\ [GiftTaskNext]_<<vars, agentVars, answers>> => [Ledger!Next]_(Ledger!vars)
    BY CompositionRefines
  <1>3. GiftTaskSpec => []IInv
    BY CompositionInvariance, PTL
  <1> QED BY <1>1, <1>2, <1>3, PTL DEF GiftTaskSpec, ImplementsLedger, Ledger!Spec
=============================================================================
