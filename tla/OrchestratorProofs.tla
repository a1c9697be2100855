------------------------ MODULE OrchestratorProofs ------------------------
(***************************************************************************)
(* What holds of the orchestrator for every set of tasks and actions,      *)
(* every routing table, every MAX_RETRIES and HandlerAttempts and any      *)
(* number of requests, faults and crashes: Orchestrator's invariants by    *)
(* way of the inductive invariant IInv.                                    *)
(*                                                                         *)
(* The argument: a first request saves its record before it publishes, and *)
(* only when there was no record; every later plan of either thread comes  *)
(* from a record that was once in the store, so it keeps the record's      *)
(* action and is numbered at most one beyond an attempt already recorded,  *)
(* even when the record it was made from is stale by then.                 *)
(***************************************************************************)
EXTENDS MCOrchestrator, TLAPS

\* The absent record is a record.
LEMMA NoRecordIsRecord == NoRecord \in Record
  BY DEF NoRecord, Record

\* A thread with nothing planned has a well-typed plan.
LEMMA NoJobIsJob == NoJob \in Job
  BY NoRecordIsRecord DEF NoJob, Job

\* A record with another status is a record.
LEMMA StatusChange ==
  ASSUME NEW r \in Record, NEW s \in Statuses PROVE [r EXCEPT !.status = s] \in Record
  BY DEF Record

\* Appending keeps a sequence over its set.
LEMMA AppendType ==
  ASSUME NEW S, NEW s \in Seq(S), NEW e \in S PROVE Append(s, e) \in Seq(S)
  OBVIOUS

\* The orchestrator starts well typed.
LEMMA InitTypeOK == Init => TypeOK
  BY NoRecordIsRecord, NoJobIsJob, TaskAssumption, RetryAssumption
  DEF Init, StoreInit, TypeOK, StoreTypeOK, Threads, ConsumerStates, SweeperStates, NoEvent

\* Handing any event to the consumer keeps the types.
LEMMA DeliverType ==
  ASSUME TypeOK, NEW e \in Event, Deliver(e), pending' \subseteq Event, redeliver' \subseteq Event,
         outstanding' \in [Tasks -> Nat], armed' \in [Tasks -> Nat], requests' \in Nat
  PROVE  TypeOK'
  BY RetryAssumption
  DEF Deliver, TypeOK, StoreTypeOK, Threads, ConsumerStates, SweeperStates, storeVars, outputVars

\* Settling on a well-typed plan keeps the types.
LEMMA PlanType ==
  ASSUME TypeOK, NEW th \in Threads, NEW t \in Tasks, NEW rec \in Record,
         NEW pub \in {"none", "dispatch", "failed"}, Plan(th, t, rec, pub),
         UNCHANGED <<storeVars, topAttempt, routes, cur, tries, toList, busVars, targetVars, outputVars, budgetVars>>,
         listing' \in [Tasks -> Record]
  PROVE  TypeOK'
  <1>1. /\ job' \in [Threads -> Job]
        /\ job'[th].task = t /\ \A u \in Threads \ {th} : job'[u] = job[u]
    BY DEF Plan, Job, TypeOK
  <1>2. /\ pc' \in [Threads -> ConsumerStates \cup SweeperStates]
        /\ pc'["consumer"] \in ConsumerStates /\ pc'["sweeper"] \in SweeperStates
        /\ \A u \in Threads \ {th} : pc'[u] = pc[u]
    BY DEF Plan, TypeOK, Threads, ConsumerStates, SweeperStates
  <1>3. \A u \in Threads : pc'[u] \in {"set", "index", "publish", "evict"} => job'[u].task \in Tasks
    BY <1>1, <1>2 DEF TypeOK
  <1>4. StoreTypeOK'
    BY DEF TypeOK, StoreTypeOK, storeVars
  <1>5. /\ routes' = routes /\ cur' = cur /\ tries' = tries /\ toList' = toList /\ topAttempt' = topAttempt
        /\ pending' = pending /\ redeliver' = redeliver /\ outstanding' = outstanding /\ armed' = armed
        /\ sent' = sent /\ announced' = announced /\ requests' = requests /\ faults' = faults /\ crashes' = crashes
    BY DEF busVars, targetVars, outputVars, budgetVars
  <1> QED BY <1>1, <1>2, <1>3, <1>4, <1>5 DEF TypeOK

\* Every step of either thread, of a target or of a fault keeps the types.
LEMMA TypeStep == TypeOK /\ [Next]_vars => TypeOK'
  <1> SUFFICES ASSUME TypeOK, [Next]_vars PROVE TypeOK'
    OBVIOUS
  <1> USE TaskAssumption, RetryAssumption, NoRecordIsRecord, NoJobIsJob
  <1> USE DEF storeVars, processVars, busVars, targetVars, outputVars, budgetVars,
              TypeOK, StoreTypeOK, Threads, ConsumerStates, SweeperStates
  <1>1. ASSUME NEW t \in Requested, NEW a \in Actions, DeliverRequest(t, a) PROVE TypeOK'
    <2> DEFINE e == [kind |-> "request", task |-> t, action |-> a]
    <2>1. e \in Event
      BY DEF Event
    <2>2. Deliver(e)
      BY <1>1 DEF DeliverRequest
    <2>3. /\ pending' \subseteq Event /\ redeliver' \subseteq Event /\ requests' \in Nat
          /\ outstanding' \in [Tasks -> Nat] /\ armed' \in [Tasks -> Nat]
      BY <1>1 DEF DeliverRequest
    <2> HIDE DEF e, TypeOK
    <2> QED BY <2>1, <2>2, <2>3, DeliverType
  <1>2. ASSUME NEW t \in Tasks, NEW kind \in {"success", "failure"}, DeliverAnswer(t, kind) PROVE TypeOK'
    <2> DEFINE e == [kind |-> kind, task |-> t, action |-> NoAction]
    <2>1. e \in Event
      BY DEF Event
    <2>2. Deliver(e)
      BY <1>2 DEF DeliverAnswer
    <2>3. /\ pending' \subseteq Event /\ redeliver' \subseteq Event /\ requests' \in Nat
          /\ outstanding' \in [Tasks -> Nat] /\ armed' \in [Tasks -> Nat]
      BY <1>2, SMTT(30) DEF DeliverAnswer
    <2> HIDE DEF e, TypeOK
    <2> QED BY <2>1, <2>2, <2>3, DeliverType
  <1>3. ASSUME NEW t \in Tasks, NEW kind \in {"success", "failure"}, DeliverStreamEnded(t, kind) PROVE TypeOK'
    <2> DEFINE e == [kind |-> kind, task |-> t, action |-> NoAction]
    <2>1. e \in Event
      BY DEF Event
    <2>2. Deliver(e)
      BY <1>3 DEF DeliverStreamEnded
    <2>3. /\ pending' \subseteq Event /\ redeliver' \subseteq Event /\ requests' \in Nat
          /\ outstanding' \in [Tasks -> Nat] /\ armed' \in [Tasks -> Nat]
      BY <1>3 DEF DeliverStreamEnded
    <2> HIDE DEF e, TypeOK
    <2> QED BY <2>1, <2>2, <2>3, DeliverType
  <1>4. ASSUME NEW e \in redeliver, Redeliver(e) PROVE TypeOK'
    BY <1>4, DeliverType DEF Redeliver
  <1>5. CASE UNCHANGED vars
    BY <1>5 DEF vars
  <1>t. ASSUME NEW t \in Tasks, NEW rec \in Record, NEW pub \in {"none", "dispatch", "failed"},
               Plan("consumer", t, rec, pub), HandlerFrame
        PROVE  TypeOK'
    <2>1. listing' \in [Tasks -> Record] /\ "consumer" \in Threads
      BY <1>t DEF HandlerFrame, TypeOK, Threads
    <2>2. UNCHANGED <<storeVars, topAttempt, routes, cur, tries, toList, busVars, targetVars, outputVars, budgetVars>>
      BY <1>t DEF HandlerFrame
    <2> HIDE DEF TypeOK
    <2> QED BY <1>t, <2>1, <2>2, PlanType
  <1>s. ASSUME NEW t \in Tasks, NEW rec \in Record, NEW pub \in {"none", "dispatch", "failed"},
               Plan("sweeper", t, rec, pub), SweepTake(t)
        PROVE  TypeOK'
    <2>1. listing' \in [Tasks -> Record] /\ "sweeper" \in Threads
      BY <1>s, NoRecordIsRecord DEF SweepTake, TypeOK, Threads
    <2>2. UNCHANGED <<storeVars, topAttempt, routes, cur, tries, toList, busVars, targetVars, outputVars, budgetVars>>
      BY <1>s DEF SweepTake, SweepFrame
    <2> HIDE DEF TypeOK
    <2> QED BY <1>s, <2>1, <2>2, PlanType
  <1>q. ASSUME Handling("request") \/ Handling("success") \/ Handling("failure")
        PROVE  cur \in Event
    BY <1>q DEF Handling, NoEvent
  <1>6. CASE IgnoreDuplicate \/ IgnoreForeignAnswer
    BY <1>6, ZenonT(60) DEF IgnoreDuplicate, IgnoreForeignAnswer, Ignore, HandlerFrame
  <1>7. CASE RejectUnknownAction
    <2>1. cur.task \in Tasks /\ RejectedRecord(cur.action) \in Record
      BY <1>7, <1>q DEF RejectUnknownAction, Event, RejectedRecord, Record, Statuses
    <2>2. /\ Plan("consumer", cur.task, RejectedRecord(cur.action), "none")
          /\ HandlerFrame
      BY <1>7 DEF RejectUnknownAction
    <2> QED BY <1>t, <2>1, <2>2
  <1>8. CASE DispatchRequested
    <2>1. cur.task \in Tasks /\ DispatchRecord(cur.action, 1) \in Record
      BY <1>8, <1>q DEF DispatchRequested, Event, DispatchRecord, Record, Statuses
    <2>2. /\ Plan("consumer", cur.task, DispatchRecord(cur.action, 1), "dispatch")
          /\ HandlerFrame
      BY <1>8 DEF DispatchRequested
    <2> QED BY <1>t, <2>1, <2>2
  <1>9. CASE MarkCompleted
    <2>1. cur.task \in Tasks /\ [record[cur.task] EXCEPT !.status = "completed"] \in Record
      BY <1>9, <1>q, StatusChange DEF MarkCompleted, Event, Statuses
    <2>2. /\ Plan("consumer", cur.task, [record[cur.task] EXCEPT !.status = "completed"], "none")
          /\ HandlerFrame
      BY <1>9 DEF MarkCompleted
    <2> QED BY <1>t, <2>1, <2>2
  <1>10. CASE FailPermanently
    <2>1. cur.task \in Tasks /\ [record[cur.task] EXCEPT !.status = "failed"] \in Record
      BY <1>10, <1>q, StatusChange DEF FailPermanently, Event, Statuses
    <2>2. /\ Plan("consumer", cur.task, [record[cur.task] EXCEPT !.status = "failed"], "failed")
          /\ HandlerFrame
      BY <1>10 DEF FailPermanently
    <2> QED BY <1>t, <2>1, <2>2
  <1>11. CASE RetryOnFailure
    <2>1. cur.task \in Tasks
      BY <1>11, <1>q DEF RetryOnFailure, Event
    <2>2. DispatchRecord(record[cur.task].action, record[cur.task].attempts + 1) \in Record
      BY <2>1, SMTT(30) DEF DispatchRecord, Record, Statuses
    <2>3. /\ Plan("consumer", cur.task,
                  DispatchRecord(record[cur.task].action, record[cur.task].attempts + 1), "dispatch")
          /\ HandlerFrame
      BY <1>11 DEF RetryOnFailure
    <2> QED BY <1>t, <2>1, <2>2, <2>3
  <1>h. ASSUME HandlerRaised, faults' \in Nat PROVE TypeOK'
    <2>1. /\ pc' \in [Threads -> ConsumerStates \cup SweeperStates]
          /\ pc'["consumer"] \in {"get", "ack"} /\ pc'["sweeper"] = pc["sweeper"]
          /\ tries' \in 0 .. HandlerAttempts
      <3>1. CASE tries < HandlerAttempts
        BY <1>h, <3>1 DEF HandlerRaised
      <3>2. CASE ~(tries < HandlerAttempts)
        BY <1>h, <3>2 DEF HandlerRaised
      <3> QED BY <3>1, <3>2
    <2>2. job' \in [Threads -> Job] /\ job'["sweeper"] = job["sweeper"]
      BY <1>h DEF HandlerRaised
    <2>3. UNCHANGED <<storeVars, topAttempt, routes, cur, toList, listing, busVars, targetVars, outputVars, requests, crashes>>
      BY <1>h DEF HandlerRaised
    <2>4. \A u \in Threads : pc'[u] \in {"set", "index", "publish", "evict"} => job'[u].task \in Tasks
      BY <2>1, <2>2
    <2> QED BY <1>h, <2>1, <2>2, <2>3, <2>4
  <1>12. CASE RouteKeyError
    BY <1>h, <1>12 DEF RouteKeyError
  <1>13. ASSUME NEW th \in Threads, SaveRecord(th) PROVE TypeOK'
    <2>1. job[th].rec \in Record /\ job[th].rec.attempts \in Nat
      BY DEF Job, Record
    <2> QED BY <1>13, <2>1 DEF SaveRecord, SetRecord
  <1>14. ASSUME NEW th \in Threads, SaveIndex(th) PROVE TypeOK'
    BY <1>14, ZenonT(60) DEF SaveIndex, IndexRecord, After, Job
  <1>15. ASSUME NEW th \in Threads, Publish(th) PROVE TypeOK'
    <2> DEFINE d == [action |-> job[th].rec.action, attempt |-> job[th].rec.attempts]
    <2>1. d \in Dispatch /\ job[th].task \in Tasks
      BY <1>15 DEF Publish, Dispatch, Job, Record
    <2> HIDE DEF d
    <2>2. Append(sent[job[th].task], d) \in Seq(Dispatch)
      <3>1. sent[job[th].task] \in Seq(Dispatch)
        BY <2>1
      <3> QED BY <2>1, <3>1, AppendType
    <2>3. sent' = sent \/ sent' = [sent EXCEPT ![job[th].task] = Append(sent[job[th].task], d)]
      BY <1>15 DEF Publish, d
    <2>4. sent' \in [Tasks -> Seq(Dispatch)]
      BY <2>1, <2>2, <2>3, ZenonT(60)
    <2>5. outstanding' \in [Tasks -> Nat] /\ announced' \in [Tasks -> Nat]
      <3>1. CASE job[th].pub = "dispatch"
        <4>1. outstanding' = [outstanding EXCEPT ![job[th].task] = outstanding[job[th].task] + 1] /\ announced' = announced
          BY <1>15, <3>1 DEF Publish
        <4> QED BY <2>1, <4>1
      <3>2. CASE job[th].pub # "dispatch"
        <4>1. announced' = [announced EXCEPT ![job[th].task] = announced[job[th].task] + 1] /\ outstanding' = outstanding
          BY <1>15, <3>2 DEF Publish
        <4> QED BY <2>1, <4>1
      <3> QED BY <3>1, <3>2
    <2>6. pc' = [pc EXCEPT ![th] = After(th)] /\ After(th) \in {"ack", "scan"}
          /\ (After(th) = "ack" <=> th = "consumer")
      BY <1>15 DEF Publish, After
    <2>7. UNCHANGED <<storeVars, topAttempt, routes, job, cur, tries, toList, listing, busVars, armed, budgetVars>>
      BY <1>15 DEF Publish
    <2> QED BY <2>1, <2>4, <2>5, <2>6, <2>7, ZenonT(60)
  <1>16. CASE Acknowledge
    BY <1>16 DEF Acknowledge
  <1>17. CASE SweepBegin \/ SweepListed \/ SweepEvict \/ SweepEnd
    <2>1. CASE SweepBegin
      BY <2>1 DEF SweepBegin, SweepFrame
    <2>2. CASE SweepListed
      BY <2>2 DEF SweepListed, SweepFrame
    <2>3. CASE SweepEvict
      BY <2>3 DEF SweepEvict, SweepFrame, EvictFromIndex
    <2>4. CASE SweepEnd
      BY <2>4 DEF SweepEnd, SweepFrame
    <2> QED BY <1>17, <2>1, <2>2, <2>3, <2>4
  <1>18. ASSUME NEW t \in Tasks, SweepList(t) PROVE TypeOK'
    <2>1. CASE Dispatched(t)
      BY <1>18, <2>1, ZenonT(60) DEF SweepList, SweepFrame
    <2>2. CASE ~Dispatched(t)
      <3>1. [task |-> t, rec |-> NoRecord, pub |-> "none"] \in Job
        BY DEF Job
      <3> QED BY <1>18, <2>2, <3>1, SMTT(30) DEF SweepList, SweepFrame
    <2> QED BY <2>1, <2>2
  <1>19. ASSUME NEW t \in Tasks, SweepFresh(t) PROVE TypeOK'
    BY <1>19 DEF SweepFresh, SweepTake, SweepFrame
  <1>20. ASSUME NEW t \in Tasks, SweepTimeOut(t) PROVE TypeOK'
    <2>1. [listing[t] EXCEPT !.status = "timed_out"] \in Record
      BY StatusChange DEF Statuses
    <2>2. /\ Plan("sweeper", t, [listing[t] EXCEPT !.status = "timed_out"], "failed")
          /\ SweepTake(t)
      BY <1>20 DEF SweepTimeOut
    <2> QED BY <1>s, <2>1, <2>2
  <1>21. ASSUME NEW t \in Tasks, SweepUnroutable(t) PROVE TypeOK'
    <2>1. [listing[t] EXCEPT !.status = "failed"] \in Record
      BY StatusChange DEF Statuses
    <2>2. /\ Plan("sweeper", t, [listing[t] EXCEPT !.status = "failed"], "none")
          /\ SweepTake(t)
      BY <1>21 DEF SweepUnroutable
    <2> QED BY <1>s, <2>1, <2>2
  <1>22. ASSUME NEW t \in Tasks, SweepRetry(t) PROVE TypeOK'
    <2>1. DispatchRecord(listing[t].action, listing[t].attempts + 1) \in Record
      BY DEF DispatchRecord, Record, Statuses
    <2>2. /\ Plan("sweeper", t, DispatchRecord(listing[t].action, listing[t].attempts + 1), "dispatch")
          /\ SweepTake(t)
      BY <1>22 DEF SweepRetry
    <2> QED BY <1>s, <2>1, <2>2
  <1>23. CASE ConsumerFault
    BY <1>h, <1>23 DEF ConsumerFault
  <1>24. CASE SweeperFault
    BY <1>24 DEF SweeperFault
  <1>25. CASE ConsumerStops
    BY <1>25 DEF ConsumerStops, InHand
  <1>26. ASSUME NEW table \in RouteTables, NEW claimed \in SUBSET (pending \cup InHand), Restart(table, claimed)
         PROVE TypeOK'
    BY <1>26 DEF Restart, InHand
  <1>27. ASSUME NEW t \in Tasks, Overdue(t) PROVE TypeOK'
    BY <1>27, ZenonT(60) DEF Overdue, Record
  <1> HIDE DEF storeVars, processVars, busVars, targetVars, outputVars, budgetVars,
               TypeOK, StoreTypeOK, Threads, ConsumerStates, SweeperStates
  <1>28. {"consumer", "sweeper"} \subseteq Threads
    BY DEF Threads
  <1> QED
    BY <1>28, <1>1, <1>2, <1>3, <1>4, <1>5, <1>6, <1>7, <1>8, <1>9, <1>10, <1>11, <1>12, <1>13, <1>14,
       <1>15, <1>16, <1>17, <1>18, <1>19, <1>20, <1>21, <1>22, <1>23, <1>24, <1>25, <1>26, <1>27
    DEF Next, Arrival, Consumer, Sweeper, Fault

-----------------------------------------------------------------------------
\* The inductive invariant holds at the start.
LEMMA InitInv == Init => IInv
  <1> SUFFICES ASSUME Init PROVE IInv
    OBVIOUS
  <1>1. TypeOK
    BY InitTypeOK
  <1>2. ASSUME NEW t \in Tasks PROVE TaskInv(t) /\ ListingInv(t)
    BY RetryAssumption DEF Init, StoreInit, TaskInv, ListingInv, Listed, Seen, Dispatched, NoRecord
  <1>3. ASSUME NEW th \in Threads PROVE PlanInv(th)
    BY DEF Init, PlanInv
  <1>4. pending \cup redeliver \cup InHand = {} /\ redeliver \subseteq pending
    BY DEF Init, InHand
  <1>5. pc["consumer"] = "idle"
    BY DEF Init, Threads
  <1> QED BY <1>1, <1>2, <1>3, <1>4, <1>5 DEF IInv

TaskPart    == \A t \in Tasks : TaskInv(t)
ListingPart == \A t \in Tasks : ListingInv(t)
EventPart   == \A e \in pending \cup redeliver \cup InHand : EventInv(e)
BusyPart    == /\ redeliver \subseteq pending
               /\ pc["consumer"] \in {"get", "set", "index", "publish", "ack"} => cur # NoEvent
Parts == TaskPart /\ ListingPart /\ EventPart /\ PlanInv("consumer") /\ PlanInv("sweeper") /\ BusyPart

\* The inductive invariant as the conjunction of what the steps disturb one by one.
LEMMA PartsIInv == IInv <=> TypeOK /\ Parts
  BY DEF IInv, Parts, TaskPart, ListingPart, EventPart, BusyPart, Threads

\* A step that leaves the store and the outputs alone keeps TaskPart.
LEMMA TaskFrame ==
  ASSUME TaskPart, UNCHANGED <<record, topAttempt, sent, announced, outstanding, armed>>
  PROVE  TaskPart'
  BY DEF TaskPart, TaskInv, Seen, Dispatched

\* A step that leaves the store and the listing alone keeps ListingPart.
LEMMA ListingFrame ==
  ASSUME ListingPart, UNCHANGED <<record, topAttempt>>,
         \A t \in Tasks : listing'[t] = listing[t] \/ listing'[t] = NoRecord
  PROVE  ListingPart'
  BY DEF ListingPart, ListingInv, Listed, Seen, NoRecord

\* No event appears and no attempt disappears: EventPart is kept.
LEMMA EventFrame ==
  ASSUME EventPart, UNCHANGED topAttempt,
         (pending \cup redeliver \cup InHand)' \subseteq pending \cup redeliver \cup InHand
  PROVE  EventPart'
  BY DEF EventPart, EventInv

\* A step that leaves a thread and what its plan is about alone keeps its plan.
LEMMA PlanFrame ==
  ASSUME NEW th \in Threads, PlanInv(th), UNCHANGED <<record, topAttempt, sent>>,
         job'[th] = job[th], pc'[th] = pc[th], th = "consumer" => cur' = cur
  PROVE  PlanInv(th)'
  BY DEF PlanInv, FirstPlan, FirstSaved, LaterPlan, Seen

\* A thread that is not carrying out a plan has nothing to show.
LEMMA NoPlan ==
  ASSUME NEW th \in Threads, pc'[th] \notin {"set", "index", "publish"}
  PROVE  PlanInv(th)'
  BY DEF PlanInv

-----------------------------------------------------------------------------
(* The steps, one lemma per group of actions. *)

\* A new event in the consumer's hand disturbs nothing but EventPart.
LEMMA DeliverStep ==
  ASSUME TypeOK, Parts, NEW e \in Event, Deliver(e), EventInv(e), TaskPart',
         redeliver' \subseteq redeliver, pending' \subseteq pending, redeliver' \subseteq pending'
  PROVE  Parts'
  <1> USE DEF Deliver, storeVars, outputVars
  <1>1. ListingPart'
    BY ListingFrame DEF Parts
  <1>2. EventPart'
    BY DEF Parts, EventPart, InHand, EventInv
  <1>3. PlanInv("consumer")'
    BY NoPlan DEF TypeOK, Threads
  <1>4. PlanInv("sweeper")'
    BY PlanFrame DEF TypeOK, Threads, Parts
  <1>5. BusyPart'
    BY DEF BusyPart, Event, NoEvent
  <1> QED BY <1>1, <1>2, <1>3, <1>4, <1>5 DEF Parts

\* New requests, answers and stream endings keep the invariant.
LEMMA ArrivalStep == TypeOK /\ Parts /\ Arrival => Parts'
  <1> SUFFICES ASSUME TypeOK, Parts, Arrival PROVE Parts'
    OBVIOUS
  <1>1. ASSUME NEW t \in Requested, NEW a \in Actions, DeliverRequest(t, a) PROVE Parts'
    <2> DEFINE e == [kind |-> "request", task |-> t, action |-> a]
    <2>1. e \in Event /\ EventInv(e)
      BY TaskAssumption DEF Event, EventInv
    <2>2. Deliver(e)
      BY <1>1 DEF DeliverRequest
    <2>3. TaskPart'
      BY <1>1, <2>2, TaskFrame DEF DeliverRequest, Deliver, Parts, storeVars, outputVars, targetVars
    <2> HIDE DEF e
    <2> QED BY <1>1, <2>1, <2>2, <2>3, DeliverStep DEF DeliverRequest, busVars, Parts, BusyPart
  <1>2. ASSUME NEW t \in Tasks, NEW kind \in {"success", "failure"},
               DeliverAnswer(t, kind) \/ DeliverStreamEnded(t, kind)
        PROVE  Parts'
    <2> DEFINE e == [kind |-> kind, task |-> t, action |-> NoAction]
    <2>1. e \in Event
      BY DEF Event
    <2>2. Deliver(e)
      BY <1>2 DEF DeliverAnswer, DeliverStreamEnded
    <2>3. TaskInv(t) /\ topAttempt[t] \in Nat /\ outstanding[t] \in Nat /\ armed[t] \in Nat
      BY DEF Parts, TaskPart, TypeOK
    <2>4. t \notin Requested \/ topAttempt[t] > 0
      BY <1>2, <2>3 DEF DeliverAnswer, DeliverStreamEnded, TaskInv
    <2>5. EventInv(e)
      BY <2>4 DEF EventInv
    <2>6. TaskPart'
      <3> SUFFICES ASSUME NEW u \in Tasks PROVE TaskInv(u)'
        BY DEF TaskPart
      <3>1. TaskInv(u)
        BY DEF Parts, TaskPart
      <3>2. UNCHANGED <<record, topAttempt, sent, announced>>
        BY <2>2 DEF Deliver, storeVars, outputVars
      <3>3. outstanding'[u] = outstanding[u] \/ topAttempt[u] > 0 \/ u \notin Requested
        BY <1>2, <2>4 DEF DeliverAnswer, DeliverStreamEnded, TypeOK
      <3>4. armed'[u] = armed[u] \/ topAttempt[u] > 0
        <4>1. CASE DeliverStreamEnded(t, kind)
          BY <4>1, <2>3, <3>1 DEF DeliverStreamEnded, TypeOK, TaskInv
        <4>2. CASE DeliverAnswer(t, kind)
          <5>1. CASE armed' = armed
            BY <5>1
          <5>2. CASE armed' # armed
            <6>1. armed' = [armed EXCEPT ![t] = @ + 1] /\ \E i \in 1 .. Len(sent[t]) : TRUE
              BY <4>2, <5>2 DEF DeliverAnswer
            <6>2. sent[t] # << >>
              BY <6>1
            <6>3. topAttempt[t] > 0
              BY <6>2, <2>3 DEF TaskInv
            <6> QED BY <6>1, <6>3 DEF TypeOK
          <5> QED BY <5>1, <5>2
        <4> QED BY <1>2, <4>1, <4>2
      <3> QED BY <3>1, <3>2, <3>3, <3>4, TypeOK DEF TaskInv, Seen, Dispatched, TypeOK
    <2> HIDE DEF e
    <2> QED BY <1>2, <2>1, <2>2, <2>5, <2>6, DeliverStep
            DEF DeliverAnswer, DeliverStreamEnded, busVars, Parts, BusyPart
  <1> QED BY <1>1, <1>2 DEF Arrival

\* Handling a reclaimed event again keeps the invariant.
LEMMA RedeliverStep ==
  ASSUME TypeOK, Parts, NEW e \in redeliver, Redeliver(e) PROVE Parts'
  <1>1. e \in Event /\ EventInv(e)
    BY DEF TypeOK, Parts, EventPart
  <1>2. TaskPart'
    BY TaskFrame DEF Redeliver, Deliver, Parts, storeVars, outputVars, targetVars
  <1> QED BY <1>1, <1>2, DeliverStep DEF Redeliver, Parts, BusyPart

\* A handler that settles on a plan, or on nothing.
LEMMA HandlerStep ==
  ASSUME TypeOK, Parts, HandlerFrame, pc'["consumer"] \in {"get", "set", "ack"},
         pc'["sweeper"] = pc["sweeper"], job'["sweeper"] = job["sweeper"],
         pc["consumer"] = "get", PlanInv("consumer")'
  PROVE  Parts'
  <1> USE DEF HandlerFrame, storeVars, outputVars, targetVars, busVars
  <1>1. TaskPart'
    BY TaskFrame DEF Parts
  <1>2. ListingPart'
    BY ListingFrame DEF Parts
  <1>3. EventPart'
    BY EventFrame DEF Parts, InHand
  <1>4. PlanInv("sweeper")'
    BY PlanFrame DEF TypeOK, Threads, Parts
  <1>5. BusyPart'
    BY DEF Parts, BusyPart
  <1> QED BY <1>1, <1>2, <1>3, <1>4, <1>5 DEF Parts

\* A handler at work has an event, and what EventInv says of it.
LEMMA EventInHand ==
  ASSUME TypeOK, Parts, pc["consumer"] = "get"
  PROVE  cur \in Event /\ EventInv(cur)
  BY DEF TypeOK, Parts, BusyPart, EventPart, InHand

\* What an answer to a task the store knows says of its record.
LEMMA AnsweredRecord ==
  ASSUME TypeOK, Parts, pc["consumer"] = "get", cur.kind \in {"success", "failure"}, Seen(cur.task)
  PROVE  /\ cur.task \in Requested
         /\ record[cur.task] \in Record
         /\ record[cur.task].attempts \in 1 .. MAX_RETRIES
         /\ record[cur.task].attempts <= topAttempt[cur.task]
         /\ topAttempt[cur.task] \in 1 .. MAX_RETRIES
  <1>1. cur.task \in Tasks /\ EventInv(cur)
    BY EventInHand DEF Event
  <1>2. TaskInv(cur.task) /\ record[cur.task] \in Record /\ topAttempt[cur.task] \in Nat
    BY <1>1 DEF Parts, TaskPart, TypeOK, StoreTypeOK
  <1>3. record[cur.task].attempts \in Nat
    BY <1>2 DEF Record
  <1> QED BY <1>1, <1>2, <1>3, RetryAssumption DEF TaskInv, EventInv

\* Every handler of the consumer settles on a plan PlanInv allows.
LEMMA PlanningStep ==
  ASSUME TypeOK, Parts,
         RejectUnknownAction \/ DispatchRequested \/ MarkCompleted \/ FailPermanently
         \/ RetryOnFailure \/ IgnoreDuplicate \/ IgnoreForeignAnswer
  PROVE  Parts'
  <1> USE DEF Handling
  <1>f. HandlerFrame /\ pc["consumer"] = "get"
    BY DEF RejectUnknownAction, DispatchRequested, MarkCompleted, FailPermanently,
           RetryOnFailure, IgnoreDuplicate, IgnoreForeignAnswer
  <1>c. cur' = cur /\ UNCHANGED <<record, topAttempt, sent>>
    BY <1>f DEF HandlerFrame, storeVars, outputVars
  <1>e. cur \in Event /\ EventInv(cur) /\ cur.task \in Tasks
    BY <1>f, EventInHand DEF Event
  <1>p. ASSUME NEW t \in Tasks, NEW rec, NEW pub, Plan("consumer", t, rec, pub)
        PROVE  /\ job'["consumer"].task = t /\ job'["consumer"].rec = rec /\ job'["consumer"].pub = pub
               /\ job'["sweeper"] = job["sweeper"]
               /\ pc'["consumer"] = "set" /\ pc'["sweeper"] = pc["sweeper"]
    BY <1>p DEF Plan, TypeOK, Threads
  <1>i. CASE IgnoreDuplicate \/ IgnoreForeignAnswer
    <2>1. /\ pc'["consumer"] = "ack" /\ pc'["sweeper"] = pc["sweeper"]
          /\ job' = job
      BY <1>i DEF IgnoreDuplicate, IgnoreForeignAnswer, Ignore, TypeOK, Threads
    <2> QED BY <2>1, <1>f, NoPlan, HandlerStep DEF Threads
  <1>1. CASE RejectUnknownAction
    <2> DEFINE rec == RejectedRecord(cur.action)
    <2>1. Plan("consumer", cur.task, rec, "none") /\ cur.kind = "request" /\ ~Seen(cur.task)
      BY <1>1 DEF RejectUnknownAction
    <2>2. rec.action = cur.action /\ rec.attempts = 0 /\ rec.status = "failed"
      BY DEF RejectedRecord
    <2>3. cur.task \in Requested /\ cur.action \in Actions
      BY <1>e, <2>1 DEF EventInv
    <2> HIDE DEF rec
    <2>p. /\ job'["consumer"].task = cur.task /\ job'["consumer"].rec = rec
          /\ job'["consumer"].pub = "none" /\ pc'["consumer"] = "set"
      BY <1>p, <1>e, <2>1
    <2>4. PlanInv("consumer")'
      BY <2>p, <1>c, <1>e, <2>1, <2>2, <2>3 DEF PlanInv, FirstPlan, FirstSaved, LaterPlan, Seen
    <2> QED BY <1>p, <1>e, <1>f, <2>1, <2>4, HandlerStep
  <1>2. CASE DispatchRequested
    <2> DEFINE rec == DispatchRecord(cur.action, 1)
    <2>1. Plan("consumer", cur.task, rec, "dispatch") /\ cur.kind = "request" /\ ~Seen(cur.task)
      BY <1>2 DEF DispatchRequested
    <2>2. rec.action = cur.action /\ rec.attempts = 1 /\ rec.status = "dispatched"
      BY DEF DispatchRecord
    <2>3. cur.task \in Requested /\ cur.action \in Actions
      BY <1>e, <2>1 DEF EventInv
    <2> HIDE DEF rec
    <2>p. /\ job'["consumer"].task = cur.task /\ job'["consumer"].rec = rec
          /\ job'["consumer"].pub = "dispatch" /\ pc'["consumer"] = "set"
      BY <1>p, <1>e, <2>1
    <2>4. PlanInv("consumer")'
      BY <2>p, <1>c, <1>e, <2>1, <2>2, <2>3 DEF PlanInv, FirstPlan, FirstSaved, LaterPlan, Seen
    <2> QED BY <1>p, <1>e, <1>f, <2>1, <2>4, HandlerStep
  <1>3. CASE MarkCompleted
    <2> DEFINE rec == [record[cur.task] EXCEPT !.status = "completed"]
    <2>1. Plan("consumer", cur.task, rec, "none") /\ cur.kind = "success" /\ Seen(cur.task)
      BY <1>3 DEF MarkCompleted
    <2>2. /\ rec.action = record[cur.task].action /\ rec.attempts = record[cur.task].attempts
          /\ rec.status = "completed"
      BY <1>f, <2>1, AnsweredRecord DEF Record
    <2> HIDE DEF rec
    <2>p. /\ job'["consumer"].task = cur.task /\ job'["consumer"].rec = rec
          /\ job'["consumer"].pub = "none" /\ pc'["consumer"] = "set"
      BY <1>p, <1>e, <2>1
    <2>4. PlanInv("consumer")'
      BY <1>f, <2>p, <1>c, <1>e, <2>1, <2>2, AnsweredRecord DEF PlanInv, FirstPlan, FirstSaved, LaterPlan, Seen
    <2> QED BY <1>p, <1>e, <1>f, <2>1, <2>4, HandlerStep
  <1>4. CASE FailPermanently
    <2> DEFINE rec == [record[cur.task] EXCEPT !.status = "failed"]
    <2>1. /\ Plan("consumer", cur.task, rec, "failed") /\ cur.kind = "failure" /\ Seen(cur.task)
          /\ record[cur.task].attempts >= MAX_RETRIES
      BY <1>4 DEF FailPermanently, Exhausted
    <2>2. /\ rec.action = record[cur.task].action /\ rec.attempts = record[cur.task].attempts
          /\ rec.status = "failed"
      BY <1>f, <2>1, AnsweredRecord DEF Record
    <2>3. topAttempt[cur.task] = MAX_RETRIES
      BY <1>f, <2>1, AnsweredRecord, RetryAssumption
    <2> HIDE DEF rec
    <2>p. /\ job'["consumer"].task = cur.task /\ job'["consumer"].rec = rec
          /\ job'["consumer"].pub = "failed" /\ pc'["consumer"] = "set"
      BY <1>p, <1>e, <2>1
    <2>4. PlanInv("consumer")'
      BY <1>f, <2>p, <1>c, <1>e, <2>1, <2>2, <2>3, AnsweredRecord DEF PlanInv, FirstPlan, FirstSaved, LaterPlan, Seen
    <2> QED BY <1>p, <1>e, <1>f, <2>1, <2>4, HandlerStep
  <1>5. CASE RetryOnFailure
    <2> DEFINE rec == DispatchRecord(record[cur.task].action, record[cur.task].attempts + 1)
    <2>1. /\ Plan("consumer", cur.task, rec, "dispatch") /\ cur.kind = "failure" /\ Seen(cur.task)
          /\ ~(record[cur.task].attempts >= MAX_RETRIES)
      BY <1>5 DEF RetryOnFailure, Exhausted
    <2>2. /\ rec.action = record[cur.task].action /\ rec.attempts = record[cur.task].attempts + 1
          /\ rec.status = "dispatched"
      BY DEF DispatchRecord
    <2>3. /\ rec.attempts \in 2 .. MAX_RETRIES
          /\ rec.attempts <= topAttempt[cur.task] + 1
      BY <1>f, <2>1, <2>2, AnsweredRecord, RetryAssumption
    <2> HIDE DEF rec
    <2>p. /\ job'["consumer"].task = cur.task /\ job'["consumer"].rec = rec
          /\ job'["consumer"].pub = "dispatch" /\ pc'["consumer"] = "set"
      BY <1>p, <1>e, <2>1
    <2>4. PlanInv("consumer")'
      BY <1>f, <2>p, <1>c, <1>e, <2>1, <2>2, <2>3, AnsweredRecord, RetryAssumption DEF PlanInv, FirstPlan, FirstSaved, LaterPlan, Seen
    <2> QED BY <1>p, <1>e, <1>f, <2>1, <2>4, HandlerStep
  <1> QED BY <1>i, <1>1, <1>2, <1>3, <1>4, <1>5

-----------------------------------------------------------------------------
\* What every step of either thread preserves: a known task stays known and
\* keeps its action, and the highest attempt never falls.
Grows ==
    \A u \in Tasks :
        /\ Seen(u) => Seen(u)' /\ record'[u].action = record[u].action
        /\ topAttempt[u] \in Nat /\ topAttempt'[u] \in Nat
        /\ topAttempt'[u] >= topAttempt[u]
        /\ topAttempt[u] = MAX_RETRIES => topAttempt'[u] = MAX_RETRIES

NoFirstIn(s) == \A i \in 1 .. Len(s) : s[i].attempt # 1

\* EventInv only gets easier as attempts are recorded.
LEMMA EventGrows ==
  ASSUME TypeOK, EventPart, Grows,
         (pending \cup redeliver \cup InHand)' \subseteq pending \cup redeliver \cup InHand
  PROVE  EventPart'
  <1> SUFFICES ASSUME NEW e \in pending \cup redeliver \cup InHand PROVE EventInv(e)'
    BY DEF EventPart
  <1>1. e \in Event /\ EventInv(e)
    BY DEF TypeOK, EventPart, InHand
  <1>2. e.task \in Tasks
    BY <1>1 DEF Event
  <1> QED BY <1>1, <1>2 DEF EventInv, Grows

\* A listed record stays a past record of its task as attempts are recorded.
LEMMA ListingGrows ==
  ASSUME TypeOK, ListingPart, Grows, listing' = listing
  PROVE  ListingPart'
  <1> SUFFICES ASSUME NEW u \in Tasks, ListingInv(u), listing[u].status # "unseen" PROVE ListingInv(u)'
    BY DEF ListingPart, ListingInv, Listed
  <1>1. listing[u] \in Record
    BY DEF TypeOK
  <1>2. listing[u].attempts \in Nat
    BY <1>1 DEF Record
  <1> QED BY <1>2 DEF ListingInv, Listed, Grows

\* The other thread's plan survives the saving of a record.
LEMMA PlanGrows ==
  ASSUME TypeOK, NEW th \in Threads, PlanInv(th), Grows,
         job'[th] = job[th], pc'[th] = pc[th], th = "consumer" => cur' = cur,
         th = "consumer" /\ pc[th] = "set" /\ cur.kind = "request" => ~Seen(job[th].task)',
         NoFirstIn(sent[job[th].task]) => NoFirstIn(sent'[job[th].task])
  PROVE  PlanInv(th)'
  <1> SUFFICES ASSUME pc[th] \in {"set", "index", "publish"} PROVE PlanInv(th)'
    BY NoPlan
  <1> DEFINE p == job[th]
  <1>1. p.task \in Tasks /\ p.rec \in Record
    BY DEF TypeOK, Job
  <1>2. p.rec.attempts \in Nat
    BY <1>1 DEF Record
  <1>3. /\ Seen(p.task) => Seen(p.task)' /\ record'[p.task].action = record[p.task].action
        /\ topAttempt[p.task] \in Nat /\ topAttempt'[p.task] \in Nat
        /\ topAttempt'[p.task] >= topAttempt[p.task]
        /\ topAttempt[p.task] = MAX_RETRIES => topAttempt'[p.task] = MAX_RETRIES
    BY <1>1 DEF Grows
  <1> QED BY <1>1, <1>2, <1>3, RetryAssumption, SMTT(30)
          DEF PlanInv, FirstPlan, FirstSaved, LaterPlan, Seen, NoFirstIn

\* SET: a first request creates the record, every other plan overwrites one
\* that exists and keeps its action.
LEMMA SaveRecordStep ==
  ASSUME TypeOK, Parts, NEW th \in Threads, SaveRecord(th)
  PROVE  Parts'
  <1> DEFINE t == job[th].task
             rec == job[th].rec
             first == th = "consumer" /\ cur.kind = "request"
  <1>1. /\ t \in Tasks /\ rec \in Record /\ rec.attempts \in Nat
        /\ PlanInv(th) /\ TaskInv(t) /\ topAttempt[t] \in Nat
        /\ pc[th] = "set"
    BY DEF TypeOK, Job, Record, Parts, TaskPart, Threads, SaveRecord
  <1>2. /\ record' = [record EXCEPT ![t] = rec]
        /\ topAttempt' = [topAttempt EXCEPT ![t] = IF rec.attempts > topAttempt[t] THEN rec.attempts ELSE topAttempt[t]]
        /\ UNCHANGED <<cur, listing, pending, redeliver, outstanding, armed, sent, announced, job>>
        /\ pc' = [pc EXCEPT ![th] = "index"]
    BY DEF SaveRecord, SetRecord, busVars, targetVars, outputVars
  <1>3. /\ record'[t] = rec
        /\ topAttempt'[t] = IF rec.attempts > topAttempt[t] THEN rec.attempts ELSE topAttempt[t]
        /\ \A u \in Tasks \ {t} : record'[u] = record[u] /\ topAttempt'[u] = topAttempt[u]
    BY <1>1, <1>2 DEF TypeOK, StoreTypeOK
  <1>4. /\ t \in Requested /\ rec.status # "unseen"
        /\ rec.status = "dispatched" => rec.attempts > 0
        /\ job[th].pub = "failed" => topAttempt[t] = MAX_RETRIES
        /\ first => /\ ~Seen(t) /\ rec.action \in Actions /\ job[th].pub # "failed"
                    /\ rec.attempts = IF job[th].pub = "dispatch" THEN 1 ELSE 0
        /\ ~first => LaterPlan(job[th])
    BY <1>1 DEF PlanInv, FirstPlan
  <1>5. first => topAttempt[t] = 0 /\ sent[t] = << >> /\ announced[t] = 0
    <2>1. first => topAttempt[t] = 0
      BY <1>1, <1>4 DEF TaskInv, NoRecord
    <2>2. announced[t] \in Nat
      BY <1>1 DEF TypeOK
    <2> QED BY <1>1, <2>1, <2>2, RetryAssumption DEF TaskInv
  <1>6. ~first => /\ Seen(t) /\ rec.action = record[t].action
                  /\ rec.attempts \in 1 .. MAX_RETRIES
    BY <1>4 DEF LaterPlan
  <1>7. rec.attempts <= MAX_RETRIES /\ topAttempt'[t] \in Nat /\ topAttempt'[t] >= topAttempt[t]
        /\ topAttempt'[t] <= MAX_RETRIES /\ rec.attempts <= topAttempt'[t]
    BY <1>1, <1>3, <1>4, <1>6, RetryAssumption DEF TaskInv
  <1>8. Grows
    <2> SUFFICES ASSUME NEW u \in Tasks
                 PROVE  /\ Seen(u) => Seen(u)' /\ record'[u].action = record[u].action
                        /\ topAttempt[u] \in Nat /\ topAttempt'[u] \in Nat
                        /\ topAttempt'[u] >= topAttempt[u]
                        /\ topAttempt[u] = MAX_RETRIES => topAttempt'[u] = MAX_RETRIES
      BY DEF Grows
    <2>1. topAttempt[u] \in Nat
      BY DEF TypeOK
    <2>2. CASE u # t
      BY <1>3, <2>1, <2>2 DEF Seen
    <2>3. CASE u = t
      BY <1>3, <1>4, <1>6, <1>7, <2>1, <2>3, RetryAssumption DEF Seen
    <2> QED BY <2>2, <2>3
  <1>9. TaskPart'
    <2> SUFFICES ASSUME NEW u \in Tasks PROVE TaskInv(u)'
      BY DEF TaskPart
    <2>1. CASE u # t
      <3>1. TaskInv(u) /\ record'[u] = record[u] /\ topAttempt'[u] = topAttempt[u]
        BY <1>3, <2>1 DEF Parts, TaskPart
      <3> QED BY <3>1, <1>2 DEF TaskInv, Seen, Dispatched
    <2>2. CASE u = t
      <3>1. /\ sent'[t] = sent[t] /\ announced'[t] = announced[t]
            /\ outstanding'[t] = outstanding[t] /\ armed'[t] = armed[t]
        BY <1>2
      <3>2. record'[t].status # "unseen" /\ record'[t].action \in Actions
        <4>1. CASE first
          BY <1>3, <1>4, <4>1
        <4>2. CASE ~first
          <5>1. record[t].action \in Actions
            BY <1>1, <1>6, <4>2 DEF TaskInv
          <5> QED BY <1>3, <1>4, <1>6, <4>2, <5>1
        <4> QED BY <4>1, <4>2
      <3>8. /\ record'[t].status = "dispatched" => record'[t].attempts > 0
            /\ record'[t].attempts <= topAttempt'[t] /\ topAttempt'[t] <= MAX_RETRIES
        BY <1>3, <1>4, <1>7
      <3>3. record'[t].attempts = 0 => topAttempt'[t] = 0
        BY <1>1, <1>3, <1>4, <1>5, <1>6
      <3>4. announced[t] > 0 => topAttempt'[t] = MAX_RETRIES
        BY <1>1, <1>3, <1>7, RetryAssumption DEF TaskInv
      <3>5. topAttempt'[t] = 0 => sent[t] = << >> /\ (t \in Requested => outstanding[t] = 0) /\ armed[t] = 0
        BY <1>1, <1>7 DEF TaskInv
      <3>6. \A i \in 1 .. Len(sent[t]) :
                sent[t][i].action = record'[t].action /\ sent[t][i].attempt \in 1 .. topAttempt'[t]
        <4>1. CASE first
          BY <1>5, <4>1
        <4>2. CASE ~first
          BY <1>1, <1>3, <1>6, <1>7, <4>2 DEF TaskInv
        <4> QED BY <4>1, <4>2
      <3>7. \A i, j \in 1 .. Len(sent[t]) : sent[t][i].attempt = 1 /\ sent[t][j].attempt = 1 => i = j
        BY <1>1 DEF TaskInv
      <3>9. t \in Requested
        BY <1>4
      <3> HIDE DEF t, rec, first
      <3> QED BY <2>2, <3>1, <3>2, <3>3, <3>4, <3>5, <3>6, <3>7, <3>8, <3>9 DEF TaskInv, Seen, Dispatched
    <2> QED BY <2>1, <2>2
  <1>10. ListingPart'
    BY <1>2, <1>8, ListingGrows DEF Parts
  <1>11. EventPart'
    BY <1>2, <1>8, EventGrows DEF Parts, InHand
  <1>12. PlanInv(th)'
    <2>1. job'[th] = job[th] /\ pc'[th] = "index" /\ cur' = cur /\ sent' = sent
      BY <1>2 DEF TypeOK
    <2>2. CASE first
      BY <1>1, <1>3, <1>4, <1>5, <1>7, <2>1, <2>2
      DEF PlanInv, FirstPlan, FirstSaved, LaterPlan, Seen
    <2>3. CASE ~first
      <3>1. LaterPlan(job[th])
        BY <1>4, <2>3
      <3>2. job[th].pub = "failed" => topAttempt'[t] = MAX_RETRIES
        BY <1>3, <1>4, <1>7, RetryAssumption
      <3> QED BY <1>1, <1>3, <1>4, <1>6, <1>7, <2>1, <2>3, <3>1, <3>2
              DEF PlanInv, FirstPlan, FirstSaved, LaterPlan, Seen
    <2> QED BY <2>2, <2>3
  <1>13. ASSUME NEW o \in Threads, o # th PROVE PlanInv(o)'
    <2>1. PlanInv(o) /\ job'[o] = job[o] /\ pc'[o] = pc[o] /\ cur' = cur /\ sent' = sent
      BY <1>2, <1>13 DEF TypeOK, Parts, Threads
    <2>2. ASSUME o = "consumer", pc[o] = "set", cur.kind = "request"
          PROVE  ~Seen(job[o].task)'
      <3>1. ~Seen(job[o].task) /\ job[o].task \in Tasks
        BY <2>1, <2>2 DEF PlanInv, TypeOK
      <3>2. ~first
        BY <1>13, <2>2
      <3>3. job[o].task # t
        BY <3>1, <3>2, <1>6
      <3> QED BY <3>1, <3>3, <1>3, <2>1 DEF Seen
    <2> QED BY <1>8, <2>1, <2>2, PlanGrows
  <1>14. BusyPart'
    <2>1. pc'["consumer"] = pc["consumer"] \/ pc["consumer"] = "set"
      BY <1>1, <1>2 DEF TypeOK, Threads
    <2> QED BY <1>2, <2>1 DEF Parts, BusyPart
  <1> QED BY <1>9, <1>10, <1>11, <1>12, <1>13, <1>14 DEF Parts, Threads

\* A thread's step that leaves the store's records and the outputs alone, and
\* either keeps or drops every other piece of state.
LEMMA QuietStep ==
  ASSUME TypeOK, Parts, NEW th \in Threads,
         UNCHANGED <<record, topAttempt, sent, announced, outstanding, armed>>,
         \A t \in Tasks : listing'[t] = listing[t] \/ listing'[t] = NoRecord,
         (pending \cup redeliver \cup InHand)' \subseteq pending \cup redeliver \cup InHand,
         \A o \in Threads \ {th} :
            pc'[o] = pc[o] /\ job'[o] = job[o] /\ (o = "consumer" => cur' = cur),
         PlanInv(th)', BusyPart'
  PROVE  Parts'
  <1>1. TaskPart' /\ ListingPart' /\ EventPart'
    BY TaskFrame, ListingFrame, EventFrame DEF Parts
  <1>2. ASSUME NEW o \in Threads \ {th} PROVE PlanInv(o)'
    BY PlanFrame DEF Parts, Threads
  <1> QED BY <1>1, <1>2 DEF Parts, Threads

\* SADD or SREM.
LEMMA SaveIndexStep ==
  ASSUME TypeOK, Parts, NEW th \in Threads, SaveIndex(th)
  PROVE  Parts'
  <1>1. /\ UNCHANGED <<record, topAttempt, sent, announced, outstanding, armed, job, cur, listing,
                      pending, redeliver>>
        /\ pc[th] = "index"
        /\ pc' = [pc EXCEPT ![th] = IF job[th].pub = "none" THEN After(th) ELSE "publish"]
    BY DEF SaveIndex, IndexRecord, busVars, targetVars, outputVars
  <1>2. /\ pc'[th] = IF job[th].pub = "none" THEN After(th) ELSE "publish"
        /\ \A o \in Threads \ {th} : pc'[o] = pc[o]
        /\ After(th) \in {"ack", "scan"}
    BY <1>1 DEF TypeOK, After
  <1>3. PlanInv(th)'
    <2>1. PlanInv(th)
      BY DEF Parts, Threads
    <2>2. CASE job[th].pub = "none"
      BY <1>2, <2>2, NoPlan
    <2>3. CASE job[th].pub # "none"
      BY <1>1, <1>2, <2>1, <2>3 DEF PlanInv, FirstPlan, FirstSaved, LaterPlan, Seen
    <2> QED BY <2>2, <2>3
  <1>4. BusyPart'
    BY <1>1, <1>2 DEF Parts, BusyPart, Threads
  <1> QED BY <1>1, <1>2, <1>3, <1>4, QuietStep DEF InHand

\* The elements of a sequence after an append.
LEMMA AppendElement ==
  ASSUME NEW S, NEW s \in Seq(S), NEW e
  PROVE  /\ Len(Append(s, e)) = Len(s) + 1 /\ Len(s) \in Nat
         /\ \A i \in 1 .. Len(s) : Append(s, e)[i] = s[i]
         /\ Append(s, e)[Len(s) + 1] = e
  OBVIOUS

\* The parts a publication does not touch.
LEMMA PublishFrame ==
  ASSUME TypeOK, Parts, NEW th \in Threads, Publish(th), TaskPart',
         \A o \in Threads : o # th => PlanInv(o)'
  PROVE  Parts'
  <1>1. /\ UNCHANGED <<record, topAttempt, cur, listing, pending, redeliver, job>>
        /\ pc[th] = "publish" /\ pc' = [pc EXCEPT ![th] = After(th)]
    BY DEF Publish, storeVars, busVars
  <1>2. ListingPart' /\ EventPart'
    BY <1>1, ListingFrame, EventFrame DEF Parts, InHand
  <1>3. pc'[th] \in {"ack", "scan"} /\ \A o \in Threads : o # th => pc'[o] = pc[o]
    BY <1>1 DEF TypeOK, After
  <1>4. PlanInv(th)'
    BY <1>3, NoPlan
  <1>5. BusyPart'
    BY <1>1, <1>3 DEF Parts, BusyPart, Threads
  <1> QED BY <1>2, <1>4, <1>5 DEF Parts, Threads

\* The first dispatch finds no earlier one, because its record was created
\* by this very handler; every other dispatch is numbered 2 or more.
LEMMA PublishStep ==
  ASSUME TypeOK, Parts, NEW th \in Threads, Publish(th)
  PROVE  Parts'
  <1>0. PICK t \in Tasks : t = job[th].task
    BY DEF TypeOK, Publish
  <1> DEFINE rec == job[th].rec
             d == [action |-> rec.action, attempt |-> rec.attempts]
             first == th = "consumer" /\ cur.kind = "request"
  <1>1. /\ rec \in Record /\ rec.attempts \in Nat
        /\ PlanInv(th) /\ TaskInv(t) /\ topAttempt[t] \in Nat
        /\ pc[th] = "publish" /\ sent[t] \in Seq(Dispatch)
        /\ job[th].pub \in {"none", "dispatch", "failed"}
        /\ outstanding \in [Tasks -> Nat] /\ announced \in [Tasks -> Nat]
        /\ sent \in [Tasks -> Seq(Dispatch)]
    BY <1>0 DEF TypeOK, Job, Record, Parts, TaskPart, Threads, Publish
  <1>2. /\ UNCHANGED <<record, topAttempt, armed, cur, listing, pending, redeliver, job>>
        /\ pc' = [pc EXCEPT ![th] = After(th)]
    BY DEF Publish, storeVars, busVars
  <1>3. /\ Seen(t) /\ rec.action = record[t].action /\ rec.attempts <= topAttempt[t]
        /\ job[th].pub # "none"
        /\ job[th].pub = "failed" => topAttempt[t] = MAX_RETRIES
        /\ job[th].pub = "dispatch" => rec.attempts > 0
        /\ rec.attempts = 1 /\ job[th].pub = "dispatch" => NoFirstIn(sent[t])
        /\ ~first /\ job[th].pub = "dispatch" => rec.attempts # 1
    BY <1>0, <1>1 DEF PlanInv, FirstPlan, FirstSaved, LaterPlan, NoFirstIn
  <1>4. CASE job[th].pub = "dispatch"
    <2>1. /\ sent' = [sent EXCEPT ![t] = Append(sent[t], d)]
          /\ outstanding' = [outstanding EXCEPT ![t] = outstanding[t] + 1]
          /\ announced' = announced
      BY <1>0, <1>4 DEF Publish
    <2>2. /\ sent'[t] = Append(sent[t], d) /\ outstanding'[t] = outstanding[t] + 1
          /\ \A u \in Tasks \ {t} : sent'[u] = sent[u] /\ outstanding'[u] = outstanding[u]
      BY <1>1, <2>1
    <2>3. d.action = rec.action /\ d.attempt = rec.attempts
      OBVIOUS
    <2> HIDE DEF d
    <2>4. /\ Len(sent'[t]) = Len(sent[t]) + 1 /\ Len(sent[t]) \in Nat
          /\ \A i \in 1 .. Len(sent[t]) : sent'[t][i] = sent[t][i]
          /\ sent'[t][Len(sent[t]) + 1] = d
          /\ \A i \in 1 .. Len(sent'[t]) : i \in 1 .. Len(sent[t]) \/ i = Len(sent[t]) + 1
      <3>1. /\ Len(sent'[t]) = Len(sent[t]) + 1 /\ Len(sent[t]) \in Nat
            /\ \A i \in 1 .. Len(sent[t]) : sent'[t][i] = sent[t][i]
            /\ sent'[t][Len(sent[t]) + 1] = d
        BY <1>1, <2>2, AppendElement
      <3> QED BY <3>1
    <2>5. TaskInv(t)'
      <3>1. topAttempt[t] > 0
        BY <1>1, <1>3, <1>4
      <3>2. \A i \in 1 .. Len(sent'[t]) :
               sent'[t][i].action = record[t].action /\ sent'[t][i].attempt \in 1 .. topAttempt[t]
        <4> SUFFICES ASSUME NEW i \in 1 .. Len(sent'[t])
                     PROVE  sent'[t][i].action = record[t].action /\ sent'[t][i].attempt \in 1 .. topAttempt[t]
          OBVIOUS
        <4>1. CASE i = Len(sent[t]) + 1
          BY <1>1, <1>3, <1>4, <2>3, <2>4, <4>1
        <4>2. CASE i # Len(sent[t]) + 1
          <5>1. i \in 1 .. Len(sent[t]) /\ sent'[t][i] = sent[t][i]
            BY <2>4, <4>2
          <5> QED BY <1>1, <5>1 DEF TaskInv
        <4> QED BY <4>1, <4>2
      <3>3. ASSUME NEW i \in 1 .. Len(sent'[t]), NEW j \in 1 .. Len(sent'[t]),
                   sent'[t][i].attempt = 1, sent'[t][j].attempt = 1
            PROVE  i = j
        <4>1. CASE i # Len(sent[t]) + 1 /\ j # Len(sent[t]) + 1
          <5>1. /\ i \in 1 .. Len(sent[t]) /\ sent'[t][i] = sent[t][i]
                /\ j \in 1 .. Len(sent[t]) /\ sent'[t][j] = sent[t][j]
            BY <2>4, <4>1
          <5> QED BY <1>1, <3>3, <5>1 DEF TaskInv
        <4>2. CASE i = Len(sent[t]) + 1 \/ j = Len(sent[t]) + 1
          <5>1. NoFirstIn(sent[t])
            BY <1>3, <1>4, <2>3, <2>4, <3>3, <4>2
          <5>2. i \notin 1 .. Len(sent[t]) /\ j \notin 1 .. Len(sent[t])
            BY <2>4, <3>3, <5>1 DEF NoFirstIn
          <5> QED BY <2>4, <5>2
        <4> QED BY <4>1, <4>2
      <3>4. /\ record' = record /\ topAttempt' = topAttempt /\ announced' = announced
            /\ TaskInv(t) /\ ~(topAttempt[t] = 0)
        BY <1>1, <1>2, <2>1, <3>1
      <3>5. \A i, j \in 1 .. Len(sent'[t]) :
               sent'[t][i].attempt = 1 /\ sent'[t][j].attempt = 1 => i = j
        BY <3>3
      <3> QED BY <3>2, <3>4, <3>5, ZenonT(60) DEF TaskInv, Seen, Dispatched
    <2>6. TaskPart'
      <3> SUFFICES ASSUME NEW u \in Tasks PROVE TaskInv(u)'
        BY DEF TaskPart
      <3>1. CASE u = t
        BY <2>5, <3>1
      <3>2. CASE u # t
        <4>1. TaskInv(u) /\ sent'[u] = sent[u] /\ outstanding'[u] = outstanding[u]
          BY <2>2, <3>2 DEF Parts, TaskPart
        <4> QED BY <1>2, <2>1, <4>1, ZenonT(60) DEF TaskInv, Seen, Dispatched
      <3> QED BY <3>1, <3>2
    <2>7. ASSUME NEW o \in Threads, o # th PROVE PlanInv(o)'
      <3>1. /\ PlanInv(o) /\ job'[o] = job[o] /\ pc'[o] = pc[o] /\ cur' = cur
            /\ job[o].task \in Tasks \/ pc[o] \notin {"set", "index", "publish"}
        BY <1>2, <2>7 DEF TypeOK, Parts, Threads
      <3>2. CASE pc[o] \notin {"set", "index", "publish"}
        BY <3>1, <3>2, NoPlan
      <3>3. CASE pc[o] \in {"set", "index", "publish"}
        <4>1. Grows
          BY <1>2 DEF Grows, Seen, TypeOK
        <4>2. ASSUME o = "consumer", pc[o] = "set", cur.kind = "request" PROVE ~Seen(job[o].task)'
          BY <1>2, <3>1, <4>2 DEF PlanInv, Seen
        <4>3. CASE o = "consumer" /\ cur.kind = "request"
          <5>1. NoFirstIn(sent[job[o].task]) => NoFirstIn(sent'[job[o].task])
            <6>1. CASE job[o].task # t
              BY <2>2, <3>1, <3>3, <6>1
            <6>2. CASE job[o].task = t
              BY <1>0, <1>3, <1>4, <2>3, <2>4, <2>7, <4>3, <6>2, ZenonT(60) DEF NoFirstIn
            <6> QED BY <6>1, <6>2
          <5> QED BY <3>1, <4>1, <4>2, <5>1, PlanGrows
        <4>4. CASE ~(o = "consumer" /\ cur.kind = "request")
          BY <1>2, <3>1, <4>4 DEF PlanInv, FirstPlan, FirstSaved, LaterPlan, Seen
        <4> QED BY <4>3, <4>4
      <3> QED BY <3>2, <3>3
    <2> QED BY <1>2, <2>6, <2>7, PublishFrame
  <1>5. CASE job[th].pub # "dispatch"
    <2>1. /\ announced' = [announced EXCEPT ![t] = announced[t] + 1]
          /\ UNCHANGED <<sent, outstanding>>
      BY <1>0, <1>5 DEF Publish
    <2>2. topAttempt[t] = MAX_RETRIES
      BY <1>1, <1>3, <1>5
    <2>3. TaskPart'
      <3> SUFFICES ASSUME NEW u \in Tasks PROVE TaskInv(u)'
        BY DEF TaskPart
      <3>1. TaskInv(u) /\ (announced'[u] = announced[u] \/ topAttempt[u] = MAX_RETRIES)
        BY <1>1, <2>1, <2>2 DEF Parts, TaskPart
      <3> QED BY <1>2, <2>1, <3>1, RetryAssumption DEF TaskInv, Seen, Dispatched
    <2>4. ASSUME NEW o \in Threads, o # th PROVE PlanInv(o)'
      <3>1. PlanInv(o) /\ job'[o] = job[o] /\ pc'[o] = pc[o] /\ cur' = cur
        BY <1>2, <2>4 DEF TypeOK, Parts, Threads
      <3> QED BY <1>2, <2>1, <3>1, PlanFrame
    <2> QED BY <1>2, <2>3, <2>4, PublishFrame
  <1> QED BY <1>4, <1>5

\* The sweeper's own steps leave the records, the outputs and the consumer
\* alone; what is left to show is its listing and its plan.
LEMMA SweepStep ==
  ASSUME TypeOK, Parts, SweepFrame, record' = record,
         pc'["consumer"] = pc["consumer"], job'["consumer"] = job["consumer"],
         ListingPart', PlanInv("sweeper")'
  PROVE  Parts'
  <1> USE DEF SweepFrame, outputVars, targetVars, busVars
  <1>1. TaskPart' /\ EventPart'
    BY TaskFrame, EventFrame DEF Parts, InHand
  <1>2. PlanInv("consumer")'
    BY PlanFrame DEF Parts, Threads
  <1>3. BusyPart'
    BY DEF Parts, BusyPart
  <1> QED BY <1>1, <1>2, <1>3 DEF Parts

\* What a collected record says of its task.
LEMMA ListedRecord ==
  ASSUME TypeOK, Parts, NEW t \in Tasks, t \in Listed
  PROVE  /\ Seen(t) /\ t \in Requested /\ listing[t] \in Record
         /\ listing[t].action = record[t].action
         /\ listing[t].attempts \in 1 .. topAttempt[t]
         /\ topAttempt[t] \in 1 .. MAX_RETRIES
  <1>1. TaskInv(t) /\ ListingInv(t) /\ topAttempt[t] \in Nat /\ listing[t] \in Record
    BY DEF Parts, TaskPart, ListingPart, TypeOK
  <1> QED BY <1>1, RetryAssumption DEF TaskInv, ListingInv

\* Every step of the sweep keeps the invariant, stale as its listing may be.
LEMMA SweeperStep ==
  ASSUME TypeOK, Parts,
         \/ SweepBegin \/ SweepListed \/ SweepEvict \/ SweepEnd
         \/ \E t \in Tasks : SweepList(t) \/ SweepFresh(t) \/ SweepTimeOut(t)
                             \/ SweepUnroutable(t) \/ SweepRetry(t)
  PROVE  Parts'
  <1> USE DEF storeVars
  <1>1. CASE SweepBegin \/ SweepListed \/ SweepEvict \/ SweepEnd
    <2>1. /\ SweepFrame /\ record' = record /\ listing' = listing
          /\ pc'["sweeper"] \notin {"set", "index", "publish"}
          /\ pc'["consumer"] = pc["consumer"] /\ job'["consumer"] = job["consumer"]
      BY <1>1 DEF SweepBegin, SweepListed, SweepEvict, SweepEnd, EvictFromIndex, TypeOK, Threads
    <2>2. ListingPart' /\ PlanInv("sweeper")'
      BY <2>1, ListingFrame, NoPlan DEF Parts, SweepFrame, Threads
    <2> QED BY <2>1, <2>2, SweepStep
  <1>2. ASSUME NEW t \in Tasks, SweepList(t) PROVE Parts'
    <2>1. /\ SweepFrame /\ record' = record
          /\ pc'["sweeper"] \notin {"set", "index", "publish"}
          /\ pc'["consumer"] = pc["consumer"] /\ job'["consumer"] = job["consumer"]
          /\ \A u \in Tasks : \/ listing'[u] = listing[u]
                              \/ u = t /\ Dispatched(t) /\ listing'[u] = record[t]
      BY <1>2 DEF SweepList, TypeOK, Threads
    <2>2. ListingPart'
      <3> SUFFICES ASSUME NEW u \in Tasks PROVE ListingInv(u)'
        BY DEF ListingPart
      <3>1. TaskInv(u) /\ ListingInv(u) /\ topAttempt[u] \in Nat /\ record[u] \in Record
        BY DEF Parts, TaskPart, ListingPart, TypeOK, StoreTypeOK
      <3>2. CASE listing'[u] = listing[u]
        BY <2>1, <3>1, <3>2 DEF ListingInv, Listed, Seen, SweepFrame
      <3>3. CASE u = t /\ Dispatched(t) /\ listing'[u] = record[t]
        <4>1. record[u].attempts \in Nat
          BY <3>1 DEF Record
        <4> QED BY <2>1, <3>1, <3>3, <4>1 DEF ListingInv, TaskInv, Dispatched, Seen, SweepFrame
      <3> QED BY <2>1, <3>2, <3>3
    <2>3. PlanInv("sweeper")'
      BY <2>1, NoPlan DEF Threads
    <2> QED BY <2>1, <2>2, <2>3, SweepStep
  <1>t. ASSUME NEW t \in Tasks, SweepTake(t), record' = record
        PROVE  SweepFrame /\ ListingPart' /\ t \in Listed /\ pc["sweeper"] = "scan"
    <2>1. \A u \in Tasks : listing'[u] = listing[u] \/ listing'[u] = NoRecord
      BY <1>t DEF SweepTake, TypeOK
    <2> QED BY <1>t, <2>1, ListingFrame DEF SweepTake, SweepFrame, Parts
  <1>3. ASSUME NEW t \in Tasks, SweepFresh(t) PROVE Parts'
    <2>1. SweepTake(t) /\ record' = record /\ pc' = pc /\ job' = job
      BY <1>3 DEF SweepFresh, SweepTake
    <2>2. PlanInv("sweeper")'
      BY <1>t, <2>1, NoPlan DEF Threads
    <2> QED BY <1>t, <2>1, <2>2, SweepStep
  <1>p. ASSUME NEW t \in Tasks, SweepTake(t), NEW rec, NEW pub, Plan("sweeper", t, rec, pub),
               rec.action = listing[t].action, rec.status # "unseen",
               \/ rec.attempts = listing[t].attempts /\ pub # "dispatch"
               \/ rec.attempts = listing[t].attempts + 1 /\ ~Exhausted(listing[t]),
               pub = "failed" => Exhausted(listing[t])
        PROVE  Parts'
    <2>1. /\ record' = record /\ topAttempt' = topAttempt /\ SweepFrame
          /\ job'["sweeper"].task = t /\ job'["sweeper"].rec = rec
          /\ job'["sweeper"].pub = pub /\ pc'["sweeper"] = "set"
          /\ pc'["consumer"] = pc["consumer"] /\ job'["consumer"] = job["consumer"]
      BY <1>p DEF SweepTake, SweepFrame, Plan, TypeOK, Threads
    <2>2. ListingPart' /\ t \in Listed
      BY <1>p, <1>t, <2>1
    <2>3. /\ rec.attempts \in 1 .. MAX_RETRIES /\ rec.attempts <= topAttempt[t] + 1
          /\ pub = "dispatch" => rec.attempts > 1
          /\ pub = "failed" => topAttempt[t] = MAX_RETRIES
          /\ Seen(t) /\ t \in Requested /\ rec.action = record[t].action
          /\ topAttempt[t] > 0
      BY <1>p, <2>2, ListedRecord, RetryAssumption DEF Exhausted
    <2>4. PlanInv("sweeper")'
      BY <1>p, <2>1, <2>3 DEF PlanInv, LaterPlan, FirstPlan, FirstSaved, Seen
    <2> QED BY <2>1, <2>2, <2>4, SweepStep
  <1>4. ASSUME NEW t \in Tasks, SweepTimeOut(t) PROVE Parts'
    <2> DEFINE rec == [listing[t] EXCEPT !.status = "timed_out"]
    <2>1. SweepTake(t) /\ Plan("sweeper", t, rec, "failed") /\ Exhausted(listing[t])
      BY <1>4 DEF SweepTimeOut
    <2>2. rec.action = listing[t].action /\ rec.attempts = listing[t].attempts /\ rec.status # "unseen"
      BY DEF TypeOK, Record
    <2> HIDE DEF rec
    <2> QED BY <1>p, <2>1, <2>2
  <1>5. ASSUME NEW t \in Tasks, SweepUnroutable(t) PROVE Parts'
    <2> DEFINE rec == [listing[t] EXCEPT !.status = "failed"]
    <2>1. SweepTake(t) /\ Plan("sweeper", t, rec, "none")
      BY <1>5 DEF SweepUnroutable
    <2>2. rec.action = listing[t].action /\ rec.attempts = listing[t].attempts /\ rec.status # "unseen"
      BY DEF TypeOK, Record
    <2> HIDE DEF rec
    <2> QED BY <1>p, <2>1, <2>2
  <1>6. ASSUME NEW t \in Tasks, SweepRetry(t) PROVE Parts'
    <2> DEFINE rec == DispatchRecord(listing[t].action, listing[t].attempts + 1)
    <2>1. SweepTake(t) /\ Plan("sweeper", t, rec, "dispatch") /\ ~Exhausted(listing[t])
      BY <1>6 DEF SweepRetry
    <2>2. rec.action = listing[t].action /\ rec.attempts = listing[t].attempts + 1 /\ rec.status # "unseen"
      BY DEF DispatchRecord
    <2> HIDE DEF rec
    <2> QED BY <1>p, <2>1, <2>2
  <1> QED BY <1>1, <1>2, <1>3, <1>4, <1>5, <1>6

\* Acknowledgements and faults only drop what a thread was doing.
LEMMA FaultStep ==
  ASSUME TypeOK, Parts,
         \/ Acknowledge \/ RouteKeyError \/ ConsumerFault \/ SweeperFault \/ ConsumerStops
         \/ \E table \in RouteTables, claimed \in SUBSET (pending \cup InHand) : Restart(table, claimed)
  PROVE  Parts'
  <1> USE DEF storeVars, outputVars, targetVars, busVars
  <1>1. CASE Acknowledge
    <2>1. PlanInv("consumer")'
      BY <1>1, NoPlan DEF Acknowledge, TypeOK, Threads
    <2>2. BusyPart'
      BY <1>1 DEF Acknowledge, TypeOK, Threads, Parts, BusyPart
    <2> QED BY <1>1, <2>1, <2>2, QuietStep DEF Acknowledge, TypeOK, Threads, InHand
  <1>2. CASE RouteKeyError \/ ConsumerFault
    <2>0. HandlerRaised /\ pc["consumer"] \in {"get", "set", "index", "publish", "ack"}
      BY <1>2 DEF RouteKeyError, ConsumerFault, Handling
    <2>1. pc'["consumer"] \in {"get", "ack"} /\ pc'["sweeper"] = pc["sweeper"]
          /\ job'["sweeper"] = job["sweeper"]
      BY <2>0 DEF HandlerRaised, TypeOK, Threads
    <2>2. PlanInv("consumer")'
      BY <2>1, NoPlan DEF Threads
    <2>3. BusyPart'
      BY <2>0, <2>1 DEF HandlerRaised, Parts, BusyPart
    <2> QED BY <2>0, <2>1, <2>2, <2>3, QuietStep DEF HandlerRaised, Threads, InHand
  <1>3. CASE SweeperFault
    <2>1. /\ pc'["sweeper"] = "idle" /\ pc'["consumer"] = pc["consumer"]
          /\ job'["consumer"] = job["consumer"] /\ \A t \in Tasks : listing'[t] = NoRecord
      BY <1>3 DEF SweeperFault, TypeOK, Threads
    <2>2. PlanInv("sweeper")'
      BY <2>1, NoPlan DEF Threads
    <2>3. BusyPart'
      BY <1>3, <2>1 DEF SweeperFault, Parts, BusyPart
    <2> QED BY <1>3, <2>1, <2>2, <2>3, QuietStep DEF SweeperFault, Threads, InHand
  <1>4. CASE ConsumerStops
    <2>1. /\ pc'["consumer"] = "stopped" /\ pc'["sweeper"] = pc["sweeper"]
          /\ job'["sweeper"] = job["sweeper"] /\ cur' = NoEvent
          /\ pending' = pending \cup InHand /\ redeliver' = redeliver
      BY <1>4 DEF ConsumerStops, TypeOK, Threads
    <2>2. PlanInv("consumer")'
      BY <2>1, NoPlan DEF Threads
    <2>3. BusyPart'
      BY <2>1 DEF Parts, BusyPart
    <2>4. (pending \cup redeliver \cup InHand)' \subseteq pending \cup redeliver \cup InHand
      BY <2>1 DEF InHand
    <2> QED BY <1>4, <2>1, <2>2, <2>3, <2>4, QuietStep DEF ConsumerStops, Threads
  <1>5. ASSUME NEW table \in RouteTables, NEW claimed \in SUBSET (pending \cup InHand),
               Restart(table, claimed)
        PROVE  Parts'
    <2>1. /\ pc'["consumer"] = "idle" /\ pc'["sweeper"] = "idle" /\ cur' = NoEvent
          /\ pending' = pending \cup InHand /\ redeliver' \subseteq pending'
          /\ \A t \in Tasks : listing'[t] = NoRecord
          /\ UNCHANGED <<record, topAttempt, sent, announced, outstanding, armed>>
      BY <1>5 DEF Restart, Threads
    <2>2. TaskPart' /\ ListingPart'
      BY <2>1, TaskFrame, ListingFrame DEF Parts
    <2>3. EventPart'
      <3>1. (pending \cup redeliver \cup InHand)' \subseteq pending \cup redeliver \cup InHand
        BY <2>1 DEF InHand
      <3> QED BY <2>1, <3>1, EventFrame DEF Parts
    <2>4. PlanInv("consumer")' /\ PlanInv("sweeper")'
      BY <2>1, NoPlan DEF Threads
    <2>5. BusyPart'
      BY <2>1 DEF BusyPart
    <2> QED BY <2>2, <2>3, <2>4, <2>5 DEF Parts
  <1> QED BY <1>1, <1>2, <1>3, <1>4, <1>5

\* A dispatch growing old keeps the invariant.
LEMMA OverdueStep ==
  ASSUME TypeOK, Parts, NEW t \in Tasks, Overdue(t) PROVE Parts'
  <1> USE DEF outputVars, targetVars, busVars, processVars
  <1>1. /\ UNCHANGED <<topAttempt, sent, announced, outstanding, armed, pending, redeliver, cur,
                      pc, job, listing>>
        /\ \A u \in Tasks : /\ record'[u].action = record[u].action
                            /\ record'[u].status = record[u].status
                            /\ record'[u].attempts = record[u].attempts
    BY SMTT(60) DEF Overdue, TypeOK, StoreTypeOK, Record
  <1>2. TaskPart'
    <2> SUFFICES ASSUME NEW u \in Tasks PROVE TaskInv(u)'
      BY DEF TaskPart
    <2>1. TaskInv(u) /\ (Seen(u)' <=> Seen(u)) /\ (Dispatched(u)' <=> Dispatched(u))
      BY <1>1 DEF Parts, TaskPart, Seen, Dispatched
    <2>2. ~Seen(u) => record'[u] = record[u]
      BY DEF Overdue, Dispatched, Seen, TypeOK, StoreTypeOK
    <2> QED BY <1>1, <2>1, <2>2 DEF TaskInv
  <1>3. Grows
    BY <1>1 DEF Grows, Seen, TypeOK
  <1>4. ListingPart' /\ EventPart'
    BY <1>1, <1>3, ListingGrows, EventGrows DEF Parts, InHand
  <1>5. ASSUME NEW th \in Threads PROVE PlanInv(th)'
    <2>1. PlanInv(th)
      BY DEF Parts, Threads
    <2>2. th = "consumer" /\ pc[th] = "set" /\ cur.kind = "request" => ~Seen(job[th].task)'
      BY <1>1, <2>1 DEF PlanInv, Seen, TypeOK
    <2> QED BY <1>1, <1>3, <2>1, <2>2, PlanGrows
  <1>6. BusyPart'
    BY <1>1 DEF Parts, BusyPart
  <1> QED BY <1>2, <1>4, <1>5, <1>6 DEF Parts, Threads

\* Every step keeps the inductive invariant.
LEMMA InvStep == IInv /\ [Next]_vars => IInv'
  <1> SUFFICES ASSUME IInv, [Next]_vars PROVE IInv'
    OBVIOUS
  <1>1. TypeOK /\ TypeOK' /\ Parts
    BY TypeStep, PartsIInv
  <1>5. TypeOK' /\ Parts' => IInv'
    BY DEF IInv, Parts, TaskPart, ListingPart, EventPart, BusyPart, Threads
  <1>2. CASE UNCHANGED vars
    <2>1. Parts'
      BY <1>1, <1>2, TaskFrame, ListingFrame, EventFrame, PlanFrame
      DEF vars, Parts, BusyPart, InHand, storeVars, processVars, busVars, targetVars, outputVars, Threads
    <2> QED BY <1>1, <2>1, <1>5
  <1>3. {"consumer", "sweeper"} \subseteq Threads
    BY DEF Threads
  <1>4. CASE Next
    <2>1. Parts'
      BY <1>1, <1>3, <1>4, ArrivalStep, RedeliverStep, PlanningStep, SaveRecordStep, SaveIndexStep,
         PublishStep, SweeperStep, FaultStep, OverdueStep
      DEF Next, Consumer, Sweeper, Fault
    <2> QED BY <1>1, <2>1, <1>5
  <1> QED BY <1>2, <1>4

-----------------------------------------------------------------------------
(* The orchestrator implements TaskLedger: of all its steps only the SET   *)
(* of a record binds a task or reserves an attempt, and only a publication *)
(* sends or announces; every other step is a stuttering step of the        *)
(* ledger.  IInv says that what a thread carries out, from records that    *)
(* may be stale by then, is what the ledger allows.                        *)

\* What the ledger sees of the orchestrator's state is left alone.
LedgerStutters ==
    /\ \A t \in Tasks : record'[t].action = record[t].action
    /\ UNCHANGED <<topAttempt, sent, announced>>

\* Such a step is a stuttering step of the ledger.
LEMMA Stutter == LedgerStutters => UNCHANGED Ledger!vars
  BY DEF LedgerStutters, Ledger!vars

\* The orchestrator starts as the ledger does.
LEMMA LedgerInit == Init => Ledger!Init
  BY DEF Init, StoreInit, NoRecord, Ledger!Init

\* The SET of a record, by either thread: a first request binds its task, a
\* later plan reserves the next attempt or changes nothing the ledger sees.
LEMMA SaveRecordRefines ==
  ASSUME IInv, NEW th \in Threads, SaveRecord(th)
  PROVE  [Ledger!Next]_(Ledger!vars)
  <1> DEFINE t   == job[th].task
             rec == job[th].rec
  <1>1. /\ t \in Tasks /\ rec.attempts \in Nat /\ topAttempt[t] \in Nat
        /\ PlanInv(th) /\ TaskInv(t) /\ pc[th] = "set"
    BY DEF IInv, TypeOK, SaveRecord, Job, Record
  <1>2. /\ record' = [record EXCEPT ![t] = rec]
        /\ topAttempt' = [topAttempt EXCEPT ![t] = IF rec.attempts > topAttempt[t] THEN rec.attempts ELSE topAttempt[t]]
        /\ UNCHANGED <<sent, announced>>
    BY DEF SaveRecord, SetRecord, outputVars
  <1>3. /\ record \in [Tasks -> Record] /\ topAttempt \in [Tasks -> Nat]
    BY DEF IInv, TypeOK, StoreTypeOK
  <1>4. [u \in Tasks |-> record'[u].action] = [[u \in Tasks |-> record[u].action] EXCEPT ![t] = rec.action]
    BY <1>1, <1>2, <1>3
  <1>5. CASE th = "consumer" /\ cur.kind = "request"
    <2> DEFINE a == rec.action
               n == rec.attempts
    <2>1. /\ ~Seen(t) /\ a \in Actions
          /\ n \in {0, 1} /\ topAttempt[t] = 0 /\ record[t].action = NoAction
      BY <1>1, <1>5 DEF PlanInv, FirstPlan, TaskInv, NoRecord
    <2>2. topAttempt' = [topAttempt EXCEPT ![t] = n]
      <3>1. (IF rec.attempts > topAttempt[t] THEN rec.attempts ELSE topAttempt[t]) = rec.attempts
        BY <2>1
      <3> QED BY <1>2, <3>1
    <2>3. CASE n = 0
      <3>1. PICK u \in Tasks, b \in Actions : u = t /\ b = a
        BY <1>1, <2>1
      <3>2. Ledger!Reject(u, b)
        BY <1>1, <1>2, <1>4, <2>1, <2>2, <2>3, <3>1 DEF Ledger!Reject, Ledger!Bind
      <3> QED BY <3>2 DEF Ledger!Next
    <2>4. CASE n = 1
      <3>1. PICK u \in Tasks, b \in Actions : u = t /\ b = a
        BY <1>1, <2>1
      <3>2. Ledger!Accept(u, b)
        BY <1>1, <1>2, <1>4, <2>1, <2>2, <2>4, <3>1 DEF Ledger!Accept, Ledger!Bind
      <3> QED BY <3>2 DEF Ledger!Next
    <2> QED BY <2>1, <2>3, <2>4
  <1>6. CASE ~(th = "consumer" /\ cur.kind = "request")
    <2>1. /\ Seen(t) /\ topAttempt[t] > 0 /\ rec.action = record[t].action
          /\ rec.attempts <= MAX_RETRIES /\ rec.attempts <= topAttempt[t] + 1
      BY <1>1, <1>6, RetryAssumption DEF PlanInv, LaterPlan
    <2>2. \A u \in Tasks : record'[u].action = record[u].action
      BY <1>1, <1>2, <1>3, <2>1
    <2>3. CASE rec.attempts <= topAttempt[t]
      <3>1. (IF rec.attempts > topAttempt[t] THEN rec.attempts ELSE topAttempt[t]) = topAttempt[t]
        BY <1>1, <2>3
      <3>2. topAttempt' = topAttempt
        BY <1>1, <1>2, <1>3, <3>1
      <3> QED BY <1>2, <2>2, <3>2, Stutter DEF LedgerStutters
    <2>4. CASE rec.attempts > topAttempt[t]
      <3>1. /\ (IF rec.attempts > topAttempt[t] THEN rec.attempts ELSE topAttempt[t]) = topAttempt[t] + 1
            /\ topAttempt[t] \in 1 .. MAX_RETRIES - 1
        BY <1>1, <2>1, <2>4, RetryAssumption
      <3>2. Ledger!Reserve(t)
        BY <1>2, <2>2, <3>1 DEF Ledger!Reserve
      <3> QED BY <1>1, <3>2 DEF Ledger!Next
    <2> QED BY <1>1, <2>3, <2>4
  <1> QED BY <1>5, <1>6

\* A publication, by either thread: the dispatch of an attempt that was
\* reserved, or task.failed after the last.
LEMMA PublishRefines ==
  ASSUME IInv, NEW th \in Threads, Publish(th)
  PROVE  [Ledger!Next]_(Ledger!vars)
  <1> DEFINE t   == job[th].task
             rec == job[th].rec
  <1>1. /\ t \in Tasks /\ rec.attempts \in Nat /\ topAttempt[t] \in Nat
        /\ PlanInv(th) /\ TaskInv(t) /\ pc[th] = "publish"
        /\ job[th].pub \in {"none", "dispatch", "failed"}
    BY DEF IInv, TypeOK, Publish, Job, Record
  <1>2. UNCHANGED <<record, topAttempt>>
    BY DEF Publish, storeVars
  <1>3. CASE job[th].pub = "dispatch"
    <2>1. /\ sent' = [sent EXCEPT ![t] = Append(sent[t], [action |-> rec.action, attempt |-> rec.attempts])]
          /\ announced' = announced
      BY <1>3 DEF Publish
    <2>2. /\ rec.action = record[t].action /\ rec.attempts \in 1 .. topAttempt[t]
          /\ rec.attempts = 1 => \A i \in 1 .. Len(sent[t]) : sent[t][i].attempt # 1
      BY <1>1, <1>3 DEF PlanInv, FirstPlan, FirstSaved, LaterPlan
    <2>3. Ledger!Send(t, rec.attempts)
      BY <1>1, <1>2, <2>1, <2>2 DEF Ledger!Send
    <2>4. rec.attempts \in 1 .. MAX_RETRIES
      BY <1>1, <2>2, RetryAssumption DEF TaskInv
    <2> QED BY <1>1, <2>3, <2>4 DEF Ledger!Next
  <1>4. CASE job[th].pub # "dispatch"
    <2>1. topAttempt[t] = MAX_RETRIES
      BY <1>1, <1>4 DEF PlanInv
    <2>2. announced' = [announced EXCEPT ![t] = announced[t] + 1] /\ sent' = sent
      BY <1>4 DEF Publish
    <2>3. Ledger!Announce(t)
      BY <1>2, <2>1, <2>2 DEF Ledger!Announce
    <2> QED BY <1>1, <2>3 DEF Ledger!Next
  <1> QED BY <1>3, <1>4

\* Time that passes changes a record, but nothing the ledger sees of it.
LEMMA OverdueStutters ==
  ASSUME IInv, NEW t \in Tasks, Overdue(t)
  PROVE  LedgerStutters
  BY DEF IInv, TypeOK, StoreTypeOK, Record, Overdue, LedgerStutters, outputVars

\* All other steps of the consumer, the sweeper, the targets and the faults.
LEMMA QuietStepsStutter ==
  ASSUME \/ Arrival
         \/ \E e \in redeliver : Redeliver(e)
         \/ IgnoreDuplicate \/ RejectUnknownAction \/ DispatchRequested
         \/ MarkCompleted \/ IgnoreForeignAnswer
         \/ FailPermanently \/ RetryOnFailure \/ RouteKeyError
         \/ Acknowledge
         \/ SweepBegin \/ SweepListed \/ SweepEvict \/ SweepEnd
         \/ \E t \in Tasks : SweepList(t) \/ SweepFresh(t) \/ SweepTimeOut(t)
                             \/ SweepUnroutable(t) \/ SweepRetry(t)
         \/ \E th \in Threads : SaveIndex(th)
         \/ Fault
         \/ UNCHANGED vars
  PROVE  LedgerStutters
  <1> SUFFICES UNCHANGED <<record, topAttempt, sent, announced>>
    BY DEF LedgerStutters
  <1> USE DEF storeVars, outputVars
  <1>1. CASE Arrival \/ \E e \in redeliver : Redeliver(e)
    BY <1>1 DEF Arrival, DeliverRequest, DeliverAnswer, DeliverStreamEnded, Redeliver, Deliver
  <1>2. CASE IgnoreDuplicate \/ RejectUnknownAction \/ DispatchRequested \/ MarkCompleted
             \/ IgnoreForeignAnswer \/ FailPermanently \/ RetryOnFailure \/ RouteKeyError \/ Acknowledge
    BY <1>2 DEF IgnoreDuplicate, RejectUnknownAction, DispatchRequested, MarkCompleted,
                IgnoreForeignAnswer, FailPermanently, RetryOnFailure, RouteKeyError, Acknowledge,
                HandlerFrame, HandlerRaised
  <1>3. CASE \/ SweepBegin \/ SweepListed \/ SweepEvict \/ SweepEnd
             \/ \E t \in Tasks : SweepList(t) \/ SweepFresh(t) \/ SweepTimeOut(t)
                                 \/ SweepUnroutable(t) \/ SweepRetry(t)
    BY <1>3 DEF SweepBegin, SweepListed, SweepEvict, SweepEnd, EvictFromIndex, SweepList, SweepFresh,
                SweepTimeOut, SweepUnroutable, SweepRetry, SweepTake, SweepFrame
  <1>4. CASE \E th \in Threads : SaveIndex(th)
    BY <1>4 DEF SaveIndex, IndexRecord
  <1>5. CASE Fault
    BY <1>5 DEF Fault, ConsumerFault, HandlerRaised, SweeperFault, ConsumerStops, Restart
  <1>6. CASE UNCHANGED vars
    BY <1>6 DEF vars
  <1> QED BY <1>1, <1>2, <1>3, <1>4, <1>5, <1>6

\* Every step is one of the ledger's, or stutters.
LEMMA StepRefines == IInv /\ [Next]_vars => [Ledger!Next]_(Ledger!vars)
  <1> SUFFICES ASSUME IInv, [Next]_vars PROVE [Ledger!Next]_(Ledger!vars)
    OBVIOUS
  <1>1. {"consumer", "sweeper"} \subseteq Threads
    BY DEF Threads
  <1>2. CASE \E th \in Threads : SaveRecord(th)
    BY <1>2, SaveRecordRefines
  <1>3. CASE \E th \in Threads : Publish(th)
    BY <1>3, PublishRefines
  <1>4. CASE \E t \in Tasks : Overdue(t)
    BY <1>4, OverdueStutters, Stutter
  <1>5. CASE LedgerStutters
    BY <1>5, Stutter
  <1> QED BY <1>1, <1>2, <1>3, <1>4, <1>5, QuietStepsStutter DEF Next, Consumer, Sweeper

-----------------------------------------------------------------------------
(* The theorems. *)

\* Every state of the orchestrator is well typed.
THEOREM TypeCorrect == Spec => []TypeOK
  BY InitTypeOK, TypeStep, PTL DEF Spec

\* The inductive invariant holds in every reachable state.
THEOREM Invariance == Spec => []IInv
  BY InitInv, InvStep, PTL DEF Spec

\* Whatever the events, crashes, retries and interleavings, the first dispatch
\* of a task is published at most once (duplicate execution prevention).
THEOREM FirstDispatchOnlyOnce == Spec => []FirstDispatchOnce
  <1>1. IInv => FirstDispatchOnce
    BY DEF IInv, TaskInv, FirstDispatchOnce
  <1> QED BY <1>1, Invariance, PTL

\* Every dispatch of a task carries the action it was requested with.
THEOREM RouteIsKept == Spec => []RouteKept
  <1>1. IInv => RouteKept
    BY DEF IInv, TaskInv, RouteKept
  <1> QED BY <1>1, Invariance, PTL

\* Attempts never exceed MAX_RETRIES and task.failed comes only after the last.
THEOREM GivesUpOnlyInTime == Spec => []GivesUpInTime
  <1>1. IInv => GivesUpInTime
    BY DEF IInv, TaskInv, GivesUpInTime
  <1> QED BY <1>1, Invariance, PTL

\* The orchestrator implements the ledger, for every set of tasks and actions
\* and whatever its threads, its store, its targets and its crashes do: a task
\* keeps its action, attempts are reserved one by one and go out only then,
\* the first at most once, and task.failed comes after the last.
THEOREM OrchestratorImplementsLedger == Spec => ImplementsLedger
  BY LedgerInit, StepRefines, Invariance, PTL DEF Spec, ImplementsLedger, Ledger!Spec
=============================================================================
