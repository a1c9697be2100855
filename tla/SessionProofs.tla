--------------------------- MODULE SessionProofs ---------------------------
(***************************************************************************)
(* What holds of the live streaming agent for every set of sessions, every *)
(* limit on reconnects and samples, and any number of events, faults and   *)
(* crashes: StreamSession's invariants by way of the inductive IInv.       *)
(*                                                                         *)
(* The argument: every copy of a record that a thread holds was once in    *)
(* the store, and no record counts more attempts than topAttempt, so a     *)
(* plan made from a stale copy is still within the limit; and the sample   *)
(* of an end is durable before the thread can announce it.                 *)
(***************************************************************************)
EXTENDS MCSession, SequenceTheorems, TLAPS

\* The absent record is a record, and a thread with no plan has a job.
LEMMA NoRecordIsRecord == NoRecord \in Record /\ NoRecord.attempts = 0 /\ NoRecord.status = "unseen"
  BY DEF NoRecord, Record

\* An idle thread's job is one.
LEMMA NoJobIsJob == NoJob \in Job
  BY NoRecordIsRecord DEF NoJob, Job, Outputs

\* The records the handlers and the sweep write.
LEMMA PlannedRecords ==
  ASSUME NEW state \in SessionStates \cup {"none"}, NEW n \in Nat
  PROVE  /\ Watched(state, n) \in Record /\ Watched(state, n).attempts = n
         /\ Ended(n) \in Record /\ Ended(n).attempts = n
  BY DEF Watched, Ended, Record, Statuses, SessionStates

-----------------------------------------------------------------------------
(* Which steps change which part of the state. *)

\* No step but these changes the store, the model, the issues, the outputs,
\* the consumer's event, the bus, the sweep's lists or the /health probe's.
LEMMA Changes ==
  ASSUME [Next]_vars
  PROVE  /\ UNCHANGED <<record, topAttempt>> \/ (\E th \in Threads : SaveRecord(th)) \/ (\E s \in Sessions : Stale(s))
         /\ UNCHANGED dispatchedSet \/ (\E th \in Threads : SaveIndex(th)) \/ SweepEvict \/ (\E s \in Sessions : HealthEvict(s))
         /\ UNCHANGED modelVars \/ (\E th \in Threads : Train(th) \/ TrainFault(th))
            \/ (\E claimed \in SUBSET (pending \cup InHand) : Restart(claimed))
         /\ UNCHANGED issueVars \/ RecordIssues
            \/ (\E claimed \in SUBSET (pending \cup InHand) : Restart(claimed))
         /\ UNCHANGED outputVars \/ (\E th \in Threads : Publish(th))
  <1> USE DEF HandlerFrame, SweepFrame, SweepTake, HealthFrame, Plan, Ignore, Begin, HandlerRaised, SweepRaised, Raised,
       sessionVars, threadVars, busVars, healthVars, issueVars, modelVars, outputVars, budgetVars, vars
  <1>1. {"consumer", "sweeper"} = Threads
    BY DEF Threads
  <1>2. CASE Arrival \/ (\E e \in redeliver : Redeliver(e))
    BY <1>2 DEF Arrival, Deliver, Redeliver
  <1>3. CASE StreamStarted \/ Heartbeat \/ LiveEnded \/ RecordIssues
             \/ IgnoreEnded \/ GiveUp \/ Reconnect \/ IgnoreSessionless \/ Acknowledge
    BY <1>3 DEF StreamStarted, Heartbeat, LiveEnded, RecordIssues, IgnoreEnded, GiveUp, Reconnect, IgnoreSessionless, Acknowledge
  <1>4. ASSUME NEW th \in Threads, SaveRecord(th) \/ SaveIndex(th) \/ Train(th) \/ Publish(th)
        PROVE  /\ UNCHANGED <<record, topAttempt>> \/ SaveRecord(th)
               /\ UNCHANGED dispatchedSet \/ SaveIndex(th)
               /\ UNCHANGED modelVars \/ Train(th)
               /\ UNCHANGED issueVars
               /\ UNCHANGED outputVars \/ Publish(th)
    BY <1>4 DEF SaveRecord, SaveIndex, Train, Publish, SetRecord, IndexRecord
  <1>5. CASE SweepBegin \/ SweepListed \/ SweepEvict \/ SweepEnd
             \/ (\E s \in Sessions : SweepList(s) \/ SweepFresh(s) \/ SweepEndSession(s) \/ SweepReconnect(s))
    BY <1>5 DEF SweepBegin, SweepListed, SweepEvict, SweepEnd, SweepList, SweepFresh, SweepEndSession, SweepReconnect,
                EvictFromIndex
  <1>6. CASE Health \/ (\E s \in Sessions : Stale(s))
    BY <1>6 DEF Health, HealthBegin, HealthRead, HealthEvict, EvictFromIndex, Stale
  <1>7. CASE Fault
    BY <1>7 DEF Fault, CommandFault, TrainFault, ConsumerStops, Restart
  <1>8. CASE UNCHANGED vars
    BY <1>8
  <1> QED BY <1>1, <1>2, <1>3, <1>4, <1>5, <1>6, <1>7, <1>8 DEF Next, Consumer, Sweeper

-----------------------------------------------------------------------------
(* The plans of both threads. *)

\* What the store allows a plan to be.
Allowed(s, rec, pub) ==
    /\ rec.attempts <= MAX_RECONNECT_ATTEMPTS
    /\ rec.attempts <= topAttempt[s] + 1
    /\ pub \in EndReasons \ {"live_ended"} => topAttempt[s] = MAX_RECONNECT_ATTEMPTS
    /\ pub = "reconnect" => rec.attempts > 0

MakesPlan(th) == \E s \in Sessions, rec \in Record, pub \in Outputs :
    Plan(th, s, rec, pub) /\ Allowed(s, rec, pub)

\* The consumer makes its plans from the record it read.
LEMMA HandlerPlans ==
  ASSUME TypeOK, AttemptInv, StreamStarted \/ Heartbeat \/ GiveUp \/ Reconnect \/ LiveEnded
  PROVE  MakesPlan("consumer") /\ HandlerFrame
  <1> DEFINE s == cur.session
             n == record[s].attempts
  <1>1. cur \in Event /\ s \in Sessions
    BY DEF TypeOK, NoEvent, Event, StreamStarted, Heartbeat, GiveUp, Reconnect, LiveEnded, Handling, Interruption
  <1>2. /\ record[s] \in Record /\ n \in Nat /\ topAttempt[s] \in Nat /\ MAX_RECONNECT_ATTEMPTS \in Nat
        /\ n <= topAttempt[s] /\ topAttempt[s] <= MAX_RECONNECT_ATTEMPTS
    BY <1>1, LimitAssumption DEF TypeOK, StoreTypeOK, Record, AttemptInv
  <1>3. CASE StreamStarted
    <2>1. Plan("consumer", s, Watched("active", 0), "armed") /\ HandlerFrame
      BY <1>3 DEF StreamStarted
    <2>2. Watched("active", 0) \in Record /\ Allowed(s, Watched("active", 0), "armed") /\ "armed" \in Outputs
      BY <1>2, PlannedRecords DEF SessionStates, Allowed, Outputs, EndReasons
    <2> QED BY <1>1, <2>1, <2>2 DEF MakesPlan
  <1>4. CASE Heartbeat
    <2>1. PICK pub \in {"none", "anomaly"} : Plan("consumer", s, Watched("active", n), pub) /\ HandlerFrame
      BY <1>4 DEF Heartbeat
    <2>2. Watched("active", n) \in Record /\ Allowed(s, Watched("active", n), pub) /\ pub \in Outputs
      BY <1>2, PlannedRecords DEF SessionStates, Allowed, Outputs, EndReasons
    <2> QED BY <1>1, <2>1, <2>2 DEF MakesPlan
  <1>5. CASE GiveUp
    <2>1. Plan("consumer", s, Ended(n), "reconnect_attempts_exhausted") /\ HandlerFrame /\ n >= MAX_RECONNECT_ATTEMPTS
      BY <1>5 DEF GiveUp, Exhausted
    <2>2. /\ Ended(n) \in Record /\ Allowed(s, Ended(n), "reconnect_attempts_exhausted")
          /\ "reconnect_attempts_exhausted" \in Outputs
      BY <1>2, <2>1, PlannedRecords DEF SessionStates, Allowed, Outputs, EndReasons
    <2> QED BY <1>1, <2>1, <2>2 DEF MakesPlan
  <1>6. CASE Reconnect
    <2>1. Plan("consumer", s, Watched("interrupted", n + 1), "reconnect") /\ HandlerFrame /\ ~(n >= MAX_RECONNECT_ATTEMPTS)
      BY <1>6 DEF Reconnect, Exhausted
    <2>2. /\ Watched("interrupted", n + 1) \in Record /\ Allowed(s, Watched("interrupted", n + 1), "reconnect")
          /\ "reconnect" \in Outputs
      BY <1>2, <2>1, PlannedRecords DEF SessionStates, Allowed, Outputs, EndReasons
    <2> QED BY <1>1, <2>1, <2>2 DEF MakesPlan
  <1>7. CASE LiveEnded
    <2>1. Plan("consumer", s, Ended(n), "live_ended") /\ HandlerFrame
      BY <1>7 DEF LiveEnded
    <2>2. Ended(n) \in Record /\ Allowed(s, Ended(n), "live_ended") /\ "live_ended" \in Outputs
      BY <1>2, PlannedRecords DEF SessionStates, Allowed, Outputs, EndReasons
    <2> QED BY <1>1, <2>1, <2>2 DEF MakesPlan
  <1> QED BY <1>3, <1>4, <1>5, <1>6, <1>7

\* The sweeper makes its plans from the copy it listed.
LEMMA SweepPlans ==
  ASSUME TypeOK, AttemptInv, NEW s \in Sessions, SweepEndSession(s) \/ SweepReconnect(s)
  PROVE  MakesPlan("sweeper") /\ SweepTake(s)
  <1> DEFINE n == listing[s].attempts
             state == listing[s].action
  <1>1. /\ n \in Nat /\ topAttempt[s] \in Nat /\ MAX_RECONNECT_ATTEMPTS \in Nat
        /\ n <= topAttempt[s] /\ topAttempt[s] <= MAX_RECONNECT_ATTEMPTS
        /\ state \in SessionStates \cup {"none"}
    BY LimitAssumption DEF TypeOK, Record, AttemptInv
  <1>2. CASE SweepEndSession(s)
    <2>1. Plan("sweeper", s, Ended(n), "heartbeat_stale_timeout") /\ n >= MAX_RECONNECT_ATTEMPTS /\ SweepTake(s)
      BY <1>2 DEF SweepEndSession, Exhausted
    <2>2. Ended(n) \in Record /\ Allowed(s, Ended(n), "heartbeat_stale_timeout") /\ "heartbeat_stale_timeout" \in Outputs
      BY <1>1, <2>1, PlannedRecords DEF Allowed, Outputs, EndReasons
    <2> QED BY <2>1, <2>2 DEF MakesPlan
  <1>3. CASE SweepReconnect(s)
    <2>1. Plan("sweeper", s, Watched(state, n + 1), "reconnect") /\ ~(n >= MAX_RECONNECT_ATTEMPTS) /\ SweepTake(s)
      BY <1>3 DEF SweepReconnect, Exhausted
    <2>2. PICK st \in SessionStates \cup {"none"}, m \in Nat : st = state /\ m = n + 1
      BY <1>1
    <2>3. Watched(st, m) \in Record /\ Watched(st, m).attempts = m
      BY PlannedRecords
    <2>4. m <= MAX_RECONNECT_ATTEMPTS /\ m <= topAttempt[s] + 1 /\ m > 0
      BY <1>1, <2>1, <2>2
    <2>5. Plan("sweeper", s, Watched(st, m), "reconnect")
      BY <2>1, <2>2
    <2>6. Allowed(s, Watched(st, m), "reconnect") /\ "reconnect" \in Outputs
      BY <2>3, <2>4 DEF Allowed, Outputs, EndReasons
    <2> QED BY <2>1, <2>3, <2>5, <2>6 DEF MakesPlan
  <1> QED BY <1>2, <1>3

\* A thread in one of these states carries a plan.
Planned == {"set", "index", "train", "publish"}

\* Every way a thread can move.
LEMMA Moves ==
  ASSUME TypeOK, AttemptInv, [Next]_vars, NEW th \in Threads
  PROVE  \/ pc'[th] = pc[th] /\ job'[th] = job[th]
         \/ SaveRecord(th) \/ SaveIndex(th) \/ Train(th) \/ Publish(th)
         \/ MakesPlan(th)
         \/ pc'[th] \notin Planned
  <1> USE DEF Threads, TypeOK, Planned
  <1>1. CASE Arrival \/ (\E e \in redeliver : Redeliver(e)) \/ RecordIssues \/ IgnoreEnded \/ IgnoreSessionless \/ Acknowledge
    BY <1>1 DEF Arrival, Deliver, Redeliver, Begin, RecordIssues, IgnoreEnded, IgnoreSessionless, Ignore, Acknowledge
  <1>2. CASE StreamStarted \/ Heartbeat \/ GiveUp \/ Reconnect \/ LiveEnded
    <2>1. MakesPlan("consumer")
      BY <1>2, HandlerPlans
    <2>2. th = "sweeper" => pc'[th] = pc[th] /\ job'[th] = job[th]
      BY <2>1 DEF MakesPlan, Plan
    <2> QED BY <2>1, <2>2
  <1>3. CASE \E s \in Sessions : SweepEndSession(s) \/ SweepReconnect(s)
    <2>1. MakesPlan("sweeper")
      BY <1>3, SweepPlans
    <2>2. th = "consumer" => pc'[th] = pc[th] /\ job'[th] = job[th]
      BY <2>1 DEF MakesPlan, Plan
    <2> QED BY <2>1, <2>2
  <1>4. ASSUME NEW u \in Threads, u # th, SaveRecord(u) \/ SaveIndex(u) \/ Train(u) \/ Publish(u)
        PROVE  pc'[th] = pc[th] /\ job'[th] = job[th]
    BY <1>4 DEF SaveRecord, SaveIndex, Train, Publish
  <1>5. CASE SweepBegin \/ SweepListed \/ SweepEvict \/ SweepEnd \/ (\E s \in Sessions : SweepList(s) \/ SweepFresh(s))
    BY <1>5 DEF SweepBegin, SweepListed, SweepEvict, SweepEnd, SweepList, SweepFresh
  <1>6. CASE Health \/ (\E s \in Sessions : Stale(s)) \/ UNCHANGED vars
    BY <1>6 DEF Health, HealthBegin, HealthRead, HealthEvict, HealthFrame, Stale, vars
  <1>7. ASSUME NEW u \in Threads, CommandFault(u) \/ TrainFault(u)
        PROVE  (pc'[th] = pc[th] /\ job'[th] = job[th]) \/ pc'[th] \notin Planned
    <2>1. CASE u = "consumer"
      BY <1>7, <2>1 DEF CommandFault, TrainFault, Raised, HandlerRaised
    <2>2. CASE u = "sweeper"
      BY <1>7, <2>2 DEF CommandFault, TrainFault, Raised, SweepRaised
    <2> QED BY <2>1, <2>2
  <1>8. CASE ConsumerStops \/ \E claimed \in SUBSET (pending \cup InHand) : Restart(claimed)
    BY <1>8 DEF ConsumerStops, Restart
  <1> HIDE DEF TypeOK, Planned
  <1> QED BY <1>1, <1>2, <1>3, <1>4, <1>5, <1>6, <1>7, <1>8 DEF Next, Consumer, Sweeper, Fault

-----------------------------------------------------------------------------
(* The records and their copies. *)

\* The sweep's list only takes over records it reads.
LEMMA ListingStep ==
  ASSUME TypeOK, [Next]_vars, NEW s \in Sessions
  PROVE  listing'[s] = listing[s] \/ listing'[s] = record[s] \/ listing'[s] = NoRecord
  <1> USE DEF TypeOK
  <1>1. CASE \E q \in Sessions : SweepList(q) \/ SweepFresh(q) \/ SweepEndSession(q) \/ SweepReconnect(q)
    BY <1>1 DEF SweepList, SweepFresh, SweepEndSession, SweepReconnect, SweepTake
  <1>2. CASE Fault
    BY <1>2 DEF Fault, CommandFault, TrainFault, Raised, HandlerRaised, SweepRaised, ConsumerStops, Restart
  <1>3. CASE SweepBegin \/ SweepListed \/ SweepEvict \/ SweepEnd
    BY <1>3 DEF SweepBegin, SweepListed, SweepEvict, SweepEnd
  <1>4. CASE Arrival \/ Consumer
    BY <1>4 DEF Arrival, Deliver, Consumer, Redeliver, Begin, RecordIssues, IgnoreEnded, IgnoreSessionless, Acknowledge,
                StreamStarted, Heartbeat, GiveUp, Reconnect, LiveEnded, HandlerFrame, threadVars,
                SaveRecord, SaveIndex, Train, Publish
  <1>5. ASSUME NEW th \in Threads, SaveRecord(th) \/ SaveIndex(th) \/ Train(th) \/ Publish(th)
        PROVE  listing' = listing
    BY <1>5 DEF SaveRecord, SaveIndex, Train, Publish, threadVars
  <1>6. CASE Health \/ (\E q \in Sessions : Stale(q)) \/ UNCHANGED vars
    BY <1>6 DEF Health, HealthBegin, HealthRead, HealthEvict, HealthFrame, Stale, vars, threadVars
  <1> HIDE DEF TypeOK
  <1> QED BY <1>1, <1>2, <1>3, <1>4, <1>5, <1>6 DEF Next, Sweeper, Threads

\* A save moves topAttempt up to the attempts it saves and never down, and
\* what else happens to a record leaves its attempts alone.
LEMMA StoreStep ==
  ASSUME TypeOK, AttemptInv, \A th \in Threads : PlanInv(th), [Next]_vars
  PROVE  /\ record' \in [Sessions -> Record]
         /\ topAttempt' \in [Sessions -> Nat]
         /\ \A s \in Sessions : /\ topAttempt[s] <= topAttempt'[s]
                                 /\ topAttempt'[s] <= MAX_RECONNECT_ATTEMPTS
                                 /\ record'[s].attempts <= topAttempt'[s]
  <1>1. /\ record \in [Sessions -> Record] /\ topAttempt \in [Sessions -> Nat]
        /\ MAX_RECONNECT_ATTEMPTS \in Nat
        /\ \A s \in Sessions : topAttempt[s] <= MAX_RECONNECT_ATTEMPTS /\ record[s].attempts <= topAttempt[s]
    BY LimitAssumption DEF TypeOK, StoreTypeOK, AttemptInv
  <1>2. ASSUME NEW th \in Threads, SaveRecord(th)
        PROVE  /\ record' \in [Sessions -> Record]
               /\ topAttempt' \in [Sessions -> Nat]
               /\ \A s \in Sessions : /\ topAttempt[s] <= topAttempt'[s]
                                       /\ topAttempt'[s] <= MAX_RECONNECT_ATTEMPTS
                                       /\ record'[s].attempts <= topAttempt'[s]
    <2>1. PICK q \in Sessions, rec \in Record : q = job[th].task /\ rec = job[th].rec
      BY <1>2 DEF TypeOK, SaveRecord, Job
    <2>2. rec.attempts \in Nat /\ rec.attempts <= MAX_RECONNECT_ATTEMPTS
      BY <1>2, <2>1 DEF SaveRecord, PlanInv, Record
    <2>3. record' = [record EXCEPT ![q] = rec]
      BY <1>2, <2>1 DEF SaveRecord, SetRecord
    <2>4. topAttempt' = [topAttempt EXCEPT ![q] = IF rec.attempts > @ THEN rec.attempts ELSE @]
      BY <1>2, <2>1 DEF SaveRecord
    <2>5. topAttempt'[q] = IF rec.attempts > topAttempt[q] THEN rec.attempts ELSE topAttempt[q]
      BY <1>1, <2>4
    <2>6. \A s \in Sessions \ {q} : record'[s] = record[s] /\ topAttempt'[s] = topAttempt[s]
      BY <1>1, <2>3, <2>4
    <2>7. record'[q] = rec /\ record' \in [Sessions -> Record] /\ topAttempt' \in [Sessions -> Nat]
      BY <1>1, <2>2, <2>3, <2>4
    <2>8. ASSUME NEW s \in Sessions
          PROVE  topAttempt[s] <= topAttempt'[s] /\ topAttempt'[s] <= MAX_RECONNECT_ATTEMPTS
                 /\ record'[s].attempts <= topAttempt'[s]
      <3>1. CASE s = q
        BY <3>1, <1>1, <2>2, <2>5, <2>7
      <3>2. CASE s # q
        BY <3>2, <1>1, <2>6
      <3> QED BY <3>1, <3>2
    <2> QED BY <2>7, <2>8
  <1>3. ASSUME NEW q \in Sessions, Stale(q)
        PROVE  /\ record' \in [Sessions -> Record] /\ topAttempt' = topAttempt
               /\ \A s \in Sessions : record'[s].attempts = record[s].attempts
    <2>1. record' = [record EXCEPT ![q].overdue = TRUE] /\ topAttempt' = topAttempt
      BY <1>3 DEF Stale
    <2>2. record[q] \in Record
      BY <1>1
    <2>3. [record[q] EXCEPT !.overdue = TRUE] \in Record
      BY <2>2 DEF Record
    <2>4. [record[q] EXCEPT !.overdue = TRUE].attempts = record[q].attempts
      BY <2>2 DEF Record
    <2>5. record' = [record EXCEPT ![q] = [record[q] EXCEPT !.overdue = TRUE]]
      BY <2>1
    <2> QED BY <1>1, <2>1, <2>3, <2>4, <2>5
  <1>4. \A s \in Sessions : topAttempt[s] \in Nat
    BY <1>1
  <1>5. CASE UNCHANGED <<record, topAttempt>>
    BY <1>1, <1>4, <1>5
  <1>6. CASE \E q \in Sessions : Stale(q)
    BY <1>1, <1>3, <1>4, <1>6
  <1> QED BY <1>2, <1>5, <1>6, Changes

\* AttemptInv is kept: a copy is of a record, and records are within the
\* highest attempt saved.
LEMMA AttemptStep ==
  ASSUME TypeOK, AttemptInv, \A th \in Threads : PlanInv(th), [Next]_vars
  PROVE  AttemptInv'
  <1> SUFFICES ASSUME NEW s \in Sessions
               PROVE  /\ topAttempt'[s] <= MAX_RECONNECT_ATTEMPTS
                      /\ record'[s].attempts <= topAttempt'[s]
                      /\ listing'[s].attempts <= topAttempt'[s]
    BY DEF AttemptInv
  <1>1. /\ topAttempt'[s] <= MAX_RECONNECT_ATTEMPTS /\ record'[s].attempts <= topAttempt'[s]
        /\ topAttempt[s] <= topAttempt'[s] /\ topAttempt'[s] \in Nat
    BY StoreStep
  <1>2. /\ record[s].attempts <= topAttempt[s] /\ listing[s].attempts <= topAttempt[s]
        /\ record[s].attempts \in Nat /\ listing[s].attempts \in Nat /\ topAttempt[s] \in Nat
    BY DEF AttemptInv, TypeOK, StoreTypeOK, Record
  <1>3. listing'[s] = listing[s] \/ listing'[s] = record[s] \/ listing'[s] = NoRecord
    BY ListingStep
  <1> QED BY <1>1, <1>2, <1>3, NoRecordIsRecord

-----------------------------------------------------------------------------
(* A plan, from the handler or the sweep that makes it to its publication. *)

\* PlanInv is kept: the plan was allowed when it was made, topAttempt only
\* rises up to its limit, and it covers the plan once the record is saved.
LEMMA PlanStep ==
  ASSUME TypeOK, AttemptInv, \A th \in Threads : PlanInv(th), [Next]_vars, NEW th \in Threads
  PROVE  PlanInv(th)'
  <1> DEFINE q == job[th].task
             rec == job[th].rec
             pub == job[th].pub
  <1> USE DEF Planned
  <1>1. /\ topAttempt \in [Sessions -> Nat] /\ topAttempt' \in [Sessions -> Nat]
        /\ MAX_RECONNECT_ATTEMPTS \in Nat /\ pc \in [Threads -> ConsumerStates \cup SweeperStates]
        /\ job \in [Threads -> Job]
    BY StoreStep, LimitAssumption DEF TypeOK
  <1>2. ASSUME pc[th] \in Planned
        PROVE  /\ q \in Sessions /\ rec \in Record /\ rec.attempts \in Nat
               /\ topAttempt[q] <= topAttempt'[q] /\ topAttempt'[q] <= MAX_RECONNECT_ATTEMPTS
               /\ topAttempt[q] \in Nat /\ topAttempt'[q] \in Nat
    <2>1. q \in Sessions /\ rec \in Record
      BY <1>2, <1>1 DEF TypeOK, Job
    <2> QED BY <2>1, <1>1, StoreStep DEF Record
  <1>3. CASE pc'[th] \notin Planned
    BY <1>3 DEF PlanInv
  <1>4. CASE pc'[th] = pc[th] /\ job'[th] = job[th] /\ pc[th] \in Planned
    BY <1>2, <1>4 DEF PlanInv
  <1>5. CASE SaveRecord(th)
    <2>1. pc'[th] = "index" /\ job' = job /\ pc[th] = "set"
      BY <1>1, <1>5 DEF SaveRecord
    <2>2. topAttempt'[q] = IF rec.attempts > topAttempt[q] THEN rec.attempts ELSE topAttempt[q]
      BY <1>1, <1>2, <1>5, <2>1 DEF SaveRecord
    <2> QED BY <1>2, <2>1, <2>2 DEF PlanInv
  <1>6. CASE SaveIndex(th) \/ Train(th)
    <2>1. /\ pc'[th] \in {"ack", "scan", "train", "publish"} /\ job' = job
          /\ pc[th] \in {"index", "train"} /\ topAttempt' = topAttempt
      BY <1>1, <1>6 DEF SaveIndex, Train, After
    <2> QED BY <1>2, <2>1 DEF PlanInv
  <1>7. CASE Publish(th)
    <2>1. pc'[th] \in {"ack", "scan"}
      BY <1>1, <1>7 DEF Publish, After
    <2> QED BY <2>1 DEF PlanInv
  <1>8. CASE MakesPlan(th)
    <2>1. PICK s \in Sessions, r \in Record, p \in Outputs : Plan(th, s, r, p) /\ Allowed(s, r, p)
      BY <1>8 DEF MakesPlan
    <2>2. pc'[th] = "set" /\ job'[th] = [task |-> s, rec |-> r, pub |-> p]
      BY <1>1, <2>1 DEF Plan
    <2>3. topAttempt[s] <= topAttempt'[s] /\ topAttempt'[s] <= MAX_RECONNECT_ATTEMPTS
          /\ topAttempt[s] \in Nat /\ topAttempt'[s] \in Nat
      BY <1>1, StoreStep
    <2>4. r.attempts \in Nat /\ r.attempts <= topAttempt'[s] + 1
      BY <2>1, <2>3 DEF Allowed, Record
    <2>5. p \in EndReasons \ {"live_ended"} => topAttempt'[s] = MAX_RECONNECT_ATTEMPTS
      BY <1>1, <2>1, <2>3 DEF Allowed
    <2>6. r.attempts <= MAX_RECONNECT_ATTEMPTS /\ (p = "reconnect" => r.attempts > 0)
      BY <2>1 DEF Allowed
    <2> QED BY <2>2, <2>4, <2>5, <2>6 DEF PlanInv
  <1> QED BY <1>3, <1>4, <1>5, <1>6, <1>7, <1>8, Moves

-----------------------------------------------------------------------------
(* What was published, the training samples and the issues. *)

\* One end more, or one reconnect more of session s, at the end of what there is.
OneEnd(s, reason) ==
    /\ Len(ends') = Len(ends) + 1
    /\ \A i \in 1 .. Len(ends) : ends'[i] = ends[i]
    /\ ends'[Len(ends) + 1] = [session |-> s, reason |-> reason]

OneReconnect(s, n) ==
    /\ Len(reconnects'[s]) = Len(reconnects[s]) + 1
    /\ \A i \in 1 .. Len(reconnects[s]) : reconnects'[s][i] = reconnects[s][i]
    /\ reconnects'[s][Len(reconnects[s]) + 1] = n

\* What a thread that publishes adds to the outputs.
LEMMA PublishStep ==
  ASSUME TypeOK, NEW th \in Threads, Publish(th),
         NEW s \in Sessions, s = job[th].task,
         NEW n \in Nat, n = job[th].rec.attempts
  PROVE  /\ ends' \in Seq([session : Sessions, reason : EndReasons])
         /\ reconnects' \in [Sessions -> Seq(Nat)]
         /\ job[th].pub \in EndReasons => OneEnd(s, job[th].pub)
         /\ job[th].pub \notin EndReasons => ends' = ends
         /\ \A x \in Sessions \ {s} : reconnects'[x] = reconnects[x]
         /\ job[th].pub = "reconnect" => OneReconnect(s, n)
         /\ job[th].pub # "reconnect" => reconnects'[s] = reconnects[s]
  <1>1. /\ ends \in Seq([session : Sessions, reason : EndReasons]) /\ reconnects \in [Sessions -> Seq(Nat)]
        /\ reconnects[s] \in Seq(Nat)
    BY DEF TypeOK
  <1>2. /\ ends' = IF job[th].pub \in EndReasons THEN Append(ends, [session |-> s, reason |-> job[th].pub]) ELSE ends
        /\ reconnects' = IF job[th].pub = "reconnect"
                         THEN [reconnects EXCEPT ![s] = Append(reconnects[s], n)] ELSE reconnects
    BY DEF Publish
  <1>3. PICK p : p = job[th].pub
    OBVIOUS
  <1>4. CASE p \in EndReasons
    <2>1. PICK e \in [session : Sessions, reason : EndReasons] : e = [session |-> s, reason |-> p]
      BY <1>4
    <2>2. ends' = Append(ends, e)
      BY <1>2, <1>3, <1>4, <2>1
    <2>3. /\ ends' \in Seq([session : Sessions, reason : EndReasons])
          /\ Len(ends') = Len(ends) + 1 /\ \A i \in 1 .. Len(ends) : ends'[i] = ends[i]
          /\ ends'[Len(ends) + 1] = e
      BY <1>1, <2>2, AppendProperties
    <2>4. p # "reconnect"
      BY <1>4 DEF EndReasons
    <2>5. OneEnd(s, p)
      BY <2>1, <2>3 DEF OneEnd
    <2> QED BY <1>1, <1>2, <1>3, <1>4, <2>3, <2>4, <2>5
  <1>5. CASE p \notin EndReasons
    <2>1. ends' = ends
      BY <1>2, <1>3, <1>5
    <2>2. PICK q \in Seq(Nat) : q = Append(reconnects[s], n)
      BY <1>1, AppendProperties
    <2>3. /\ Len(q) = Len(reconnects[s]) + 1 /\ \A i \in 1 .. Len(reconnects[s]) : q[i] = reconnects[s][i]
          /\ q[Len(reconnects[s]) + 1] = n
      BY <1>1, <2>2, AppendProperties
    <2>4. CASE p = "reconnect"
      <3>1. reconnects' = [reconnects EXCEPT ![s] = q]
        BY <1>2, <1>3, <2>2, <2>4
      <3>2. reconnects' \in [Sessions -> Seq(Nat)] /\ reconnects'[s] = q
            /\ \A x \in Sessions \ {s} : reconnects'[x] = reconnects[x]
        BY <1>1, <3>1
      <3>3. OneReconnect(s, n)
        BY <2>3, <3>2 DEF OneReconnect
      <3> QED BY <1>1, <1>3, <1>5, <2>1, <2>4, <3>2, <3>3
    <2>5. CASE p # "reconnect"
      BY <1>1, <1>2, <1>3, <1>5, <2>1, <2>5
    <2> QED BY <2>4, <2>5
  <1> QED BY <1>4, <1>5

\* FailsOnlyExhausted is kept: what is published now was allowed by the
\* record it was planned from, and topAttempt stands where it stood or rises
\* to its limit.
LEMMA OutputStep ==
  ASSUME TypeOK, AttemptInv, \A th \in Threads : PlanInv(th), FailsOnlyExhausted, [Next]_vars
  PROVE  FailsOnlyExhausted'
  <1>1. /\ topAttempt \in [Sessions -> Nat] /\ topAttempt' \in [Sessions -> Nat] /\ MAX_RECONNECT_ATTEMPTS \in Nat
        /\ \A s \in Sessions : topAttempt[s] <= topAttempt'[s] /\ topAttempt'[s] <= MAX_RECONNECT_ATTEMPTS
    BY StoreStep, LimitAssumption DEF TypeOK
  <1>2. /\ ends \in Seq([session : Sessions, reason : EndReasons]) /\ reconnects \in [Sessions -> Seq(Nat)]
        /\ \A s \in Sessions : reconnects[s] \in Seq(Nat)
    BY DEF TypeOK
  <1>3. CASE UNCHANGED outputVars
    <2> SUFFICES ASSUME NEW s \in Sessions
                 PROVE  /\ topAttempt'[s] <= MAX_RECONNECT_ATTEMPTS
                        /\ \A i \in 1 .. Len(reconnects[s]) : reconnects[s][i] \in 1 .. topAttempt'[s]
                        /\ \A i \in 1 .. Len(ends) : ends[i].session = s /\ ends[i].reason # "live_ended"
                              => topAttempt'[s] = MAX_RECONNECT_ATTEMPTS
      BY <1>3 DEF FailsOnlyExhausted, outputVars
    <2>1. topAttempt[s] <= topAttempt'[s] /\ topAttempt[s] \in Nat /\ topAttempt'[s] \in Nat
          /\ topAttempt'[s] <= MAX_RECONNECT_ATTEMPTS
      BY <1>1
    <2>2. \A i \in 1 .. Len(reconnects[s]) : reconnects[s][i] \in 1 .. topAttempt[s]
      BY DEF FailsOnlyExhausted
    <2>3. \A i \in 1 .. Len(ends) : ends[i].session = s /\ ends[i].reason # "live_ended"
              => topAttempt[s] = MAX_RECONNECT_ATTEMPTS
      BY DEF FailsOnlyExhausted
    <2>4. 1 .. topAttempt[s] \subseteq 1 .. topAttempt'[s]
      BY <2>1
    <2> QED BY <1>1, <2>1, <2>2, <2>3, <2>4
  <1>4. ASSUME NEW th \in Threads, Publish(th)
        PROVE  FailsOnlyExhausted'
    <2>1. PICK q \in Sessions : q = job[th].task
      BY <1>4 DEF Publish, TypeOK
    <2>2. PICK n \in Nat : n = job[th].rec.attempts
      BY DEF TypeOK, Job, Record
    <2>3. topAttempt' = topAttempt /\ pc[th] = "publish"
      BY <1>4 DEF Publish
    <2>4. /\ n <= topAttempt[q]
          /\ job[th].pub \in EndReasons \ {"live_ended"} => topAttempt[q] = MAX_RECONNECT_ATTEMPTS
          /\ job[th].pub = "reconnect" => n > 0
      BY <2>1, <2>2, <2>3 DEF PlanInv
    <2>5. PICK p : p = job[th].pub
      OBVIOUS
    <2>6. /\ p \in EndReasons => OneEnd(q, p)
          /\ p \notin EndReasons => ends' = ends
          /\ \A x \in Sessions \ {q} : reconnects'[x] = reconnects[x]
          /\ p = "reconnect" => OneReconnect(q, n)
          /\ p # "reconnect" => reconnects'[q] = reconnects[q]
      BY <1>4, <2>1, <2>2, <2>5, PublishStep
    <2> SUFFICES ASSUME NEW s \in Sessions
                 PROVE  /\ \A i \in 1 .. Len(reconnects'[s]) : reconnects'[s][i] \in 1 .. topAttempt[s]
                        /\ \A i \in 1 .. Len(ends') : ends'[i].session = s /\ ends'[i].reason # "live_ended"
                              => topAttempt[s] = MAX_RECONNECT_ATTEMPTS
      BY <1>1, <2>3 DEF FailsOnlyExhausted
    <2>7. /\ \A i \in 1 .. Len(reconnects[s]) : reconnects[s][i] \in 1 .. topAttempt[s]
          /\ \A i \in 1 .. Len(ends) : ends[i].session = s /\ ends[i].reason # "live_ended"
              => topAttempt[s] = MAX_RECONNECT_ATTEMPTS
      BY DEF FailsOnlyExhausted
    <2>8. \A i \in 1 .. Len(reconnects'[s]) : reconnects'[s][i] \in 1 .. topAttempt[s]
      <3>1. CASE s = q /\ p = "reconnect"
        <4>1. Len(reconnects[q]) \in Nat /\ n \in 1 .. topAttempt[q]
          BY <1>1, <1>2, <2>4, <2>5, <3>1, LenProperties
        <4>2. OneReconnect(q, n)
          BY <2>6, <3>1
        <4>3. ASSUME NEW i \in 1 .. Len(reconnects'[q])
              PROVE  reconnects'[q][i] \in 1 .. topAttempt[q]
          <5>1. CASE i \in 1 .. Len(reconnects[q])
            BY <2>7, <3>1, <4>2, <5>1 DEF OneReconnect
          <5>2. CASE i = Len(reconnects[q]) + 1
            BY <4>1, <4>2, <5>2 DEF OneReconnect
          <5> QED BY <4>1, <4>2, <5>1, <5>2 DEF OneReconnect
        <4> QED BY <3>1, <4>3
      <3>2. CASE ~(s = q /\ p = "reconnect")
        <4>1. reconnects'[s] = reconnects[s]
          BY <2>6, <3>2
        <4> QED BY <2>7, <4>1
      <3> QED BY <3>1, <3>2
    <2>9. ASSUME NEW i \in 1 .. Len(ends'), ends'[i].session = s, ends'[i].reason # "live_ended"
          PROVE  topAttempt[s] = MAX_RECONNECT_ATTEMPTS
      <3>1. CASE p \in EndReasons
        <4>1. OneEnd(q, p) /\ Len(ends) \in Nat
          BY <1>2, <2>6, <3>1, LenProperties
        <4>2. CASE i \in 1 .. Len(ends)
          BY <2>7, <2>9, <4>1, <4>2 DEF OneEnd
        <4>3. CASE i = Len(ends) + 1
          BY <2>4, <2>5, <2>9, <3>1, <4>1, <4>3 DEF OneEnd
        <4> QED BY <4>1, <4>2, <4>3 DEF OneEnd
      <3>2. CASE p \notin EndReasons
        BY <2>6, <2>7, <2>9, <3>2
      <3> QED BY <3>1, <3>2
    <2> QED BY <2>8, <2>9
  <1> QED BY <1>3, <1>4, Changes

\* A thread comes to owe an announcement only by Train.
LEMMA OwedStep ==
  ASSUME TypeOK, AttemptInv, [Next]_vars, NEW th \in Threads
  PROVE  /\ Owed(th) \in {0, 1} /\ Owed(th)' \in {0, 1}
         /\ Owed(th)' = 1 => Owed(th) = 1 \/ Train(th)
         /\ Train(th) => Owed(th) = 0
         /\ Publish(th) => Owed(th)' = 0 /\ Owed(th) = IF job[th].pub \in EndReasons THEN 1 ELSE 0
  <1>1. pc \in [Threads -> ConsumerStates \cup SweeperStates]
    BY DEF TypeOK
  <1>2. Owed(th) \in {0, 1} /\ Owed(th)' \in {0, 1}
    BY DEF Owed
  <1>3. ASSUME SaveRecord(th) \/ SaveIndex(th)
        PROVE  Owed(th)' = 0
    <2>1. job' = job /\ (pc'[th] = "publish" => job[th].pub \notin EndReasons)
      BY <1>1, <1>3 DEF SaveRecord, SaveIndex, After
    <2> QED BY <2>1 DEF Owed
  <1>4. Train(th) => Owed(th) = 0
    BY DEF Train, Owed
  <1>5. Publish(th) => Owed(th)' = 0 /\ Owed(th) = IF job[th].pub \in EndReasons THEN 1 ELSE 0
    BY <1>1 DEF Publish, Owed, After
  <1>6. MakesPlan(th) => Owed(th)' = 0
    BY <1>1 DEF MakesPlan, Plan, Owed
  <1>7. pc'[th] \notin Planned => Owed(th)' = 0
    BY DEF Planned, Owed
  <1>8. pc'[th] = pc[th] /\ job'[th] = job[th] => Owed(th)' = Owed(th)
    BY DEF Owed
  <1> QED BY <1>2, <1>3, <1>4, <1>5, <1>6, <1>7, <1>8, Moves

\* SampleInv is kept: Train makes the sample durable before it leaves the
\* thread owing an announcement, and a restart starts from what is durable.
LEMMA SampleStep ==
  ASSUME TypeOK, AttemptInv, SampleInv, [Next]_vars
  PROVE  /\ SampleInv' /\ EndsAreSampled'
         /\ samples' \in Nat /\ saved' \in Nat /\ saved' >= saved
  <1> DEFINE n == Len(ends)
             c == Owed("consumer")
             w == Owed("sweeper")
  <1>1. n \in Nat /\ samples \in Nat /\ saved \in Nat /\ n + c + w <= saved /\ saved <= samples
    BY LenProperties DEF TypeOK, SampleInv
  <1>2. "consumer" \in Threads /\ "sweeper" \in Threads
    BY DEF Threads
  <1>3. c \in {0, 1} /\ c' \in {0, 1} /\ w \in {0, 1} /\ w' \in {0, 1}
    BY <1>2, OwedStep
  <1>4. ASSUME NEW th \in Threads, Train(th) \/ Publish(th), NEW u \in Threads, u # th
        PROVE  Owed(u)' = Owed(u)
    BY <1>4 DEF Train, Publish, Owed, TypeOK
  <1>5. ASSUME NEW th \in Threads, Train(th)
        PROVE  saved' = samples + 1 /\ samples' = samples + 1 /\ ends' = ends
    BY <1>5 DEF Train, outputVars
  <1>6. ASSUME NEW th \in Threads, TrainFault(th)
        PROVE  /\ saved' = saved \/ saved' = samples + 1
               /\ samples' = samples + 1 /\ ends' = ends
    BY <1>6 DEF TrainFault, Raised, HandlerRaised, SweepRaised, outputVars
  <1>7. ASSUME NEW claimed, Restart(claimed)
        PROVE  saved' = saved /\ samples' = saved /\ ends' = ends
    BY <1>7 DEF Restart, outputVars
  <1>8. /\ samples' \in Nat /\ saved' \in Nat /\ saved' >= saved /\ saved' <= samples'
    <2>1. CASE UNCHANGED modelVars
      BY <1>1, <2>1 DEF modelVars
    <2> QED BY <1>1, <1>5, <1>6, <1>7, <2>1, Changes
  <1>9. Len(ends') + c' + w' <= saved'
    <2>1. ASSUME NEW th \in Threads, Publish(th)
          PROVE  Len(ends') + c' + w' = n + c + w
      <3>1. PICK s \in Sessions, k \in Nat : s = job[th].task /\ k = job[th].rec.attempts
        BY <2>1 DEF Publish, TypeOK, Job, Record
      <3>2. Len(ends') = n + Owed(th) /\ Owed(th)' = 0
        <4>1. Owed(th)' = 0 /\ Owed(th) = IF job[th].pub \in EndReasons THEN 1 ELSE 0
          BY <2>1, OwedStep
        <4>2. IF job[th].pub \in EndReasons THEN Len(ends') = Len(ends) + 1 ELSE ends' = ends
          BY <2>1, <3>1, PublishStep DEF OneEnd
        <4> QED BY <1>1, <4>1, <4>2
      <3>3. CASE th = "consumer"
        BY <1>1, <1>2, <1>3, <1>4, <2>1, <3>2, <3>3
      <3>4. CASE th = "sweeper"
        BY <1>1, <1>2, <1>3, <1>4, <2>1, <3>2, <3>4
      <3> QED BY <3>3, <3>4 DEF Threads
    <2>2. ASSUME NEW th \in Threads, Train(th)
          PROVE  Len(ends') + c' + w' <= n + c + w + 1
      <3>1. Owed(th) = 0 /\ Owed(th)' \in {0, 1} /\ ends' = ends
        BY <1>5, <2>2, OwedStep
      <3>2. CASE th = "consumer"
        BY <1>1, <1>2, <1>3, <1>4, <2>2, <3>1, <3>2
      <3>3. CASE th = "sweeper"
        BY <1>1, <1>2, <1>3, <1>4, <2>2, <3>1, <3>3
      <3> QED BY <3>2, <3>3 DEF Threads
    <2>3. CASE \E th \in Threads : Train(th)
      BY <1>1, <1>3, <1>5, <2>2, <2>3
    <2>4. CASE \E th \in Threads : Publish(th)
      BY <1>1, <1>3, <1>8, <2>1, <2>4
    <2>5. CASE ~(\E th \in Threads : Train(th)) /\ ~(\E th \in Threads : Publish(th))
      <3>1. ends' = ends
        BY <2>5, Changes DEF outputVars
      <3>2. (c' = 1 => c = 1) /\ (w' = 1 => w = 1)
        BY <1>2, <2>5, OwedStep
      <3> QED BY <1>1, <1>3, <1>8, <3>1, <3>2
    <2> QED BY <2>3, <2>4, <2>5
  <1>10. Len(ends') \in Nat
    <2>1. CASE UNCHANGED outputVars
      BY <1>1, <2>1 DEF outputVars
    <2>2. CASE \E th \in Threads : Publish(th)
      <3>1. PICK th \in Threads : Publish(th)
        BY <2>2
      <3>2. PICK s \in Sessions, k \in Nat : s = job[th].task /\ k = job[th].rec.attempts
        BY <3>1 DEF Publish, TypeOK, Job, Record
      <3>3. ends' \in Seq([session : Sessions, reason : EndReasons])
        BY <3>1, <3>2, PublishStep
      <3> QED BY <3>3, LenProperties
    <2> QED BY <2>1, <2>2, Changes
  <1> QED BY <1>3, <1>8, <1>9, <1>10 DEF SampleInv, EndsAreSampled

\* IssueInv and IssuesCountedOnce are kept: only what is not open yet is
\* counted, and it is open from then on.
LEMMA IssueStep ==
  ASSUME TypeOK, IssueInv, IssuesCountedOnce, [Next]_vars
  PROVE  /\ IssueInv' /\ IssuesCountedOnce'
         /\ openIssues' \subseteq Sessions \X IssueKinds
         /\ issueCount' \in [Sessions \X IssueKinds -> Nat]
  <1> DEFINE All == Sessions \X IssueKinds
  <1>1. openIssues \subseteq All /\ issueCount \in [All -> Nat] /\ DOMAIN issueCount = All
    BY DEF TypeOK
  <1>2. \A i \in All : issueCount[i] <= 1 /\ (i \notin openIssues => issueCount[i] = 0)
    BY DEF IssueInv, IssuesCountedOnce
  <1>3. CASE UNCHANGED issueVars
    BY <1>3, <1>1 DEF issueVars, IssueInv, IssuesCountedOnce
  <1>4. CASE RecordIssues
    <2>1. PICK new : /\ new = {i \in {cur.session} \X cur.issues : i \notin openIssues}
                     /\ openIssues' = openIssues \cup new
                     /\ issueCount' = [i \in DOMAIN issueCount |-> issueCount[i] + (IF i \in new THEN 1 ELSE 0)]
      BY <1>4 DEF RecordIssues
    <2>2. \A i \in new : i \notin openIssues
      BY <2>1
    <2>3. new \subseteq All
      <3>1. CASE cur = NoEvent
        BY <2>1, <3>1 DEF NoEvent
      <3>2. CASE cur \in Event
        <4>1. cur.session \in Sessions /\ cur.issues \subseteq IssueKinds
          BY <3>2 DEF Event
        <4> QED BY <2>1, <4>1
      <3> QED BY <3>1, <3>2 DEF TypeOK
    <2> HIDE DEF All
    <2>4. issueCount' = [i \in All |-> issueCount[i] + (IF i \in new THEN 1 ELSE 0)]
      BY <1>1, <2>1
    <2>5. issueCount' \in [All -> Nat]
      BY <1>1, <2>4
    <2>6. \A i \in All : issueCount'[i] <= 1 /\ (i \notin openIssues' => issueCount'[i] = 0)
      BY <1>1, <1>2, <2>1, <2>2, <2>4
    <2>7. openIssues' \subseteq All
      BY <1>1, <2>1, <2>3
    <2> USE DEF All
    <2> QED BY <2>5, <2>6, <2>7 DEF IssueInv, IssuesCountedOnce
  <1>5. ASSUME NEW claimed, Restart(claimed)
        PROVE  openIssues' = {} /\ issueCount' = [i \in All |-> 0]
    BY <1>1, <1>5 DEF Restart
  <1>6. CASE \E claimed \in SUBSET (pending \cup InHand) : Restart(claimed)
    <2>1. openIssues' = {} /\ issueCount' = [i \in All |-> 0]
      BY <1>5, <1>6
    <2> QED BY <2>1 DEF IssueInv, IssuesCountedOnce
  <1> QED BY <1>3, <1>4, <1>6, Changes

\* What the bounds count, and that a fault is counted once it happened.
LEMMA BudgetStep ==
  ASSUME TypeOK, [Next]_vars
  PROVE  /\ events' \in Nat /\ faults' \in Nat /\ crashes' \in Nat
         /\ faults' = faults \/ faults' = faults + 1
         /\ (\E th \in Threads : TrainFault(th)) => faults' = faults + 1
  <1> SUFFICES /\ events' \in Nat /\ faults' \in Nat /\ crashes' \in Nat
               /\ faults' = faults \/ faults' = faults + 1
    BY DEF TrainFault
  <1> USE DEF HandlerFrame, SweepFrame, SweepTake, HealthFrame, HandlerRaised, SweepRaised, Raised, Begin, budgetVars
  <1>1. events \in Nat /\ faults \in Nat /\ crashes \in Nat /\ {"consumer", "sweeper"} = Threads
    BY DEF TypeOK, Threads
  <1>2. CASE Arrival \/ (\E e \in redeliver : Redeliver(e))
    BY <1>1, <1>2 DEF Arrival, Deliver, Redeliver
  <1>3. CASE Fault
    BY <1>1, <1>3 DEF Fault, CommandFault, TrainFault, ConsumerStops, Restart
  <1>4. CASE StreamStarted \/ Heartbeat \/ LiveEnded \/ RecordIssues
             \/ IgnoreEnded \/ GiveUp \/ Reconnect \/ IgnoreSessionless \/ Acknowledge
    BY <1>1, <1>4 DEF StreamStarted, Heartbeat, LiveEnded, RecordIssues, IgnoreEnded, GiveUp, Reconnect, IgnoreSessionless,
                      Acknowledge
  <1>5. ASSUME NEW th \in Threads, SaveRecord(th) \/ SaveIndex(th) \/ Train(th) \/ Publish(th)
        PROVE  UNCHANGED budgetVars
    BY <1>5 DEF SaveRecord, SaveIndex, Train, Publish
  <1>6. CASE SweepBegin \/ SweepListed \/ SweepEvict \/ SweepEnd
             \/ (\E s \in Sessions : SweepList(s) \/ SweepFresh(s) \/ SweepEndSession(s) \/ SweepReconnect(s))
    BY <1>1, <1>6 DEF SweepBegin, SweepListed, SweepEvict, SweepEnd, SweepList, SweepFresh, SweepEndSession, SweepReconnect
  <1>7. CASE Health \/ (\E s \in Sessions : Stale(s)) \/ UNCHANGED vars
    BY <1>1, <1>7 DEF Health, HealthBegin, HealthRead, HealthEvict, Stale, vars
  <1> QED BY <1>1, <1>2, <1>3, <1>4, <1>5, <1>6, <1>7 DEF Next, Consumer, Sweeper

\* ModelCurrent is kept: Train fits the model when it is due, and a restart
\* fits it again from the durable samples.
LEMMA ModelStep ==
  ASSUME TypeOK, ModelCurrent, [Next]_vars
  PROVE  ModelCurrent' /\ sinceFit' \in Nat /\ trained' \in BOOLEAN
  <1>1. /\ samples \in Nat /\ saved \in Nat /\ sinceFit \in Nat /\ trained \in BOOLEAN /\ faults \in Nat
        /\ MIN_TRAINING_SAMPLES \in Nat /\ RETRAIN_INTERVAL_SAMPLES \in Nat \ {0}
    BY LimitAssumption DEF TypeOK
  <1>2. faults' = 0 => faults = 0
    BY <1>1, BudgetStep
  <1>3. CASE UNCHANGED modelVars
    BY <1>1, <1>2, <1>3 DEF modelVars, ModelCurrent
  <1>4. ASSUME NEW th \in Threads, Train(th)
        PROVE  ModelCurrent' /\ sinceFit' \in Nat /\ trained' \in BOOLEAN
    <2>1. /\ samples' = samples + 1 /\ faults' = faults
          /\ IF FitIsDue(samples + 1, sinceFit + 1)
             THEN trained' = TRUE /\ sinceFit' = 0
             ELSE sinceFit' = sinceFit + 1 /\ trained' = trained
      BY <1>4 DEF Train, budgetVars
    <2>2. CASE FitIsDue(samples + 1, sinceFit + 1)
      <3>1. samples' >= MIN_TRAINING_SAMPLES /\ sinceFit' = 0 /\ 0 < RETRAIN_INTERVAL_SAMPLES
        BY <1>1, <2>1, <2>2 DEF FitIsDue
      <3>2. trained' = TRUE
        BY <2>1, <2>2
      <3>3. trained' /\ trained' \in BOOLEAN
        BY <3>2, Zenon
      <3> QED BY <3>1, <3>3 DEF ModelCurrent
    <2>3. CASE ~FitIsDue(samples + 1, sinceFit + 1)
      BY <1>1, <2>1, <2>3 DEF FitIsDue, ModelCurrent
    <2> QED BY <2>2, <2>3
  <1>5. ASSUME NEW th \in Threads, TrainFault(th)
        PROVE  ModelCurrent' /\ sinceFit' \in Nat /\ trained' \in BOOLEAN
    <2>1. faults' # 0 /\ sinceFit' = sinceFit + 1 /\ trained' = trained
      BY <1>1, <1>5 DEF TrainFault
    <2> QED BY <1>1, <2>1 DEF ModelCurrent
  <1>6. ASSUME NEW claimed, Restart(claimed)
        PROVE  ModelCurrent' /\ sinceFit' \in Nat /\ trained' \in BOOLEAN
    <2>1. samples' = saved /\ sinceFit' = 0 /\ trained' = (saved >= MIN_TRAINING_SAMPLES)
      BY <1>6 DEF Restart
    <2>2. 0 < RETRAIN_INTERVAL_SAMPLES
      BY <1>1
    <2>3. CASE saved >= MIN_TRAINING_SAMPLES
      <3>1. trained' = TRUE
        BY <1>1, <2>1, <2>3
      <3>2. trained' /\ trained' \in BOOLEAN
        BY <3>1, Zenon
      <3> QED BY <2>1, <2>2, <2>3, <3>2 DEF ModelCurrent
    <2>4. CASE ~(saved >= MIN_TRAINING_SAMPLES)
      <3>1. trained' = FALSE
        <4>1. (saved >= MIN_TRAINING_SAMPLES) = FALSE
          BY <1>1, <2>4
        <4> QED BY <2>1, <4>1, Zenon
      <3>2. ~trained' /\ trained' \in BOOLEAN
        BY <3>1, Zenon
      <3> QED BY <2>1, <2>4, <3>2 DEF ModelCurrent
    <2> QED BY <2>3, <2>4
  <1> QED BY <1>3, <1>4, <1>5, <1>6, Changes

-----------------------------------------------------------------------------
(* Types. *)

StatesOf(th) == IF th = "consumer" THEN ConsumerStates ELSE SweeperStates

\* A thread has a session in hand in all of these states.
ThreadTypeOK(th) ==
    /\ pc[th] \in StatesOf(th) /\ job[th] \in Job
    /\ pc[th] \in Planned \cup {"evict"} => job[th].task \in Sessions

\* A thread that moves has a state and a job of its own afterwards, and the
\* other one keeps its.
LEMMA ThreadMoves ==
  ASSUME TypeOK, NEW th \in Threads, NEW v \in StatesOf(th), NEW j \in Job,
         v \in Planned \cup {"evict"} => j.task \in Sessions,
         pc' = [pc EXCEPT ![th] = v], job' = [job EXCEPT ![th] = j]
  PROVE  /\ \A u \in Threads : ThreadTypeOK(u)'
         /\ pc' \in [Threads -> ConsumerStates \cup SweeperStates] /\ job' \in [Threads -> Job]
  <1>1. /\ pc \in [Threads -> ConsumerStates \cup SweeperStates] /\ job \in [Threads -> Job]
        /\ v \in ConsumerStates \cup SweeperStates
    BY DEF TypeOK, StatesOf
  <1>2. pc' \in [Threads -> ConsumerStates \cup SweeperStates] /\ job' \in [Threads -> Job]
    BY <1>1
  <1>3. pc'[th] = v /\ job'[th] = j
    BY <1>1
  <1>4. ASSUME NEW u \in Threads, u # th
        PROVE  pc'[u] = pc[u] /\ job'[u] = job[u] /\ ThreadTypeOK(u)
    <2>1. pc'[u] = pc[u] /\ job'[u] = job[u]
      BY <1>1, <1>4
    <2>2. ThreadTypeOK(u)
      BY DEF TypeOK, ThreadTypeOK, StatesOf, Planned, Threads
    <2> QED BY <2>1, <2>2
  <1> QED BY <1>2, <1>3, <1>4 DEF ThreadTypeOK

\* Every step leaves every thread in a state of its own, and the session of a
\* plan, or of an eviction, is a session.
LEMMA ThreadStep ==
  ASSUME TypeOK, AttemptInv, [Next]_vars
  PROVE  /\ \A u \in Threads : ThreadTypeOK(u)'
         /\ pc' \in [Threads -> ConsumerStates \cup SweeperStates] /\ job' \in [Threads -> Job]
  <1> DEFINE Goal == /\ \A u \in Threads : ThreadTypeOK(u)'
                     /\ pc' \in [Threads -> ConsumerStates \cup SweeperStates] /\ job' \in [Threads -> Job]
  <1> SUFFICES Goal
    OBVIOUS
  <1>1. /\ pc \in [Threads -> ConsumerStates \cup SweeperStates] /\ job \in [Threads -> Job]
        /\ "consumer" \in Threads /\ "sweeper" \in Threads
        /\ \A u \in Threads : job[u] \in Job /\ job = [job EXCEPT ![u] = job[u]]
    BY DEF TypeOK, Threads
  <1>2. /\ {"idle", "get", "issues", "ack", "stopped"} \subseteq StatesOf("consumer")
        /\ {"idle", "list", "scan", "evict"} \subseteq StatesOf("sweeper")
        /\ {"idle", "get", "issues", "ack", "stopped", "list", "scan"} \cap (Planned \cup {"evict"}) = {}
        /\ \A u \in Threads : {"set", "index", "train", "publish"} \subseteq StatesOf(u)
    BY DEF StatesOf, ConsumerStates, SweeperStates, Planned, Threads
  <1>3. ASSUME NEW v \in {"idle", "get", "issues", "ack", "stopped"}, NEW j \in Job,
               pc' = [pc EXCEPT !["consumer"] = v], job' = [job EXCEPT !["consumer"] = j]
        PROVE  Goal
    <2>1. v \in StatesOf("consumer") /\ v \notin Planned \cup {"evict"}
      BY <1>2
    <2> QED BY <1>1, <1>3, <2>1, ThreadMoves
  <1>4. ASSUME NEW v \in {"idle", "list", "scan"}, NEW j \in Job,
               pc' = [pc EXCEPT !["sweeper"] = v], job' = [job EXCEPT !["sweeper"] = j]
        PROVE  Goal
    <2>1. v \in StatesOf("sweeper") /\ v \notin Planned \cup {"evict"}
      BY <1>2
    <2> QED BY <1>1, <1>4, <2>1, ThreadMoves
  <1>5. CASE UNCHANGED <<pc, job>>
    <2>1. \A u \in Threads : ThreadTypeOK(u)
      BY DEF TypeOK, ThreadTypeOK, StatesOf, Planned, Threads
    <2> QED BY <1>1, <1>5, <2>1 DEF ThreadTypeOK
  <1>6. ASSUME NEW th \in Threads, MakesPlan(th)
        PROVE  Goal
    <2>1. PICK s \in Sessions, rec \in Record, pub \in Outputs : Plan(th, s, rec, pub)
      BY <1>6 DEF MakesPlan
    <2>2. PICK j \in Job : j = [task |-> s, rec |-> rec, pub |-> pub]
      BY DEF Job
    <2>3. pc' = [pc EXCEPT ![th] = "set"] /\ job' = [job EXCEPT ![th] = j] /\ j.task \in Sessions
      BY <2>1, <2>2 DEF Plan
    <2>4. "set" \in StatesOf(th)
      BY <1>2
    <2> QED BY <2>3, <2>4, ThreadMoves
  <1>7. ASSUME NEW th \in Threads, SaveRecord(th) \/ SaveIndex(th) \/ Train(th) \/ Publish(th)
        PROVE  Goal
    <2>1. PICK v \in {"index", "train", "publish", After(th)} : pc' = [pc EXCEPT ![th] = v]
      BY <1>7 DEF SaveRecord, SaveIndex, Train, Publish
    <2>2. job' = job /\ job[th].task \in Sessions
      BY <1>7 DEF SaveRecord, SaveIndex, Train, Publish, TypeOK
    <2>3. v \in StatesOf(th)
      BY DEF After, StatesOf, ConsumerStates, SweeperStates, Threads
    <2>4. job[th] \in Job /\ job' = [job EXCEPT ![th] = job[th]]
      BY <1>1, <2>2
    <2> QED BY <2>1, <2>2, <2>3, <2>4, ThreadMoves
  <1>8. CASE Arrival \/ (\E e \in redeliver : Redeliver(e)) \/ RecordIssues \/ IgnoreEnded \/ IgnoreSessionless \/ Acknowledge
    <2>1. \E v \in {"idle", "get", "issues", "ack", "stopped"} : pc' = [pc EXCEPT !["consumer"] = v]
      BY <1>8 DEF Arrival, Deliver, Redeliver, Begin, RecordIssues, IgnoreEnded, IgnoreSessionless, Ignore, Acknowledge
    <2>2. job' = job \/ job' = [job EXCEPT !["consumer"] = NoJob]
      BY <1>8 DEF Arrival, Deliver, Redeliver, Begin, RecordIssues, IgnoreEnded, IgnoreSessionless, Ignore, Acknowledge
    <2>3. \E j \in Job : job' = [job EXCEPT !["consumer"] = j]
      BY <1>1, <2>2, NoJobIsJob
    <2> QED BY <1>3, <2>1, <2>3
  <1>9. CASE StreamStarted \/ Heartbeat \/ GiveUp \/ Reconnect \/ LiveEnded
    BY <1>1, <1>6, <1>9, HandlerPlans
  <1>10. CASE \E s \in Sessions : SweepEndSession(s) \/ SweepReconnect(s)
    BY <1>1, <1>6, <1>10, SweepPlans
  <1>11. CASE SweepBegin \/ SweepListed \/ SweepEvict \/ SweepEnd
    <2>1. \E v \in {"idle", "list", "scan"} : pc' = [pc EXCEPT !["sweeper"] = v]
      BY <1>11 DEF SweepBegin, SweepListed, SweepEvict, SweepEnd
    <2>2. job' = job \/ job' = [job EXCEPT !["sweeper"] = NoJob]
      BY <1>11 DEF SweepBegin, SweepListed, SweepEvict, SweepEnd
    <2>3. \E j \in Job : job' = [job EXCEPT !["sweeper"] = j]
      BY <1>1, <2>2, NoJobIsJob
    <2> QED BY <1>4, <2>1, <2>3
  <1>12. ASSUME NEW s \in Sessions, SweepList(s)
         PROVE  Goal
    <2>1. CASE Dispatched(s)
      BY <1>5, <1>12, <2>1 DEF SweepList
    <2>2. CASE ~Dispatched(s)
      <3>1. PICK j \in Job : j = [task |-> s, rec |-> NoRecord, pub |-> "none"]
        BY NoRecordIsRecord DEF Job, Outputs
      <3>2. pc' = [pc EXCEPT !["sweeper"] = "evict"] /\ job' = [job EXCEPT !["sweeper"] = j] /\ j.task \in Sessions
        BY <1>12, <2>2, <3>1 DEF SweepList
      <3>3. "evict" \in StatesOf("sweeper")
        BY <1>2
      <3> QED BY <1>1, <3>2, <3>3, ThreadMoves
    <2> QED BY <2>1, <2>2
  <1>13. CASE \E s \in Sessions : SweepFresh(s)
    BY <1>5, <1>13 DEF SweepFresh
  <1>14. CASE Health \/ (\E s \in Sessions : Stale(s)) \/ UNCHANGED vars
    BY <1>5, <1>14 DEF Health, HealthBegin, HealthRead, HealthEvict, HealthFrame, Stale, vars
  <1>15. ASSUME NEW th \in Threads, Raised(th)
         PROVE  Goal
    <2>1. CASE th = "consumer"
      <3>1. \E v \in {"idle", "get", "issues", "ack", "stopped"} : pc' = [pc EXCEPT !["consumer"] = v]
        BY <1>15, <2>1 DEF Raised, HandlerRaised
      <3>2. job' = [job EXCEPT !["consumer"] = NoJob]
        BY <1>15, <2>1 DEF Raised, HandlerRaised
      <3> QED BY <1>3, <3>1, <3>2, NoJobIsJob
    <2>2. CASE th = "sweeper"
      BY <1>4, <1>15, <2>2, NoJobIsJob DEF Raised, SweepRaised
    <2> QED BY <2>1, <2>2 DEF Threads
  <1>16. CASE \E th \in Threads : CommandFault(th) \/ TrainFault(th)
    BY <1>15, <1>16 DEF CommandFault, TrainFault
  <1>17. CASE ConsumerStops
    <2>1. \E v \in {"idle", "get", "issues", "ack", "stopped"} : pc' = [pc EXCEPT !["consumer"] = v]
      BY <1>17 DEF ConsumerStops
    <2>2. job' = [job EXCEPT !["consumer"] = NoJob]
      BY <1>17 DEF ConsumerStops
    <2> QED BY <1>3, <2>1, <2>2, NoJobIsJob
  <1>18. CASE \E claimed \in SUBSET (pending \cup InHand) : Restart(claimed)
    <2>1. pc' = [th \in Threads |-> "idle"] /\ job' = [th \in Threads |-> NoJob]
      BY <1>18 DEF Restart
    <2>2. "idle" \in ConsumerStates \cap SweeperStates
      BY DEF ConsumerStates, SweeperStates
    <2> QED BY <2>1, <2>2, NoJobIsJob DEF ThreadTypeOK, StatesOf, Planned
  <1> HIDE DEF Goal
  <1>19. CASE Consumer
    BY <1>1, <1>7, <1>8, <1>9, <1>19 DEF Consumer
  <1>20. CASE Sweeper
    BY <1>1, <1>7, <1>10, <1>11, <1>12, <1>13, <1>20 DEF Sweeper
  <1>21. CASE Fault
    BY <1>16, <1>17, <1>18, <1>21 DEF Fault
  <1> QED BY <1>8, <1>14, <1>19, <1>20, <1>21 DEF Next

\* The consumer's event and the bus: an event in hand, delivered, pending or
\* reclaimed is one that was sent.
LEMMA BusTyped ==
  ASSUME TypeOK, [Next]_vars
  PROVE  /\ cur' \in Event \cup {NoEvent} /\ tries' \in 0 .. HandlerAttempts
         /\ pending' \subseteq Event /\ redeliver' \subseteq Event
  <1> USE DEF HandlerFrame, SweepFrame, SweepTake, HealthFrame, HandlerRaised, SweepRaised, Raised, Begin, busVars, threadVars
  <1>1. /\ cur \in Event \cup {NoEvent} /\ tries \in 0 .. HandlerAttempts /\ HandlerAttempts \in Nat \ {0}
        /\ pending \subseteq Event /\ redeliver \subseteq Event /\ InHand \subseteq Event
        /\ {"consumer", "sweeper"} = Threads
    BY LimitAssumption DEF TypeOK, InHand, Threads
  <1>2. CASE Arrival \/ (\E e \in redeliver : Redeliver(e))
    BY <1>1, <1>2 DEF Arrival, Deliver, Redeliver
  <1>3. CASE \E th \in Threads : CommandFault(th) \/ TrainFault(th)
    BY <1>1, <1>3 DEF CommandFault, TrainFault
  <1>4. CASE ConsumerStops \/ (\E claimed \in SUBSET (pending \cup InHand) : Restart(claimed)) \/ Acknowledge
    BY <1>1, <1>4 DEF ConsumerStops, Restart, Acknowledge
  <1>5. CASE StreamStarted \/ Heartbeat \/ LiveEnded \/ RecordIssues
             \/ IgnoreEnded \/ GiveUp \/ Reconnect \/ IgnoreSessionless
    BY <1>1, <1>5 DEF StreamStarted, Heartbeat, LiveEnded, RecordIssues, IgnoreEnded, GiveUp, Reconnect, IgnoreSessionless
  <1>6. ASSUME NEW th \in Threads, SaveRecord(th) \/ SaveIndex(th) \/ Train(th) \/ Publish(th)
        PROVE  UNCHANGED <<cur, tries, busVars>>
    BY <1>6 DEF SaveRecord, SaveIndex, Train, Publish
  <1>7. CASE SweepBegin \/ SweepListed \/ SweepEvict \/ SweepEnd
             \/ (\E s \in Sessions : SweepList(s) \/ SweepFresh(s) \/ SweepEndSession(s) \/ SweepReconnect(s))
    BY <1>1, <1>7 DEF SweepBegin, SweepListed, SweepEvict, SweepEnd, SweepList, SweepFresh, SweepEndSession, SweepReconnect
  <1>8. CASE Health \/ (\E s \in Sessions : Stale(s)) \/ UNCHANGED vars
    BY <1>1, <1>8 DEF Health, HealthBegin, HealthRead, HealthEvict, Stale, vars
  <1> QED BY <1>1, <1>2, <1>3, <1>4, <1>5, <1>6, <1>7, <1>8 DEF Next, Consumer, Sweeper, Fault

\* The index and what is read of it are sessions.
LEMMA IndexTyped ==
  ASSUME TypeOK, [Next]_vars
  PROVE  dispatchedSet' \subseteq Sessions
  <1>1. dispatchedSet \subseteq Sessions
    BY DEF TypeOK, StoreTypeOK
  <1>2. ASSUME NEW th \in Threads, SaveIndex(th)
        PROVE  dispatchedSet' \subseteq Sessions
    <2>1. job[th].task \in Sessions
      BY <1>2 DEF SaveIndex, TypeOK
    <2> QED BY <1>1, <1>2, <2>1 DEF SaveIndex, IndexRecord
  <1> QED BY <1>1, <1>2, Changes DEF SweepEvict, HealthEvict, EvictFromIndex

\* So are the ids the sweep and /health have still to read or to remove.
LEMMA ListsTyped ==
  ASSUME TypeOK, [Next]_vars
  PROVE  /\ toList' \subseteq Sessions /\ listing' \in [Sessions -> Record]
         /\ probeList' \subseteq Sessions /\ probeEvict' \subseteq Sessions
  <1> USE DEF HandlerFrame, SweepFrame, SweepTake, HealthFrame, HandlerRaised, SweepRaised, Raised, Begin, healthVars, threadVars
  <1>1. /\ toList \subseteq Sessions /\ listing \in [Sessions -> Record]
        /\ probeList \subseteq Sessions /\ probeEvict \subseteq Sessions
        /\ dispatchedSet \subseteq Sessions /\ record \in [Sessions -> Record] /\ NoRecord \in Record
        /\ {"consumer", "sweeper"} = Threads
    BY NoRecordIsRecord DEF TypeOK, StoreTypeOK, Threads
  <1>2. CASE Arrival \/ (\E e \in redeliver : Redeliver(e))
    BY <1>1, <1>2 DEF Arrival, Deliver, Redeliver
  <1>3. CASE \E th \in Threads : CommandFault(th) \/ TrainFault(th)
    BY <1>1, <1>3 DEF CommandFault, TrainFault
  <1>4. CASE ConsumerStops \/ (\E claimed \in SUBSET (pending \cup InHand) : Restart(claimed)) \/ Acknowledge
    BY <1>1, <1>4 DEF ConsumerStops, Restart, Acknowledge
  <1>5. CASE StreamStarted \/ Heartbeat \/ LiveEnded \/ RecordIssues
             \/ IgnoreEnded \/ GiveUp \/ Reconnect \/ IgnoreSessionless
    BY <1>1, <1>5 DEF StreamStarted, Heartbeat, LiveEnded, RecordIssues, IgnoreEnded, GiveUp, Reconnect, IgnoreSessionless
  <1>6. ASSUME NEW th \in Threads, SaveRecord(th) \/ SaveIndex(th) \/ Train(th) \/ Publish(th)
        PROVE  UNCHANGED <<toList, listing, healthVars>>
    BY <1>6 DEF SaveRecord, SaveIndex, Train, Publish
  <1>7. CASE SweepBegin \/ SweepListed \/ SweepEvict \/ SweepEnd
    BY <1>1, <1>7 DEF SweepBegin, SweepListed, SweepEvict, SweepEnd
  <1>8. CASE \E s \in Sessions : SweepList(s) \/ SweepFresh(s) \/ SweepEndSession(s) \/ SweepReconnect(s)
    BY <1>1, <1>8 DEF SweepList, SweepFresh, SweepEndSession, SweepReconnect
  <1>9. CASE Health \/ (\E s \in Sessions : Stale(s)) \/ UNCHANGED vars
    BY <1>1, <1>9 DEF Health, HealthBegin, HealthRead, HealthEvict, Stale, vars
  <1> QED BY <1>1, <1>2, <1>3, <1>4, <1>5, <1>6, <1>7, <1>8, <1>9 DEF Next, Consumer, Sweeper, Fault

\* What is published is typed.
LEMMA OutputsTyped ==
  ASSUME TypeOK, [Next]_vars
  PROVE  ends' \in Seq([session : Sessions, reason : EndReasons]) /\ reconnects' \in [Sessions -> Seq(Nat)]
  <1>1. CASE UNCHANGED outputVars
    BY <1>1 DEF outputVars, TypeOK
  <1>2. CASE \E th \in Threads : Publish(th)
    <2>1. PICK th \in Threads : Publish(th)
      BY <1>2
    <2>2. PICK s \in Sessions, k \in Nat : s = job[th].task /\ k = job[th].rec.attempts
      BY <2>1 DEF Publish, TypeOK, Job, Record
    <2> QED BY <2>1, <2>2, PublishStep
  <1> QED BY <1>1, <1>2, Changes

\* The steps respect the types.
LEMMA TypeStep ==
  ASSUME TypeOK, AttemptInv, (\A th \in Threads : PlanInv(th)), SampleInv, IssueInv, IssuesCountedOnce, ModelCurrent,
         [Next]_vars
  PROVE  TypeOK'
  <1>1. record' \in [Sessions -> Record] /\ topAttempt' \in [Sessions -> Nat]
    BY StoreStep
  <1>2. /\ \A u \in Threads : ThreadTypeOK(u)'
        /\ pc' \in [Threads -> ConsumerStates \cup SweeperStates] /\ job' \in [Threads -> Job]
    BY ThreadStep
  <1>3. /\ pc'["consumer"] \in ConsumerStates /\ pc'["sweeper"] \in SweeperStates
        /\ \A th \in Threads : pc'[th] \in {"set", "index", "train", "publish", "evict"} => job'[th].task \in Sessions
    BY <1>2 DEF ThreadTypeOK, StatesOf, Threads, Planned
  <1>4. /\ openIssues' \subseteq Sessions \X IssueKinds /\ issueCount' \in [Sessions \X IssueKinds -> Nat]
    BY IssueStep
  <1>5. samples' \in Nat /\ saved' \in Nat /\ sinceFit' \in Nat /\ trained' \in BOOLEAN
    BY SampleStep, ModelStep
  <1>6. events' \in Nat /\ faults' \in Nat /\ crashes' \in Nat
    BY BudgetStep
  <1> QED BY <1>1, <1>2, <1>3, <1>4, <1>5, <1>6, BusTyped, IndexTyped, ListsTyped, OutputsTyped DEF TypeOK, StoreTypeOK

-----------------------------------------------------------------------------
(* The ledger of sessions. *)

\* Nothing is recorded before the agent starts.
LEMMA LedgerInit == Init => Ledger!Init
  BY DEF Init, Ledger!Init

\* A step that records, learns and announces nothing leaves the ledger alone.
LEMMA LedgerStutters ==
  ASSUME UNCHANGED <<topAttempt, saved, outputVars>>
  PROVE  UNCHANGED Ledger!vars
  BY DEF outputVars, Ledger!vars

\* A save records at most the next reconnect: the plan was made from a record
\* within the highest number, which has not fallen since.
LEMMA SaveUses ==
  ASSUME IInv, NEW th \in Threads, SaveRecord(th)
  PROVE  [Ledger!Next]_(Ledger!vars)
  <1>1. PICK s \in Sessions, rec \in Record : s = job[th].task /\ rec = job[th].rec
    BY DEF IInv, TypeOK, SaveRecord, Job
  <1>2. /\ rec.attempts \in Nat /\ rec.attempts <= topAttempt[s] + 1
        /\ rec.attempts <= MAX_RECONNECT_ATTEMPTS /\ MAX_RECONNECT_ATTEMPTS \in Nat
        /\ topAttempt \in [Sessions -> Nat] /\ topAttempt[s] \in Nat
    BY <1>1, LimitAssumption DEF IInv, TypeOK, PlanInv, SaveRecord, Record
  <1>3. /\ topAttempt' = [topAttempt EXCEPT ![s] = IF rec.attempts > topAttempt[s] THEN rec.attempts ELSE topAttempt[s]]
        /\ UNCHANGED <<saved, reconnects, ends>>
    BY <1>1 DEF SaveRecord, modelVars, outputVars
  <1>4. CASE rec.attempts > topAttempt[s]
    <2>1. rec.attempts = topAttempt[s] + 1 /\ topAttempt[s] < MAX_RECONNECT_ATTEMPTS
      BY <1>2, <1>4
    <2>2. topAttempt' = [topAttempt EXCEPT ![s] = topAttempt[s] + 1]
      BY <1>3, <1>4, <2>1
    <2>3. Ledger!Use(s)
      BY <1>3, <2>1, <2>2 DEF Ledger!Use
    <2> QED BY <2>3 DEF Ledger!Next
  <1>5. CASE ~(rec.attempts > topAttempt[s])
    <2>1. topAttempt' = topAttempt
      BY <1>2, <1>3, <1>5
    <2> QED BY <1>3, <2>1 DEF Ledger!vars
  <1> QED BY <1>4, <1>5

\* Training adds to the samples that are durable, or changes nothing there.
LEMMA TrainLearns ==
  ASSUME IInv, NEW th \in Threads, Train(th) \/ TrainFault(th)
  PROVE  [Ledger!Next]_(Ledger!vars)
  <1>1. saved \in Nat /\ samples \in Nat /\ saved <= samples
    BY DEF IInv, TypeOK, SampleInv
  <1>2. saved' = saved \/ saved' = samples + 1
    BY DEF Train, TrainFault
  <1>3. UNCHANGED <<topAttempt, reconnects, ends>>
    BY DEF Train, TrainFault, Raised, HandlerRaised, SweepRaised, outputVars
  <1>4. CASE saved' = samples + 1
    <2>1. Ledger!Learn
      BY <1>1, <1>3, <1>4 DEF Ledger!Learn
    <2> QED BY <2>1 DEF Ledger!Next
  <1>5. CASE saved' = saved
    BY <1>3, <1>5 DEF Ledger!vars
  <1> QED BY <1>2, <1>4, <1>5

\* What is published is a reconnect that was recorded, or an end that is owed.
LEMMA PublishAnnounces ==
  ASSUME IInv, NEW th \in Threads, Publish(th)
  PROVE  [Ledger!Next]_(Ledger!vars)
  <1>1. PICK s \in Sessions, n \in Nat, p \in Outputs : s = job[th].task /\ n = job[th].rec.attempts /\ p = job[th].pub
    BY DEF IInv, TypeOK, Publish, Job, Record
  <1>2. UNCHANGED <<topAttempt, saved>>
    BY DEF Publish, modelVars
  <1>3. /\ n <= topAttempt[s] /\ topAttempt[s] <= MAX_RECONNECT_ATTEMPTS
        /\ topAttempt[s] \in Nat /\ MAX_RECONNECT_ATTEMPTS \in Nat
        /\ p \in EndReasons \ {"live_ended"} => topAttempt[s] = MAX_RECONNECT_ATTEMPTS
        /\ p = "reconnect" => n > 0
    BY <1>1, LimitAssumption DEF IInv, TypeOK, AttemptInv, PlanInv, Publish
  <1>4. CASE p \in EndReasons
    <2>1. Len(ends) < saved
      <3>1. Owed(th) = 1 /\ \A u \in Threads : Owed(u) \in {0, 1}
        BY <1>1, <1>4 DEF Owed, Publish
      <3>2. Len(ends) \in Nat /\ saved \in Nat
        BY DEF IInv, TypeOK
      <3> QED BY <3>1, <3>2 DEF IInv, SampleInv, Threads
    <2>2. /\ ends' = Append(ends, [session |-> s, reason |-> p])
          /\ reconnects' = reconnects
      BY <1>1, <1>4 DEF Publish, EndReasons
    <2>3. Ledger!End(s, p)
      BY <1>2, <1>3, <1>4, <2>1, <2>2 DEF Ledger!End
    <2> QED BY <1>1, <1>4, <2>3 DEF Ledger!Next
  <1>5. CASE p = "reconnect"
    <2>1. /\ reconnects' = [reconnects EXCEPT ![s] = Append(reconnects[s], n)]
          /\ ends' = ends
      BY <1>1, <1>5 DEF Publish, EndReasons
    <2>2. Ledger!Reconnect(s, n)
      BY <1>1, <1>2, <1>3, <1>5, <2>1 DEF Ledger!Reconnect
    <2> QED BY <1>1, <1>3, <1>5, <2>2 DEF Ledger!Next
  <1>6. CASE p \notin EndReasons /\ p # "reconnect"
    BY <1>1, <1>2, <1>6, LedgerStutters DEF Publish, outputVars
  <1> QED BY <1>4, <1>5, <1>6

\* Every step is one of the ledger's, or stutters.
LEMMA StepRefines == IInv /\ [Next]_vars => [Ledger!Next]_(Ledger!vars)
  <1> SUFFICES ASSUME IInv, [Next]_vars PROVE [Ledger!Next]_(Ledger!vars)
    OBVIOUS
  <1>1. CASE \E th \in Threads : SaveRecord(th) \/ Train(th) \/ TrainFault(th) \/ Publish(th)
    BY <1>1, SaveUses, TrainLearns, PublishAnnounces
  <1>2. CASE ~ \E th \in Threads : SaveRecord(th) \/ Train(th) \/ TrainFault(th) \/ Publish(th)
    <2>1. topAttempt' = topAttempt /\ UNCHANGED outputVars
      BY <1>2, Changes DEF Stale
    <2>2. saved' = saved
      BY <1>2, Changes DEF Restart, modelVars
    <2> QED BY <2>1, <2>2, LedgerStutters
  <1> QED BY <1>1, <1>2

-----------------------------------------------------------------------------
(* The invariant. *)

\* The process starts with an empty store, an empty training set and both
\* threads idle.
LEMMA InitIInv == Init => IInv
  <1> SUFFICES ASSUME Init PROVE IInv
    OBVIOUS
  <1>1. /\ MAX_RECONNECT_ATTEMPTS \in Nat /\ HandlerAttempts \in Nat \ {0}
        /\ MIN_TRAINING_SAMPLES \in Nat \ {0} /\ RETRAIN_INTERVAL_SAMPLES \in Nat \ {0}
    BY LimitAssumption
  <1>2. << >> \in Seq(Nat) /\ << >> \in Seq([session : Sessions, reason : EndReasons]) /\ Len(<< >>) = 0
    BY EmptySeq
  <1>3. StoreTypeOK
    BY NoRecordIsRecord DEF Init, StoreInit, StoreTypeOK
  <1>4. /\ pc["consumer"] = "idle" /\ pc["sweeper"] = "idle"
        /\ pc \in [Threads -> ConsumerStates \cup SweeperStates]
        /\ \A th \in Threads : pc[th] = "idle"
    BY DEF Init, Threads, ConsumerStates, SweeperStates
  <1>5. job \in [Threads -> Job]
    BY NoJobIsJob DEF Init
  <1>6. TypeOK
    <2>1. /\ cur \in Event \cup {NoEvent} /\ tries \in 0 .. HandlerAttempts
          /\ toList \subseteq Sessions /\ pending \subseteq Event /\ redeliver \subseteq Event
          /\ probeList \subseteq Sessions /\ probeEvict \subseteq Sessions
      BY <1>1 DEF Init
    <2>2. /\ openIssues \subseteq Sessions \X IssueKinds /\ issueCount \in [Sessions \X IssueKinds -> Nat]
          /\ topAttempt \in [Sessions -> Nat] /\ listing \in [Sessions -> Record]
      BY NoRecordIsRecord DEF Init
    <2>3. /\ samples \in Nat /\ saved \in Nat /\ sinceFit \in Nat
          /\ events \in Nat /\ faults \in Nat /\ crashes \in Nat
      BY DEF Init
    <2>4. trained \in BOOLEAN
      BY Zenon DEF Init
    <2>5. reconnects \in [Sessions -> Seq(Nat)] /\ ends \in Seq([session : Sessions, reason : EndReasons])
      BY <1>2 DEF Init
    <2>6. /\ pc["consumer"] \in ConsumerStates /\ pc["sweeper"] \in SweeperStates
          /\ \A th \in Threads : pc[th] \in {"set", "index", "train", "publish", "evict"} => job[th].task \in Sessions
      BY <1>4 DEF ConsumerStates, SweeperStates
    <2> QED BY <1>3, <1>4, <1>5, <2>1, <2>2, <2>3, <2>4, <2>5, <2>6 DEF TypeOK
  <1>7. AttemptInv
    BY <1>1, NoRecordIsRecord DEF Init, AttemptInv, StoreInit
  <1>8. \A th \in Threads : PlanInv(th)
    BY <1>4 DEF PlanInv
  <1>9. SampleInv /\ EndsAreSampled
    BY <1>2, <1>4 DEF Init, SampleInv, EndsAreSampled, Owed
  <1>10. IssueInv /\ IssuesCountedOnce
    BY DEF Init, IssueInv, IssuesCountedOnce
  <1>11. FailsOnlyExhausted
    <2> SUFFICES ASSUME NEW s \in Sessions
                 PROVE  /\ topAttempt[s] <= MAX_RECONNECT_ATTEMPTS
                        /\ Len(reconnects[s]) = 0 /\ Len(ends) = 0
      BY DEF FailsOnlyExhausted
    <2> QED BY <1>1, <1>2 DEF Init
  <1>12. ModelCurrent
    BY <1>1 DEF Init, ModelCurrent
  <1> QED BY <1>6, <1>7, <1>8, <1>9, <1>10, <1>11, <1>12 DEF IInv

\* And no step, fault or restart breaks it.
LEMMA NextIInv == IInv /\ [Next]_vars => IInv'
  <1> SUFFICES ASSUME IInv, [Next]_vars PROVE IInv'
    OBVIOUS
  <1>1. /\ TypeOK /\ AttemptInv /\ (\A th \in Threads : PlanInv(th)) /\ SampleInv /\ IssueInv
        /\ FailsOnlyExhausted /\ IssuesCountedOnce /\ EndsAreSampled /\ ModelCurrent
    BY DEF IInv
  <1>2. TypeOK'
    BY <1>1, TypeStep
  <1>3. AttemptInv'
    BY <1>1, AttemptStep
  <1>4. ASSUME NEW th \in Threads
        PROVE  PlanInv(th)'
    BY <1>1, PlanStep
  <1>5. SampleInv' /\ EndsAreSampled'
    BY <1>1, SampleStep
  <1>6. IssueInv' /\ IssuesCountedOnce'
    BY <1>1, IssueStep
  <1>7. FailsOnlyExhausted'
    BY <1>1, OutputStep
  <1>8. ModelCurrent'
    BY <1>1, ModelStep
  <1> QED BY <1>2, <1>3, <1>4, <1>5, <1>6, <1>7, <1>8 DEF IInv

\* The whole invariant: copies of records, plans, samples and issues.
THEOREM Invariance == Spec => []IInv
  BY InitIInv, NextIInv, PTL DEF Spec

\* Every variable stays in its type, over faults, crashes and restarts.
THEOREM TypeCorrectness == Spec => []TypeOK
  <1>1. IInv => TypeOK
    BY DEF IInv
  <1> QED BY <1>1, Invariance, PTL

\* However sweeper and consumer interleave on the unlocked store, no reconnect
\* is numbered beyond MAX_RECONNECT_ATTEMPTS, and the agent ends a session by
\* itself only after its last attempt was recorded.
THEOREM ReconnectsWithinLimit == Spec => []FailsOnlyExhausted
  <1>1. IInv => FailsOnlyExhausted
    BY DEF IInv
  <1> QED BY <1>1, Invariance, PTL

\* stream.ended is published only for a session whose training sample is
\* durable, whatever is retried, raises or dies in between.
THEOREM EndsReachTheModel == Spec => []EndsAreSampled
  <1>1. IInv => EndsAreSampled
    BY DEF IInv
  <1> QED BY <1>1, Invariance, PTL

\* The model is fitted whenever it is due, as long as no command raised.
THEOREM ModelIsCurrent == Spec => []ModelCurrent
  <1>1. IInv => ModelCurrent
    BY DEF IInv
  <1> QED BY <1>1, Invariance, PTL

\* One process counts one kind of trouble of one session once, however often
\* it is reported, redelivered or retried.
THEOREM IssuesAreCountedOnce == Spec => []IssuesCountedOnce
  <1>1. IInv => IssuesCountedOnce
    BY DEF IInv
  <1> QED BY <1>1, Invariance, PTL

\* No step makes the durable training set smaller: the in-memory list that
\* Train writes back is never behind it, also after a save that raised.
THEOREM SamplesAreKept == Spec => SamplesKept
  <1>1. IInv /\ [Next]_vars => [saved' >= saved]_vars
    <2> SUFFICES ASSUME IInv, [Next]_vars PROVE saved' >= saved
      OBVIOUS
    <2> QED BY SampleStep DEF IInv
  <1> QED BY <1>1, Invariance, PTL DEF Spec, SamplesKept

\* The agent implements the ledger of sessions, whatever its threads, its
\* store and its crashes do: reconnects are numbered one by one and announced
\* only when recorded, and an end only with its sample, and by the agent's own
\* decision only after the last reconnect.
THEOREM SessionsImplementLedger == Spec => ImplementsSessionLedger
  BY LedgerInit, StepRefines, Invariance, PTL DEF Spec, ImplementsSessionLedger, Ledger!Spec
=============================================================================
