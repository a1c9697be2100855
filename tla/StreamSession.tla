--------------------------- MODULE StreamSession ---------------------------
(***************************************************************************)
(* live_streaming_agent: one record per live session in a TaskStore, where *)
(* `action' carries the session's state, `attempts' its reconnect attempts *)
(* and `overdue' that no heartbeat came for HEARTBEAT_STALE_SECONDS.  A    *)
(* session of state ACTIVE or INTERRUPTED has status "dispatched", so that *)
(* all_dispatched is the list of sessions to watch.                        *)
(*                                                                         *)
(* The bus consumer, the stale-session sweeper and the threads that answer *)
(* /health share the store with no lock; each Redis command is a step, any *)
(* may raise, and the process may die between any two.                     *)
(*                                                                         *)
(* A session that ends is also a training sample of the anomaly model      *)
(* (StreamAnomalyModel), whose bookkeeping is part of this module: the     *)
(* in-memory sample list, its durable copy, the samples since the last fit *)
(* and whether there is a fitted model.  Only the size of the lists is     *)
(* kept, and what the model predicts is left open.                         *)
(***************************************************************************)
EXTENDS Integers, FiniteSets, Sequences

CONSTANTS
    Sessions,                 \* session ids
    NoSession,                \* no session in hand
    Kinds,                    \* the kinds of events that clients and backend send
    IssueKinds,               \* kinds of trouble a client reports
    Interrupting,             \* those that also interrupt the session
    MAX_RECONNECT_ATTEMPTS,   \* reconnects a session may use up
    MIN_TRAINING_SAMPLES,     \* samples before the first fit
    RETRAIN_INTERVAL_SAMPLES, \* samples between fits
    HandlerAttempts,          \* RetryPolicy.max_attempts
    MaxPolled,                \* bound: /health is read while fewer deaths and stops than this
    MaxEvents,                \* bound: events from clients and backend
    MaxFaults,                \* bound: Redis commands that raise
    MaxCrashes                \* bound: process deaths and consumer stops

ASSUME SessionAssumption ==
    /\ NoSession \notin Sessions
    /\ Interrupting \subseteq IssueKinds
    /\ Kinds \subseteq {"started", "heartbeat", "interrupted", "live_ended", "trouble", "sessionless"}
ASSUME LimitAssumption ==
    /\ MAX_RECONNECT_ATTEMPTS \in Nat \ {0} /\ HandlerAttempts \in Nat \ {0}
    /\ MIN_TRAINING_SAMPLES \in Nat \ {0, 1} /\ RETRAIN_INTERVAL_SAMPLES \in Nat \ {0}
ASSUME BoundAssumption == {MaxPolled, MaxEvents, MaxFaults, MaxCrashes} \subseteq Nat

VARIABLES
    record,        \* TaskStore: the session records
    dispatchedSet, \* TaskStore: the index of sessions to watch
    pc,            \* where each thread is
    job,           \* each thread's locals: the record to save, what to publish
    cur,           \* the event the consumer is handling
    tries,         \* RetryPolicy attempt the consumer is on
    toList,        \* sweeper: ids of SMEMBERS still to be read
    listing,       \* sweeper: the sessions all_active collected
    pending,       \* events delivered before a crash and not acknowledged
    redeliver,     \* those of them the restarted process has reclaimed
    probeList,     \* /health: ids of SMEMBERS still to be read
    probeEvict,    \* /health: ids read as not dispatched, about to be removed
    openIssues,    \* _open_issues: trouble counted by this process
    issueCount,    \* how often each was counted by this process
    samples,       \* size of the model's in-memory sample list
    saved,         \* size of the durable sample list
    sinceFit,      \* _samples_since_last_fit
    trained,       \* there is a fitted model
    reconnects,    \* per session, attempts published as stream.reconnect.attempted
    ends,          \* stream.ended events published, in order
    topAttempt,    \* history: per session, the highest attempt ever saved
    events, faults, crashes

SessionStates == {"active", "interrupted", "ended"}

INSTANCE TaskStore WITH Tasks <- Sessions, Actions <- SessionStates, NoAction <- "none"

sessionVars == <<record, dispatchedSet>>
threadVars  == <<cur, tries, toList, listing>>
busVars     == <<pending, redeliver>>
healthVars  == <<probeList, probeEvict>>
issueVars   == <<openIssues, issueCount>>
modelVars   == <<samples, saved, sinceFit, trained>>
outputVars  == <<reconnects, ends>>
budgetVars  == <<events, faults, crashes>>
vars == <<sessionVars, topAttempt, pc, job, threadVars, busVars, issueVars, healthVars, modelVars, outputVars, budgetVars>>

Threads == {"consumer", "sweeper"}
ConsumerStates == {"idle", "issues", "get", "set", "index", "train", "publish", "ack", "stopped"}
SweeperStates  == {"idle", "list", "evict", "scan", "set", "index", "train", "publish"}

EndReasons == {"live_ended", "reconnect_attempts_exhausted", "heartbeat_stale_timeout"}
Outputs    == EndReasons \cup {"none", "armed", "reconnect", "anomaly"}

\* stream.started, stream.heartbeat, stream.interrupted, liveEnded; trouble is
\* stream.media_failed or stream.client_health, and sessionless is
\* stream.start_failed or any event without a session id.
Event   == [kind : Kinds, session : Sessions, issues : SUBSET IssueKinds]
NoEvent == [kind |-> "none", session |-> NoSession, issues |-> {}]
Job     == [task : Sessions \cup {NoSession}, rec : Record, pub : Outputs]
NoJob   == [task |-> NoSession, rec |-> NoRecord, pub |-> "none"]

TypeOK ==
    /\ StoreTypeOK
    /\ pc \in [Threads -> ConsumerStates \cup SweeperStates]
    /\ pc["consumer"] \in ConsumerStates
    /\ pc["sweeper"] \in SweeperStates
    /\ job \in [Threads -> Job]
    /\ \A th \in Threads : pc[th] \in {"set", "index", "train", "publish", "evict"} => job[th].task \in Sessions
    /\ cur \in Event \cup {NoEvent}
    /\ tries \in 0 .. HandlerAttempts
    /\ toList \subseteq Sessions
    /\ listing \in [Sessions -> Record]
    /\ pending \subseteq Event
    /\ redeliver \subseteq Event
    /\ probeList \subseteq Sessions /\ probeEvict \subseteq Sessions
    /\ openIssues \subseteq Sessions \X IssueKinds
    /\ issueCount \in [Sessions \X IssueKinds -> Nat]
    /\ samples \in Nat /\ saved \in Nat /\ sinceFit \in Nat /\ trained \in BOOLEAN
    /\ reconnects \in [Sessions -> Seq(Nat)]
    /\ ends \in Seq([session : Sessions, reason : EndReasons])
    /\ topAttempt \in [Sessions -> Nat]
    /\ events \in Nat /\ faults \in Nat /\ crashes \in Nat

Init ==
    /\ StoreInit
    /\ pc = [th \in Threads |-> "idle"]
    /\ job = [th \in Threads |-> NoJob]
    /\ cur = NoEvent
    /\ tries = 0
    /\ toList = {}
    /\ listing = [s \in Sessions |-> NoRecord]
    /\ pending = {}
    /\ redeliver = {}
    /\ probeList = {} /\ probeEvict = {}
    /\ openIssues = {}
    /\ issueCount = [i \in Sessions \X IssueKinds |-> 0]
    /\ samples = 0 /\ saved = 0 /\ sinceFit = 0 /\ trained = FALSE
    /\ reconnects = [s \in Sessions |-> << >>]
    /\ ends = << >>
    /\ topAttempt = [s \in Sessions |-> 0]
    /\ events = 0 /\ faults = 0 /\ crashes = 0

-----------------------------------------------------------------------------
\* The bus hands the consumer its next event.  Clients and backend send any
\* event at any time, and again; a reclaimed event comes before any new one.

Begin(e) ==
    /\ pc["consumer"] = "idle"
    /\ cur' = e
    /\ tries' = 1
    /\ pc' = [pc EXCEPT !["consumer"] = IF e.kind = "trouble" THEN "issues" ELSE "get"]
    /\ UNCHANGED <<sessionVars, topAttempt, job, toList, listing, issueVars, healthVars, modelVars, outputVars, faults, crashes>>

Deliver(e) ==
    /\ redeliver = {}
    /\ events < MaxEvents
    /\ events' = events + 1
    /\ e.kind = "trouble" <=> e.issues # {}
    /\ Begin(e)
    /\ UNCHANGED busVars

\* An event reclaimed from before the restart.
Redeliver(e) ==
    /\ e \in redeliver
    /\ redeliver' = redeliver \ {e}
    /\ pending' = pending \ {e}
    /\ Begin(e)
    /\ UNCHANGED events

-----------------------------------------------------------------------------
\* The consumer's handlers.  A session that was never seen reads as NoRecord,
\* which counts no attempt, like the fresh StreamSession the code makes.

\* Mutant: the status is the state's own name, for running sessions too.
WatchedAsState(state, attempts) ==
    [action |-> state, status |-> state, attempts |-> attempts, overdue |-> FALSE]

Watched(state, attempts) ==
    [action |-> state, status |-> "dispatched", attempts |-> attempts, overdue |-> FALSE]

Ended(attempts) ==
    [action |-> "ended", status |-> "ended", attempts |-> attempts, overdue |-> FALSE]

Plan(th, s, rec, pub) ==
    /\ job' = [job EXCEPT ![th] = [task |-> s, rec |-> rec, pub |-> pub]]
    /\ pc' = [pc EXCEPT ![th] = "set"]

Handling(kind) == pc["consumer"] = "get" /\ cur.kind = kind

HandlerFrame == UNCHANGED <<sessionVars, topAttempt, threadVars, busVars, issueVars, healthVars, modelVars, outputVars, budgetVars>>

Ignore ==
    /\ pc' = [pc EXCEPT !["consumer"] = "ack"]
    /\ UNCHANGED job

\* _handle_stream_started: a fresh session, whatever was known of it.
StreamStarted ==
    /\ Handling("started")
    /\ Plan("consumer", cur.session, Watched("active", 0), "armed")
    /\ HandlerFrame

\* _handle_heartbeat: ACTIVE, whatever the state was, and adopted if unseen.
\* A fitted model may find the heartbeat anomalous.
Heartbeat ==
    /\ Handling("heartbeat")
    /\ \E pub \in IF trained THEN {"none", "anomaly"} ELSE {"none"} :
          Plan("consumer", cur.session, Watched("active", record[cur.session].attempts), pub)
    /\ HandlerFrame

\* Mutant: one reconnect too many.
ExhaustedLate(rec) == rec.attempts > MAX_RECONNECT_ATTEMPTS

Exhausted(rec) == rec.attempts >= MAX_RECONNECT_ATTEMPTS

\* _handle_interruption, for stream.interrupted and for interrupting trouble.
Interruption == pc["consumer"] = "get" /\ cur.kind \in {"interrupted", "trouble"}

IgnoreEnded ==
    /\ Interruption
    /\ record[cur.session].action = "ended"
    /\ Ignore
    /\ HandlerFrame

GiveUp ==
    /\ Interruption
    /\ record[cur.session].action # "ended"
    /\ Exhausted(record[cur.session])
    /\ Plan("consumer", cur.session, Ended(record[cur.session].attempts), "reconnect_attempts_exhausted")
    /\ HandlerFrame

Reconnect ==
    /\ Interruption
    /\ record[cur.session].action # "ended"
    /\ ~Exhausted(record[cur.session])
    /\ Plan("consumer", cur.session, Watched("interrupted", record[cur.session].attempts + 1), "reconnect")
    /\ HandlerFrame

\* Mutant: the session is ended, and nobody told.
LiveEndedSilently ==
    /\ Handling("live_ended")
    /\ Plan("consumer", cur.session, Ended(record[cur.session].attempts), "none")
    /\ HandlerFrame

\* _handle_live_ended: ends the session, again if it had ended.
LiveEnded ==
    /\ Handling("live_ended")
    /\ Plan("consumer", cur.session, Ended(record[cur.session].attempts), "live_ended")
    /\ HandlerFrame

IgnoreSessionless ==
    /\ Handling("sessionless")
    /\ Ignore
    /\ HandlerFrame

\* Mutant: the open issues are not looked at.
RecordEveryReport ==
    LET new == {cur.session} \X cur.issues IN
    /\ pc["consumer"] = "issues"
    /\ openIssues' = openIssues \cup new
    /\ issueCount' = [i \in DOMAIN issueCount |-> issueCount[i] + (IF i \in new THEN 1 ELSE 0)]
    /\ pc' = [pc EXCEPT !["consumer"] = IF cur.issues \cap Interrupting # {} THEN "get" ELSE "ack"]
    /\ UNCHANGED <<sessionVars, topAttempt, job, threadVars, busVars, healthVars, modelVars, outputVars, budgetVars>>

\* _record_stream_issue for every kind reported, once per process.
RecordIssues ==
    LET new == {i \in {cur.session} \X cur.issues : i \notin openIssues} IN
    /\ pc["consumer"] = "issues"
    /\ openIssues' = openIssues \cup new
    /\ issueCount' = [i \in DOMAIN issueCount |-> issueCount[i] + (IF i \in new THEN 1 ELSE 0)]
    /\ pc' = [pc EXCEPT !["consumer"] = IF cur.issues \cap Interrupting # {} THEN "get" ELSE "ack"]
    /\ UNCHANGED <<sessionVars, topAttempt, job, threadVars, busVars, healthVars, modelVars, outputVars, budgetVars>>

-----------------------------------------------------------------------------
\* What both threads do with a plan.

After(th) == IF th = "consumer" THEN "ack" ELSE "scan"

SaveRecord(th) ==
    /\ pc[th] = "set"
    /\ SetRecord(job[th].task, job[th].rec)
    /\ topAttempt' = [topAttempt EXCEPT ![job[th].task] =
                         IF job[th].rec.attempts > @ THEN job[th].rec.attempts ELSE @]
    /\ pc' = [pc EXCEPT ![th] = "index"]
    /\ UNCHANGED <<job, threadVars, busVars, issueVars, healthVars, modelVars, outputVars, budgetVars>>

SaveIndex(th) ==
    /\ pc[th] = "index"
    /\ IndexRecord(job[th].task, job[th].rec)
    /\ pc' = [pc EXCEPT ![th] = IF job[th].pub = "none" THEN After(th)
                                ELSE IF job[th].pub \in EndReasons THEN "train" ELSE "publish"]
    /\ UNCHANGED <<topAttempt, job, threadVars, busVars, issueVars, healthVars, modelVars, outputVars, budgetVars>>

\* Mutant: one sample too late.
FitIsDueLate(count, since) ==
    count >= MIN_TRAINING_SAMPLES /\ (~trained \/ since > RETRAIN_INTERVAL_SAMPLES)

FitIsDue(count, since) ==
    count >= MIN_TRAINING_SAMPLES /\ (~trained \/ since >= RETRAIN_INTERVAL_SAMPLES)

\* Mutant: the sample is not persisted.
TrainInMemory(th) ==
    /\ pc[th] = "train"
    /\ samples' = samples + 1
    /\ IF FitIsDue(samples', sinceFit + 1)
       THEN trained' = TRUE /\ sinceFit' = 0
       ELSE sinceFit' = sinceFit + 1 /\ UNCHANGED trained
    /\ pc' = [pc EXCEPT ![th] = "publish"]
    /\ UNCHANGED <<saved, sessionVars, topAttempt, job, threadVars, busVars, issueVars, healthVars, outputVars, budgetVars>>

\* record_completed_session, under the model's lock: append, persist the
\* whole list, and fit when due.
Train(th) ==
    /\ pc[th] = "train"
    /\ samples' = samples + 1
    /\ saved' = samples'
    /\ IF FitIsDue(samples', sinceFit + 1)
       THEN trained' = TRUE /\ sinceFit' = 0
       ELSE sinceFit' = sinceFit + 1 /\ UNCHANGED trained
    /\ pc' = [pc EXCEPT ![th] = "publish"]
    /\ UNCHANGED <<sessionVars, topAttempt, job, threadVars, busVars, issueVars, healthVars, outputVars, budgetVars>>

Publish(th) ==
    LET s == job[th].task IN
    /\ pc[th] = "publish"
    /\ ends' = IF job[th].pub \in EndReasons
               THEN Append(ends, [session |-> s, reason |-> job[th].pub]) ELSE ends
    /\ reconnects' = IF job[th].pub = "reconnect"
                     THEN [reconnects EXCEPT ![s] = Append(@, job[th].rec.attempts)] ELSE reconnects
    /\ pc' = [pc EXCEPT ![th] = After(th)]
    /\ UNCHANGED <<sessionVars, topAttempt, job, threadVars, busVars, issueVars, healthVars, modelVars, budgetVars>>

\* The handler returned: XACK.
Acknowledge ==
    /\ pc["consumer"] = "ack"
    /\ pc' = [pc EXCEPT !["consumer"] = "idle"]
    /\ job' = [job EXCEPT !["consumer"] = NoJob]
    /\ cur' = NoEvent
    /\ tries' = 0
    /\ UNCHANGED <<sessionVars, topAttempt, toList, listing, busVars, issueVars, healthVars, modelVars, outputVars, budgetVars>>

-----------------------------------------------------------------------------
\* check_stale_sessions: all_active collects first, then the loop acts on
\* the sessions it collected.

SweepFrame == UNCHANGED <<topAttempt, cur, tries, busVars, issueVars, healthVars, modelVars, outputVars, budgetVars>>

SweepBegin ==
    /\ pc["sweeper"] = "idle"
    /\ toList' = dispatchedSet
    /\ pc' = [pc EXCEPT !["sweeper"] = "list"]
    /\ UNCHANGED <<sessionVars, job, listing>>
    /\ SweepFrame

SweepList(s) ==
    /\ pc["sweeper"] = "list"
    /\ s \in toList
    /\ toList' = toList \ {s}
    /\ IF Dispatched(s)
       THEN /\ listing' = [listing EXCEPT ![s] = record[s]]
            /\ UNCHANGED <<pc, job>>
       ELSE /\ job' = [job EXCEPT !["sweeper"] = [task |-> s, rec |-> NoRecord, pub |-> "none"]]
            /\ pc' = [pc EXCEPT !["sweeper"] = "evict"]
            /\ UNCHANGED listing
    /\ UNCHANGED sessionVars
    /\ SweepFrame

SweepEvict ==
    /\ pc["sweeper"] = "evict"
    /\ EvictFromIndex(job["sweeper"].task)
    /\ job' = [job EXCEPT !["sweeper"] = NoJob]
    /\ pc' = [pc EXCEPT !["sweeper"] = "list"]
    /\ UNCHANGED <<toList, listing>>
    /\ SweepFrame

SweepListed ==
    /\ pc["sweeper"] = "list"
    /\ toList = {}
    /\ pc' = [pc EXCEPT !["sweeper"] = "scan"]
    /\ UNCHANGED <<sessionVars, job, toList, listing>>
    /\ SweepFrame

Listed == {s \in Sessions : listing[s].status # "unseen"}

SweepTake(s) ==
    /\ pc["sweeper"] = "scan"
    /\ s \in Listed
    /\ listing' = [listing EXCEPT ![s] = NoRecord]
    /\ UNCHANGED <<sessionVars, toList>>
    /\ SweepFrame

\* Mutant: the sweep passes over every session.
SweepSkip(s) ==
    /\ SweepTake(s)
    /\ UNCHANGED <<pc, job>>

SweepFresh(s) ==
    /\ SweepTake(s)
    /\ ~listing[s].overdue
    /\ UNCHANGED <<pc, job>>

\* No attempt left: ended with reason heartbeat_stale_timeout.
SweepEndSession(s) ==
    /\ SweepTake(s)
    /\ listing[s].overdue
    /\ Exhausted(listing[s])
    /\ Plan("sweeper", s, Ended(listing[s].attempts), "heartbeat_stale_timeout")

\* Another attempt; the state stays, the heartbeat clock starts again.
SweepReconnect(s) ==
    /\ SweepTake(s)
    /\ listing[s].overdue
    /\ ~Exhausted(listing[s])
    /\ Plan("sweeper", s, Watched(listing[s].action, listing[s].attempts + 1), "reconnect")

SweepEnd ==
    /\ pc["sweeper"] = "scan"
    /\ Listed = {}
    /\ pc' = [pc EXCEPT !["sweeper"] = "idle"]
    /\ job' = [job EXCEPT !["sweeper"] = NoJob]
    /\ UNCHANGED <<sessionVars, toList, listing>>
    /\ SweepFrame

-----------------------------------------------------------------------------
\* active_sessions_count, in the threads that answer /health: all_active
\* once more, with its removals from the index.

HealthFrame == UNCHANGED <<record, topAttempt, pc, job, threadVars, busVars, issueVars, modelVars, outputVars, budgetVars>>

HealthBegin ==
    /\ crashes < MaxPolled
    /\ probeList' = probeList \cup dispatchedSet
    /\ UNCHANGED <<dispatchedSet, probeEvict>>
    /\ HealthFrame

HealthRead(s) ==
    /\ s \in probeList
    /\ probeList' = probeList \ {s}
    /\ probeEvict' = IF Dispatched(s) THEN probeEvict ELSE probeEvict \cup {s}
    /\ UNCHANGED dispatchedSet
    /\ HealthFrame

HealthEvict(s) ==
    /\ s \in probeEvict
    /\ EvictFromIndex(s)
    /\ probeEvict' = probeEvict \ {s}
    /\ UNCHANGED probeList
    /\ UNCHANGED <<topAttempt, pc, job, threadVars, busVars, issueVars, modelVars, outputVars, budgetVars>>

-----------------------------------------------------------------------------
\* Faults.

\* The handler raised: RetryPolicy runs it again from its first line, and
\* after HandlerAttempts runs the event is acknowledged all the same.
HandlerRaised ==
    /\ IF tries < HandlerAttempts
       THEN /\ pc' = [pc EXCEPT !["consumer"] = IF cur.kind = "trouble" THEN "issues" ELSE "get"]
            /\ tries' = tries + 1
       ELSE pc' = [pc EXCEPT !["consumer"] = "ack"] /\ UNCHANGED tries
    /\ job' = [job EXCEPT !["consumer"] = NoJob]
    /\ UNCHANGED <<sessionVars, topAttempt, cur, toList, listing, busVars, issueVars, healthVars, outputVars, events, crashes>>

\* main.py logs the exception; the rest of this sweep is dropped.
SweepRaised ==
    /\ pc' = [pc EXCEPT !["sweeper"] = "idle"]
    /\ job' = [job EXCEPT !["sweeper"] = NoJob]
    /\ toList' = {}
    /\ listing' = [s \in Sessions |-> NoRecord]
    /\ UNCHANGED <<sessionVars, topAttempt, cur, tries, busVars, issueVars, healthVars, outputVars, events, crashes>>

Raised(th) == IF th = "consumer" THEN HandlerRaised ELSE SweepRaised

\* A Redis command raises, before it took effect or (seen from the state
\* after it) before its reply.
CommandFault(th) ==
    /\ IF th = "consumer"
       THEN \/ pc[th] \in {"set", "index", "publish"}
            \/ pc[th] = "get" /\ cur.kind \notin {"started", "sessionless"}
            \/ pc[th] = "ack" /\ job[th] # NoJob
       ELSE pc[th] \notin {"idle", "train"}
    /\ faults < MaxFaults
    /\ faults' = faults + 1
    /\ Raised(th)
    /\ UNCHANGED modelVars

\* The sample is appended in memory and persisting the list raises, with or
\* without effect.
TrainFault(th) ==
    /\ pc[th] = "train"
    /\ faults < MaxFaults
    /\ faults' = faults + 1
    /\ samples' = samples + 1
    /\ sinceFit' = sinceFit + 1
    /\ saved' \in {saved, samples'}
    /\ UNCHANGED trained
    /\ Raised(th)

InHand == {cur} \ {NoEvent}

\* The consumer thread ends and the process lives on (XACK raised, or a
\* signal stopped the bus): the sweeper keeps running.
ConsumerStops ==
    /\ pc["consumer"] \in {"idle", "ack"}
    /\ crashes < MaxCrashes
    /\ crashes' = crashes + 1
    /\ pc' = [pc EXCEPT !["consumer"] = "stopped"]
    /\ job' = [job EXCEPT !["consumer"] = NoJob]
    /\ pending' = pending \cup InHand
    /\ cur' = NoEvent
    /\ tries' = 0
    /\ UNCHANGED <<sessionVars, topAttempt, toList, listing, redeliver, issueVars, healthVars, modelVars, outputVars, events, faults>>

\* Mutant: the durable samples are not loaded.
RestartEmpty(claimed) ==
    /\ crashes < MaxCrashes \/ pc["consumer"] = "stopped"
    /\ crashes' = IF pc["consumer"] = "stopped" THEN crashes ELSE crashes + 1
    /\ pending' = pending \cup InHand
    /\ claimed \subseteq pending'
    /\ redeliver' = claimed
    /\ pc' = [th \in Threads |-> "idle"]
    /\ job' = [th \in Threads |-> NoJob]
    /\ cur' = NoEvent
    /\ tries' = 0
    /\ toList' = {}
    /\ listing' = [s \in Sessions |-> NoRecord]
    /\ probeList' = {} /\ probeEvict' = {}
    /\ openIssues' = {}
    /\ issueCount' = [i \in DOMAIN issueCount |-> 0]
    /\ samples' = 0
    /\ sinceFit' = 0
    /\ trained' = FALSE
    /\ UNCHANGED <<sessionVars, saved, topAttempt, outputVars, events, faults>>

\* The process dies and comes back: the issues it counted are forgotten, the
\* model is fitted from the durable samples when there are enough of them.
Restart(claimed) ==
    /\ crashes < MaxCrashes \/ pc["consumer"] = "stopped"
    /\ crashes' = IF pc["consumer"] = "stopped" THEN crashes ELSE crashes + 1
    /\ pending' = pending \cup InHand
    /\ claimed \subseteq pending'
    /\ redeliver' = claimed
    /\ pc' = [th \in Threads |-> "idle"]
    /\ job' = [th \in Threads |-> NoJob]
    /\ cur' = NoEvent
    /\ tries' = 0
    /\ toList' = {}
    /\ listing' = [s \in Sessions |-> NoRecord]
    /\ probeList' = {} /\ probeEvict' = {}
    /\ openIssues' = {}
    /\ issueCount' = [i \in DOMAIN issueCount |-> 0]
    /\ samples' = saved
    /\ sinceFit' = 0
    /\ trained' = (saved >= MIN_TRAINING_SAMPLES)
    /\ UNCHANGED <<sessionVars, saved, topAttempt, outputVars, events, faults>>

\* No heartbeat for HEARTBEAT_STALE_SECONDS.
Stale(s) ==
    /\ Dispatched(s)
    /\ ~record[s].overdue
    /\ record' = [record EXCEPT ![s].overdue = TRUE]
    /\ UNCHANGED <<dispatchedSet, topAttempt, pc, job, threadVars, busVars, issueVars, healthVars, modelVars, outputVars, budgetVars>>

-----------------------------------------------------------------------------
Arrival == \E e \in Event : Deliver(e)

Consumer ==
    \/ \E e \in redeliver : Redeliver(e)
    \/ StreamStarted \/ Heartbeat \/ LiveEnded \/ RecordIssues
    \/ IgnoreEnded \/ GiveUp \/ Reconnect \/ IgnoreSessionless
    \/ SaveRecord("consumer") \/ SaveIndex("consumer") \/ Train("consumer") \/ Publish("consumer")
    \/ Acknowledge

Sweeper ==
    \/ SweepBegin \/ SweepListed \/ SweepEvict \/ SweepEnd
    \/ \E s \in Sessions : SweepList(s) \/ SweepFresh(s) \/ SweepEndSession(s) \/ SweepReconnect(s)
    \/ SaveRecord("sweeper") \/ SaveIndex("sweeper") \/ Train("sweeper") \/ Publish("sweeper")

Health == HealthBegin \/ \E s \in Sessions : HealthRead(s) \/ HealthEvict(s)

Fault ==
    \/ \E th \in Threads : CommandFault(th) \/ TrainFault(th)
    \/ ConsumerStops
    \/ \E claimed \in SUBSET (pending \cup InHand) : Restart(claimed)

Next == Arrival \/ Consumer \/ Sweeper \/ Health \/ Fault \/ \E s \in Sessions : Stale(s)

Spec == Init /\ [][Next]_vars

\* Both threads are daemon threads the OS keeps scheduling, the sweeper's
\* wait is a timer, and time passes.
Fairness ==
    /\ WF_vars(Consumer)
    /\ WF_vars(Sweeper)
    /\ \A s \in Sessions : WF_vars(Stale(s))

FairSpec == Spec /\ Fairness

-----------------------------------------------------------------------------
(* What the agent promises. *)

\* However sweeper and consumer interleave, no reconnect is numbered beyond
\* MAX_RECONNECT_ATTEMPTS, and the agent only ends a session by itself after
\* its last attempt was recorded.
FailsOnlyExhausted ==
    \A s \in Sessions :
        /\ topAttempt[s] <= MAX_RECONNECT_ATTEMPTS
        /\ \A i \in 1 .. Len(reconnects[s]) : reconnects[s][i] \in 1 .. topAttempt[s]
        /\ \A i \in 1 .. Len(ends) : ends[i].session = s /\ ends[i].reason # "live_ended"
                                        => topAttempt[s] = MAX_RECONNECT_ATTEMPTS

\* Every announced end is in the durable training set, over handler retries,
\* raising commands and restarts.
EndsAreSampled == Len(ends) <= saved

\* The durable training set never shrinks.
SamplesKept == [][saved' >= saved]_vars

\* While nothing raised, the model is fitted as soon as there are enough
\* samples, and again every RETRAIN_INTERVAL_SAMPLES, over restarts too.
ModelCurrent ==
    faults = 0 => IF samples >= MIN_TRAINING_SAMPLES
                  THEN trained /\ sinceFit < RETRAIN_INTERVAL_SAMPLES
                  ELSE ~trained

\* Trouble that goes on is counted once per session and kind by one process,
\* whatever is reported again, redelivered or retried.
IssuesCountedOnce == \A i \in Sessions \X IssueKinds : issueCount[i] <= 1

-----------------------------------------------------------------------------
(* The inductive invariant behind them. *)

\* No copy of a session's record counts more attempts than were saved.
AttemptInv == \A s \in Sessions :
    /\ topAttempt[s] <= MAX_RECONNECT_ATTEMPTS
    /\ record[s].attempts <= topAttempt[s]
    /\ listing[s].attempts <= topAttempt[s]

\* A thread carries out what its record allowed, however stale it is by then.
PlanInv(th) ==
    LET plan == job[th]
        top  == topAttempt[plan.task]
    IN  pc[th] \in {"set", "index", "train", "publish"} =>
            /\ plan.rec.attempts <= MAX_RECONNECT_ATTEMPTS
            /\ plan.rec.attempts <= top + 1
            /\ pc[th] # "set" => plan.rec.attempts <= top
            /\ plan.pub \in EndReasons \ {"live_ended"} => top = MAX_RECONNECT_ATTEMPTS
            /\ plan.pub = "reconnect" => plan.rec.attempts > 0

\* An end whose sample is saved and that is about to be announced.
Owed(th) == IF pc[th] = "publish" /\ job[th].pub \in EndReasons THEN 1 ELSE 0

SampleInv ==
    /\ Len(ends) + Owed("consumer") + Owed("sweeper") <= saved
    /\ saved <= samples

IssueInv == \A i \in Sessions \X IssueKinds : i \notin openIssues => issueCount[i] = 0

IInv ==
    /\ TypeOK /\ AttemptInv /\ (\A th \in Threads : PlanInv(th)) /\ SampleInv /\ IssueInv
    /\ FailsOnlyExhausted /\ IssuesCountedOnce /\ EndsAreSampled /\ ModelCurrent

-----------------------------------------------------------------------------
\* A session the sweep can find does not stay watched for ever once its
\* client is silent: it ends, whatever one fault or crash did.
SilentSessionSettles ==
    \A s \in Sessions : Dispatched(s) /\ s \in dispatchedSet
                           ~> ~Dispatched(s) \/ s \notin dispatchedSet

\* While no command raised and no process died, a session that ended is
\* announced by stream.ended.
EndAnnounced ==
    \A s \in Sessions : record[s].action = "ended"
        ~> (\E i \in 1 .. Len(ends) : ends[i].session = s) \/ faults + crashes > 0

\* A session that ended stays out of the sweep.  (No stream.started here.)
EndedStaysEnded ==
    [][\A s \in Sessions : record[s].action = "ended" => record'[s].action = "ended"]_vars
=============================================================================
