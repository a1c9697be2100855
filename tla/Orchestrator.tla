--------------------------- MODULE Orchestrator ---------------------------
(***************************************************************************)
(* orchestration_agent: turns task.requested events into dispatches to the *)
(* target agents, follows each task through its record in the durable      *)
(* store, retries on failure and on timeout, and gives up after            *)
(* MAX_RETRIES attempts.                                                   *)
(*                                                                         *)
(* Two threads share the store with no lock between them: the bus consumer *)
(* running handle_event, and the sweeper of main.py running                *)
(* check_timeouts every five seconds.  Every Redis command of either is    *)
(* one step: read, SET, SADD/SREM, publish.  Any of them may raise, and    *)
(* the process may die between any two; the event in hand then stays       *)
(* pending in the consumer group and may be redelivered.                   *)
(*                                                                         *)
(* The target agents are the environment: a dispatch on the wire may be    *)
(* answered once, late or never, and a monitored stream that was armed may *)
(* still end in failure or normally afterwards.                            *)
(***************************************************************************)
EXTENDS TaskStore, Sequences

CONSTANTS
    NoTask,          \* no task in hand
    Requested,       \* the tasks clients ask for; the others are ids of
                     \* sessions the backend started by itself
    SessionActions,  \* actions whose target reports again after its success
    RouteTables,     \* the routing tables releases may carry (sets of actions)
    MAX_RETRIES,     \* dispatches a task may have before it fails
    HandlerAttempts, \* RetryPolicy.max_attempts
    MaxRequests,     \* bound: task.requested events
    MaxFaults,       \* bound: Redis commands that raise
    MaxCrashes       \* bound: process deaths and consumer stops

ASSUME TaskAssumption ==
    /\ NoTask \notin Tasks
    /\ Requested \subseteq Tasks
    /\ SessionActions \subseteq Actions
    /\ RouteTables \subseteq SUBSET Actions
    /\ RouteTables # {}
ASSUME RetryAssumption == MAX_RETRIES \in Nat \ {0} /\ HandlerAttempts \in Nat \ {0}
ASSUME BoundAssumption == {MaxRequests, MaxFaults, MaxCrashes} \subseteq Nat

VARIABLES
    routes,      \* ROUTING_TABLE of the running release
    pc,          \* where each thread is
    job,         \* each thread's locals: the record to save, what to publish
    cur,         \* the event the consumer is handling
    tries,       \* RetryPolicy attempt the consumer is on
    toList,      \* sweeper: ids of SMEMBERS still to be read
    listing,     \* sweeper: the records all_dispatched collected
    pending,     \* events delivered before a crash and not acknowledged
    redeliver,   \* those of them the restarted process has reclaimed
    outstanding, \* per task, dispatches its target has not answered
    armed,       \* per task, monitored streams that may still end
    sent,        \* per task, the dispatches published, in order
    announced,   \* per task, how often task.failed was published
    topAttempt,  \* history: per task, the highest attempt ever saved
    requests,    \* task.requested events so far
    faults,      \* Redis commands that raised so far
    crashes      \* process deaths and consumer stops so far

processVars == <<pc, job, cur, tries, toList, listing>>
busVars     == <<pending, redeliver>>
targetVars  == <<outstanding, armed>>
outputVars  == <<sent, announced>>
budgetVars  == <<requests, faults, crashes>>
vars == <<storeVars, topAttempt, routes, processVars, busVars, targetVars, outputVars, budgetVars>>

Threads == {"consumer", "sweeper"}
ConsumerStates == {"idle", "get", "set", "index", "publish", "ack", "stopped"}
SweeperStates  == {"idle", "list", "evict", "scan", "set", "index", "publish"}

Event   == [kind : {"request", "success", "failure"}, task : Tasks, action : Actions \cup {NoAction}]
NoEvent == [kind |-> "none", task |-> NoTask, action |-> NoAction]
Job     == [task : Tasks \cup {NoTask}, rec : Record, pub : {"none", "dispatch", "failed"}]
NoJob   == [task |-> NoTask, rec |-> NoRecord, pub |-> "none"]
Dispatch == [action : Actions \cup {NoAction}, attempt : Nat]

TypeOK ==
    /\ StoreTypeOK
    /\ routes \in SUBSET Actions
    /\ pc \in [Threads -> ConsumerStates \cup SweeperStates]
    /\ pc["consumer"] \in ConsumerStates
    /\ pc["sweeper"] \in SweeperStates
    /\ job \in [Threads -> Job]
    /\ \A th \in Threads : pc[th] \in {"set", "index", "publish", "evict"} => job[th].task \in Tasks
    /\ cur \in Event \cup {NoEvent}
    /\ tries \in 0 .. HandlerAttempts
    /\ toList \subseteq Tasks
    /\ listing \in [Tasks -> Record]
    /\ pending \subseteq Event
    /\ redeliver \subseteq Event
    /\ outstanding \in [Tasks -> Nat]
    /\ armed \in [Tasks -> Nat]
    /\ sent \in [Tasks -> Seq(Dispatch)]
    /\ announced \in [Tasks -> Nat]
    /\ topAttempt \in [Tasks -> Nat]
    /\ requests \in Nat /\ faults \in Nat /\ crashes \in Nat

Init ==
    /\ StoreInit
    /\ routes \in RouteTables
    /\ pc = [th \in Threads |-> "idle"]
    /\ job = [th \in Threads |-> NoJob]
    /\ cur = NoEvent
    /\ tries = 0
    /\ toList = {}
    /\ listing = [t \in Tasks |-> NoRecord]
    /\ pending = {}
    /\ redeliver = {}
    /\ outstanding = [t \in Tasks |-> IF t \in Requested THEN 0 ELSE 1]
    /\ armed = [t \in Tasks |-> 0]
    /\ sent = [t \in Tasks |-> << >>]
    /\ announced = [t \in Tasks |-> 0]
    /\ topAttempt = [t \in Tasks |-> 0]
    /\ requests = 0 /\ faults = 0 /\ crashes = 0

-----------------------------------------------------------------------------
\* The bus hands the consumer its next event (BaseAgent._safe_handle_event up
\* to the handler).  A reclaimed event comes before any new one.

Deliver(e) ==
    /\ pc["consumer"] = "idle"
    /\ cur' = e
    /\ tries' = 1
    /\ pc' = [pc EXCEPT !["consumer"] = "get"]
    /\ UNCHANGED <<storeVars, topAttempt, routes, job, toList, listing, outputVars, faults, crashes>>

\* A client's task.requested; clients may repeat a task id, even with
\* another action, under a new event id.
DeliverRequest(t, a) ==
    /\ redeliver = {}
    /\ requests < MaxRequests
    /\ requests' = requests + 1
    /\ Deliver([kind |-> "request", task |-> t, action |-> a])
    /\ UNCHANGED <<busVars, targetVars>>

\* A target agent's first answer to a dispatch: camera.feature.applied or
\* rejected, gift.effect.triggered or skipped, stream.monitor.armed.
DeliverAnswer(t, kind) ==
    /\ redeliver = {}
    /\ outstanding[t] > 0
    /\ outstanding' = [outstanding EXCEPT ![t] = @ - 1]
    /\ armed' = IF kind = "success" /\ \E i \in 1 .. Len(sent[t]) : sent[t][i].action \in SessionActions
                THEN [armed EXCEPT ![t] = @ + 1] ELSE armed
    /\ Deliver([kind |-> kind, task |-> t, action |-> NoAction])
    /\ UNCHANGED <<busVars, requests>>

\* stream.ended of an armed stream: a failure when its reason is one of
\* STREAM_ENDED_FAILURE_REASONS, and taken for a success otherwise.
DeliverStreamEnded(t, kind) ==
    /\ redeliver = {}
    /\ armed[t] > 0
    /\ armed' = [armed EXCEPT ![t] = @ - 1]
    /\ Deliver([kind |-> kind, task |-> t, action |-> NoAction])
    /\ UNCHANGED <<busVars, outstanding, requests>>

\* An event reclaimed from before the restart.  Its event id is not in the
\* fresh process's LRU, so it is handled again.
Redeliver(e) ==
    /\ e \in redeliver
    /\ redeliver' = redeliver \ {e}
    /\ pending' = pending \ {e}
    /\ Deliver(e)
    /\ UNCHANGED <<targetVars, requests>>

-----------------------------------------------------------------------------
\* The consumer's handlers.  Each reads the record and settles what to save
\* and what to publish; SaveRecord, SaveIndex and Publish carry it out.

DispatchRecord(a, attempt) ==
    [action |-> a, status |-> "dispatched", attempts |-> attempt, overdue |-> FALSE]

RejectedRecord(a) ==
    [action |-> a, status |-> "failed", attempts |-> 0, overdue |-> FALSE]

Plan(th, t, rec, pub) ==
    /\ job' = [job EXCEPT ![th] = [task |-> t, rec |-> rec, pub |-> pub]]
    /\ pc' = [pc EXCEPT ![th] = "set"]

Handling(kind) == pc["consumer"] = "get" /\ cur.kind = kind

HandlerFrame == UNCHANGED <<storeVars, topAttempt, routes, cur, tries, toList, listing, busVars,
                            targetVars, outputVars, budgetVars>>

\* Nothing to do for this event: on to the acknowledgement.
Ignore == pc' = [pc EXCEPT !["consumer"] = "ack"]

\* _handle_task_requested, task id already in the store.
IgnoreDuplicate ==
    /\ Handling("request")
    /\ Seen(cur.task)
    /\ Ignore
    /\ UNCHANGED job
    /\ HandlerFrame

\* _handle_task_requested, no route for the action.
RejectUnknownAction ==
    /\ Handling("request")
    /\ ~Seen(cur.task)
    /\ cur.action \notin routes
    /\ Plan("consumer", cur.task, RejectedRecord(cur.action), "none")
    /\ HandlerFrame

\* Mutant: the orchestrator before it knew its tasks dispatches every request.
DispatchEveryRequest ==
    /\ Handling("request")
    /\ cur.action \in routes
    /\ Plan("consumer", cur.task, DispatchRecord(cur.action, 1), "dispatch")
    /\ HandlerFrame

\* _handle_task_requested, first dispatch.
DispatchRequested ==
    /\ Handling("request")
    /\ ~Seen(cur.task)
    /\ cur.action \in routes
    /\ Plan("consumer", cur.task, DispatchRecord(cur.action, 1), "dispatch")
    /\ HandlerFrame

\* _handle_target_success and mark_completed: whatever the status was.
MarkCompleted ==
    /\ Handling("success")
    /\ Seen(cur.task)
    /\ Plan("consumer", cur.task, [record[cur.task] EXCEPT !.status = "completed"], "none")
    /\ HandlerFrame

\* An answer that carries an id the store does not know.
IgnoreForeignAnswer ==
    /\ cur.kind \in {"success", "failure"}
    /\ Handling(cur.kind)
    /\ ~Seen(cur.task)
    /\ Ignore
    /\ UNCHANGED job
    /\ HandlerFrame

\* Mutant: one attempt too many.
ExhaustedLate(rec) == rec.attempts > MAX_RETRIES

\* The attempts >= MAX_RETRIES of the handler and of the sweep.
Exhausted(rec) == rec.attempts >= MAX_RETRIES

\* _handle_target_failure, attempts used up: whatever the status was.
FailPermanently ==
    /\ Handling("failure")
    /\ Seen(cur.task)
    /\ Exhausted(record[cur.task])
    /\ Plan("consumer", cur.task, [record[cur.task] EXCEPT !.status = "failed"], "failed")
    /\ HandlerFrame

\* Mutant: the retry forgets to count itself.
RetrySameAttempt ==
    /\ Handling("failure")
    /\ Seen(cur.task)
    /\ ~Exhausted(record[cur.task])
    /\ record[cur.task].action \in routes
    /\ Plan("consumer", cur.task,
            DispatchRecord(record[cur.task].action, record[cur.task].attempts), "dispatch")
    /\ HandlerFrame

\* Mutant: the retry takes the action from the answer, not from the record.
RetryAnsweredAction ==
    /\ Handling("failure")
    /\ Seen(cur.task)
    /\ ~Exhausted(record[cur.task])
    /\ record[cur.task].action \in routes
    /\ Plan("consumer", cur.task, DispatchRecord(cur.action, record[cur.task].attempts + 1), "dispatch")
    /\ HandlerFrame

\* _handle_target_failure, another attempt: whatever the status was.
RetryOnFailure ==
    /\ Handling("failure")
    /\ Seen(cur.task)
    /\ ~Exhausted(record[cur.task])
    /\ record[cur.task].action \in routes
    /\ Plan("consumer", cur.task,
            DispatchRecord(record[cur.task].action, record[cur.task].attempts + 1), "dispatch")
    /\ HandlerFrame

-----------------------------------------------------------------------------
\* What both threads do with a plan.

\* Where a thread goes on after its handler's last command.
After(th) == IF th = "consumer" THEN "ack" ELSE "scan"

SaveRecord(th) ==
    /\ pc[th] = "set"
    /\ SetRecord(job[th].task, job[th].rec)
    /\ topAttempt' = [topAttempt EXCEPT ![job[th].task] =
                         IF job[th].rec.attempts > @ THEN job[th].rec.attempts ELSE @]
    /\ pc' = [pc EXCEPT ![th] = "index"]
    /\ UNCHANGED <<routes, job, cur, tries, toList, listing, busVars, targetVars, outputVars, budgetVars>>

SaveIndex(th) ==
    /\ pc[th] = "index"
    /\ IndexRecord(job[th].task, job[th].rec)
    /\ pc' = [pc EXCEPT ![th] = IF job[th].pub = "none" THEN After(th) ELSE "publish"]
    /\ UNCHANGED <<topAttempt, routes, job, cur, tries, toList, listing, busVars, targetVars, outputVars, budgetVars>>

\* The dispatch event of the route, or task.failed.
Publish(th) ==
    LET t == job[th].task IN
    /\ pc[th] = "publish"
    /\ IF job[th].pub = "dispatch"
       THEN /\ sent' = [sent EXCEPT ![t] = Append(@, [action |-> job[th].rec.action,
                                                      attempt |-> job[th].rec.attempts])]
            /\ outstanding' = [outstanding EXCEPT ![t] = @ + 1]
            /\ UNCHANGED announced
       ELSE /\ announced' = [announced EXCEPT ![t] = @ + 1]
            /\ UNCHANGED <<sent, outstanding>>
    /\ pc' = [pc EXCEPT ![th] = After(th)]
    /\ UNCHANGED <<storeVars, topAttempt, routes, job, cur, tries, toList, listing, busVars, armed, budgetVars>>

\* The handler returned: XACK.
Acknowledge ==
    /\ pc["consumer"] = "ack"
    /\ pc' = [pc EXCEPT !["consumer"] = "idle"]
    /\ job' = [job EXCEPT !["consumer"] = NoJob]
    /\ cur' = NoEvent
    /\ tries' = 0
    /\ UNCHANGED <<storeVars, topAttempt, routes, toList, listing, busVars, targetVars, outputVars, budgetVars>>

-----------------------------------------------------------------------------
\* check_timeouts.  all_dispatched reads the index and then every record;
\* only then does the sweep act on the records it collected.

SweepFrame == UNCHANGED <<topAttempt, routes, cur, tries, busVars, targetVars, outputVars, budgetVars>>

SweepBegin ==
    /\ pc["sweeper"] = "idle"
    /\ toList' = dispatchedSet
    /\ pc' = [pc EXCEPT !["sweeper"] = "list"]
    /\ UNCHANGED <<storeVars, job, listing>>
    /\ SweepFrame

SweepList(t) ==
    /\ pc["sweeper"] = "list"
    /\ t \in toList
    /\ toList' = toList \ {t}
    /\ IF Dispatched(t)
       THEN /\ listing' = [listing EXCEPT ![t] = record[t]]
            /\ UNCHANGED <<pc, job>>
       ELSE /\ job' = [job EXCEPT !["sweeper"] = [task |-> t, rec |-> NoRecord, pub |-> "none"]]
            /\ pc' = [pc EXCEPT !["sweeper"] = "evict"]
            /\ UNCHANGED listing
    /\ UNCHANGED storeVars
    /\ SweepFrame

SweepEvict ==
    /\ pc["sweeper"] = "evict"
    /\ EvictFromIndex(job["sweeper"].task)
    /\ job' = [job EXCEPT !["sweeper"] = NoJob]
    /\ pc' = [pc EXCEPT !["sweeper"] = "list"]
    /\ UNCHANGED <<toList, listing>>
    /\ SweepFrame

SweepListed ==
    /\ pc["sweeper"] = "list"
    /\ toList = {}
    /\ pc' = [pc EXCEPT !["sweeper"] = "scan"]
    /\ UNCHANGED <<storeVars, job, toList, listing>>
    /\ SweepFrame

Listed == {t \in Tasks : listing[t].status # "unseen"}

\* The loop of check_timeouts takes the next collected record.
SweepTake(t) ==
    /\ pc["sweeper"] = "scan"
    /\ t \in Listed
    /\ listing' = [listing EXCEPT ![t] = NoRecord]
    /\ UNCHANGED <<storeVars, toList>>
    /\ SweepFrame

\* Mutant: a record may be skipped whatever its age.
SweepSkip(t) ==
    /\ SweepTake(t)
    /\ UNCHANGED <<pc, job>>

\* Dispatched no longer than TASK_TIMEOUT_SECONDS ago: left alone.
SweepFresh(t) ==
    /\ SweepTake(t)
    /\ ~listing[t].overdue
    /\ UNCHANGED <<pc, job>>

\* Mutant: times out without a word.
SweepTimeOutSilently(t) ==
    /\ SweepTake(t)
    /\ listing[t].overdue
    /\ Exhausted(listing[t])
    /\ Plan("sweeper", t, [listing[t] EXCEPT !.status = "timed_out"], "none")

\* Attempts used up: TIMED_OUT, and task.failed.
SweepTimeOut(t) ==
    /\ SweepTake(t)
    /\ listing[t].overdue
    /\ Exhausted(listing[t])
    /\ Plan("sweeper", t, [listing[t] EXCEPT !.status = "timed_out"], "failed")

\* The release has no route for the action any more: FAILED, with no event.
SweepUnroutable(t) ==
    /\ SweepTake(t)
    /\ listing[t].overdue
    /\ ~Exhausted(listing[t])
    /\ listing[t].action \notin routes
    /\ Plan("sweeper", t, [listing[t] EXCEPT !.status = "failed"], "none")

\* Another attempt, of the action and the attempts the listing holds.
SweepRetry(t) ==
    /\ SweepTake(t)
    /\ listing[t].overdue
    /\ ~Exhausted(listing[t])
    /\ listing[t].action \in routes
    /\ Plan("sweeper", t, DispatchRecord(listing[t].action, listing[t].attempts + 1), "dispatch")

SweepEnd ==
    /\ pc["sweeper"] = "scan"
    /\ Listed = {}
    /\ pc' = [pc EXCEPT !["sweeper"] = "idle"]
    /\ job' = [job EXCEPT !["sweeper"] = NoJob]
    /\ UNCHANGED <<storeVars, toList, listing>>
    /\ SweepFrame

-----------------------------------------------------------------------------
\* Faults.

\* Mutant: RetryPolicy runs the handler once more than max_attempts.
HandlerRaisedOnceMore ==
    /\ IF tries <= HandlerAttempts
       THEN pc' = [pc EXCEPT !["consumer"] = "get"] /\ tries' = tries + 1
       ELSE pc' = [pc EXCEPT !["consumer"] = "ack"] /\ UNCHANGED tries
    /\ job' = [job EXCEPT !["consumer"] = NoJob]
    /\ UNCHANGED <<storeVars, topAttempt, routes, cur, toList, listing, busVars, targetVars, outputVars, requests, crashes>>

\* The handler raised: RetryPolicy runs it again from its first line, and
\* after HandlerAttempts runs _safe_handle_event swallows the exception, so
\* that the bus acknowledges the event all the same.
HandlerRaised ==
    /\ IF tries < HandlerAttempts
       THEN pc' = [pc EXCEPT !["consumer"] = "get"] /\ tries' = tries + 1
       ELSE pc' = [pc EXCEPT !["consumer"] = "ack"] /\ UNCHANGED tries
    /\ job' = [job EXCEPT !["consumer"] = NoJob]
    /\ UNCHANGED <<storeVars, topAttempt, routes, cur, toList, listing, busVars, targetVars, outputVars, requests, crashes>>

\* A Redis command of the handler raises: before it took effect, or (seen
\* from the state after it) after it took effect but before its reply.
ConsumerFault ==
    /\ \/ pc["consumer"] \in {"get", "set", "index", "publish"}
       \/ pc["consumer"] = "ack" /\ job["consumer"] # NoJob
    /\ faults < MaxFaults
    /\ faults' = faults + 1
    /\ HandlerRaised

\* ROUTING_TABLE[record.action] in _handle_target_failure raises KeyError.
RouteKeyError ==
    /\ Handling("failure")
    /\ Seen(cur.task)
    /\ ~Exhausted(record[cur.task])
    /\ record[cur.task].action \notin routes
    /\ HandlerRaised
    /\ UNCHANGED faults

\* A Redis command of the sweep raises: main.py logs it and waits for the
\* next sweep; the rest of this one is dropped.
SweeperFault ==
    /\ pc["sweeper"] # "idle"
    /\ faults < MaxFaults
    /\ faults' = faults + 1
    /\ pc' = [pc EXCEPT !["sweeper"] = "idle"]
    /\ job' = [job EXCEPT !["sweeper"] = NoJob]
    /\ toList' = {}
    /\ listing' = [t \in Tasks |-> NoRecord]
    /\ UNCHANGED <<storeVars, topAttempt, routes, cur, tries, busVars, targetVars, outputVars, requests, crashes>>

InHand == {cur} \ {NoEvent}

\* The consumer thread ends while the process lives on: XACK raised (nothing
\* in _consume_loop catches it), or SIGTERM stopped the bus and the main
\* thread went back to its sleep loop.  The sweeper keeps running.
ConsumerStops ==
    /\ pc["consumer"] \in {"idle", "ack"}
    /\ crashes < MaxCrashes
    /\ crashes' = crashes + 1
    /\ pc' = [pc EXCEPT !["consumer"] = "stopped"]
    /\ job' = [job EXCEPT !["consumer"] = NoJob]
    /\ pending' = pending \cup InHand
    /\ cur' = NoEvent
    /\ tries' = 0
    /\ UNCHANGED <<storeVars, topAttempt, routes, toList, listing, redeliver, targetVars, outputVars, requests, faults>>

\* The process dies and comes back, possibly as a release with another
\* routing table.  XAUTOCLAIM takes over the pending events that are idle
\* long enough; the others stay pending.
Restart(table, claimed) ==
    /\ crashes < MaxCrashes \/ pc["consumer"] = "stopped"
    /\ crashes' = IF pc["consumer"] = "stopped" THEN crashes ELSE crashes + 1
    /\ pending' = pending \cup InHand
    /\ claimed \subseteq pending'
    /\ redeliver' = claimed
    /\ routes' = table
    /\ pc' = [th \in Threads |-> "idle"]
    /\ job' = [th \in Threads |-> NoJob]
    /\ cur' = NoEvent
    /\ tries' = 0
    /\ toList' = {}
    /\ listing' = [t \in Tasks |-> NoRecord]
    /\ UNCHANGED <<storeVars, topAttempt, targetVars, outputVars, requests, faults>>

\* Time passes: the stored dispatch of t is now older than the timeout.
Overdue(t) ==
    /\ Dispatched(t)
    /\ ~record[t].overdue
    /\ record' = [record EXCEPT ![t].overdue = TRUE]
    /\ UNCHANGED <<dispatchedSet, topAttempt, routes, processVars, busVars, targetVars, outputVars, budgetVars>>

-----------------------------------------------------------------------------
Arrival ==
    \/ \E t \in Requested, a \in Actions : DeliverRequest(t, a)
    \/ \E t \in Tasks, kind \in {"success", "failure"} :
          DeliverAnswer(t, kind) \/ DeliverStreamEnded(t, kind)

Consumer ==
    \/ \E e \in redeliver : Redeliver(e)
    \/ IgnoreDuplicate \/ RejectUnknownAction \/ DispatchRequested
    \/ MarkCompleted \/ IgnoreForeignAnswer
    \/ FailPermanently \/ RetryOnFailure \/ RouteKeyError
    \/ SaveRecord("consumer") \/ SaveIndex("consumer") \/ Publish("consumer")
    \/ Acknowledge

Sweeper ==
    \/ SweepBegin \/ SweepListed \/ SweepEvict \/ SweepEnd
    \/ \E t \in Tasks : SweepList(t) \/ SweepFresh(t) \/ SweepTimeOut(t)
                        \/ SweepUnroutable(t) \/ SweepRetry(t)
    \/ SaveRecord("sweeper") \/ SaveIndex("sweeper") \/ Publish("sweeper")

Fault ==
    \/ ConsumerFault \/ SweeperFault \/ ConsumerStops
    \/ \E table \in RouteTables, claimed \in SUBSET (pending \cup InHand) : Restart(table, claimed)

Next == Arrival \/ Consumer \/ Sweeper \/ Fault \/ \E t \in Tasks : Overdue(t)

Spec == Init /\ [][Next]_vars

\* Both threads are daemon threads the OS keeps scheduling, the sweeper's
\* wait is a timer, and time passes.  Nothing makes an answer arrive, a
\* Redis command fail or the process restart.
Fairness ==
    /\ WF_vars(Consumer)
    /\ WF_vars(Sweeper)
    /\ \A t \in Tasks : WF_vars(Overdue(t))

FairSpec == Spec /\ Fairness

-----------------------------------------------------------------------------
(* The inductive invariant: what each piece of state says about the rest.  *)

\* The store against the outputs and the targets.
TaskInv(t) ==
    /\ record[t].attempts <= topAttempt[t]
    /\ topAttempt[t] <= MAX_RETRIES
    /\ record[t].attempts = 0 => topAttempt[t] = 0
    /\ Seen(t) => t \in Requested /\ record[t].action \in Actions
    /\ ~Seen(t) => record[t] = NoRecord
    /\ Dispatched(t) => record[t].attempts > 0
    /\ announced[t] > 0 => topAttempt[t] = MAX_RETRIES
    /\ topAttempt[t] = 0 => sent[t] = << >> /\ (t \in Requested => outstanding[t] = 0) /\ armed[t] = 0
    /\ \A i \in 1 .. Len(sent[t]) :
          sent[t][i].action = record[t].action /\ sent[t][i].attempt \in 1 .. topAttempt[t]
    /\ \A i, j \in 1 .. Len(sent[t]) :
          sent[t][i].attempt = 1 /\ sent[t][j].attempt = 1 => i = j

\* An answer is about a task that was dispatched, or about nobody's task.
EventInv(e) ==
    /\ e.kind = "request" => e.task \in Requested /\ e.action \in Actions
    /\ e.kind \in {"success", "failure"} => e.task \notin Requested \/ topAttempt[e.task] > 0

\* A plan for a task the store already holds.
LaterPlan(p) ==
    /\ Seen(p.task) /\ topAttempt[p.task] > 0
    /\ p.rec.action = record[p.task].action
    /\ p.rec.attempts \in 1 .. MAX_RETRIES
    /\ p.rec.attempts <= topAttempt[p.task] + 1
    /\ p.pub = "dispatch" => p.rec.attempts > 1

\* The plan of a first request, before its record is saved and after.
FirstPlan(p) ==
    /\ p.rec.action \in Actions
    /\ p.rec.attempts = IF p.pub = "dispatch" THEN 1 ELSE 0

FirstSaved(p) ==
    /\ Seen(p.task)
    /\ p.rec.action = record[p.task].action
    /\ \A i \in 1 .. Len(sent[p.task]) : sent[p.task][i].attempt # 1

PlanInv(th) ==
    LET p == job[th] IN
    pc[th] \in {"set", "index", "publish"} =>
        /\ p.task \in Requested
        /\ p.rec.status # "unseen"
        /\ p.rec.status = "dispatched" => p.rec.attempts > 0
        /\ p.pub = "failed" => topAttempt[p.task] = MAX_RETRIES
        /\ pc[th] \in {"index", "publish"} => p.rec.attempts <= topAttempt[p.task]
        /\ pc[th] = "publish" => p.pub # "none"
        /\ IF th = "consumer" /\ cur.kind = "request"
           THEN /\ FirstPlan(p)
                /\ p.pub # "failed"
                /\ IF pc[th] = "set" THEN ~Seen(p.task) ELSE FirstSaved(p)
           ELSE LaterPlan(p)

\* A record the sweep collected may be stale, but it was once in the store.
ListingInv(t) ==
    t \in Listed => /\ Seen(t)
                    /\ listing[t].action = record[t].action
                    /\ listing[t].attempts \in 1 .. topAttempt[t]

IInv ==
    /\ TypeOK
    /\ \A t \in Tasks : TaskInv(t) /\ ListingInv(t)
    /\ \A e \in pending \cup redeliver \cup InHand : EventInv(e)
    /\ \A th \in Threads : PlanInv(th)
    /\ redeliver \subseteq pending
    /\ pc["consumer"] \in {"get", "set", "index", "publish", "ack"} => cur # NoEvent

-----------------------------------------------------------------------------
(* What the orchestrator promises. *)

\* Duplicate execution prevention, across redelivered and repeated requests,
\* handler retries and restarts: the first dispatch of a task is published at
\* most once, because the record is saved before the dispatch is published.
FirstDispatchOnce ==
    \A t \in Tasks : \A i, j \in 1 .. Len(sent[t]) :
        sent[t][i].attempt = 1 /\ sent[t][j].attempt = 1 => i = j

\* Retries re-dispatch the request the task was created with: every dispatch
\* of a task, by either thread and from whatever event, follows the route of
\* the one action its record holds.
RouteKept ==
    \A t \in Tasks : \A i \in 1 .. Len(sent[t]) : sent[t][i].action = record[t].action

\* However the two threads interleave, no dispatch is numbered beyond
\* MAX_RETRIES, and task.failed is only ever published for a task whose last
\* attempt was recorded.
GivesUpInTime ==
    \A t \in Tasks :
        /\ topAttempt[t] <= MAX_RETRIES
        /\ announced[t] > 0 => topAttempt[t] = MAX_RETRIES
        /\ \A i \in 1 .. Len(sent[t]) : sent[t][i].attempt \in 1 .. topAttempt[t]

\* No attempt of a task is dispatched twice.
NoAttemptSentTwice ==
    \A t \in Tasks : \A i, j \in 1 .. Len(sent[t]) :
        sent[t][i].attempt = sent[t][j].attempt => i = j

\* A task the sweep can find settles, whether its target answers or not:
\* sooner or later it is completed, failed or timed out.  (Two
\* interleaved saves may drop a dispatched task from the index: SET completed,
\* SET dispatched, SADD, SREM.  No later sweep finds it.)
IndexedTaskSettles ==
    \A t \in Tasks : Dispatched(t) /\ t \in dispatchedSet
                        ~> ~Dispatched(t) \/ t \notin dispatchedSet

\* While no command raised and no process died, a task that timed out is
\* announced by task.failed.
TimeoutAnnounced ==
    \A t \in Tasks : record[t].status = "timed_out"
        ~> announced[t] > 0 \/ faults + crashes > 0
=============================================================================
