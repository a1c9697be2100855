# Verification of the bimo-bond agents

TLA+ models of the agent fleet under `src/`: five event-driven agents on a
shared Redis Streams bus, the foundation library they are built on, and the
durable stores they keep their state in. TLC checks the models on small
instances; TLAPS proves what matters most for every instance.

## 1. Inventory

| Part | State | Operations | Hard because |
|---|---|---|---|
| **orchestration agent** (`agents/orchestration_agent`) | one task record per task id, the set of dispatched ids, both in Redis | `task.requested`, target success and failure, timeout sweep every 5 s | two threads share the store with no lock; every Redis command may raise; the process may die between any two; answers come late, twice or never |
| **task store** (`foundation/task_store.py`) | JSON record per id, a SET of ids in status `dispatched` | `get`, `save`, `all_dispatched`, `delete` | a save is two commands, a listing is one per member |
| **event bus** (`foundation/event_bus.py`) | stream, consumer group with its pending list, delivery-count hash, DLQ stream | publish, consume loop, reclaim at start, dead-letter, ack | at-least-once delivery, each side effect a command of its own, reclaim happens once per process |
| **agent pipeline** (`foundation/base_agent.py`, `reliability.py`) | LRU of event ids, retry attempt | dedup, retention, scope, retry, publish, run, shutdown | the id is remembered before the event is handled; a failed handler is swallowed |
| **DLQ tools** (`foundation/dlq_tools.py`) | the DLQ stream | list, replay, purge | XADD then XDEL; a replay reaches every consumer group again |
| **live streaming agent** (`agents/live_streaming_agent`) | one session record per live, open issues, anomaly samples | started, heartbeat, interrupted, ended, media failed, client health; stale sweep every 10 s | sweep and consumer race on the session; events out of order; ended sessions may come back |
| **anomaly model** (`anomaly_model.py`) | sample list, fitted model, retrain counter | record, predict, retrain, load at start | the counter and the durable samples must agree over restarts |
| **gift effects agent** (`agents/gift_effects_agent`) | per event id: triggered or not | gift sent: trigger or skip | "exactly one trigger per event id, even across a restart" against a mark that is saved before the publication |
| **live auction agent** (`agents/live_auction_agent`) | per auction: contributions, seen event ids, the backend's last winner and status | auctionUpdated: ledger, publish leaderboard, cross-check the winner | duplicated and reordered status events; an incomplete ledger against the backend's own settlement |
| **auction rules** (`foundation/auction_rules.py`) | none (pure) | winner of a list of contributions | duplicates, exclusions, ties and their order |
| **camera agent** (`agents/camera_agent`) | catalogue cache | feature toggled: validate, apply | stale cache, check then apply |
| metrics, audit ring and sink, acceptance tracker, health server, logging, retention, contracts, permissions, event catalogue, configuration, generator and template | counters, ring buffers, files | record, serve, read | nothing that another component's correctness rests on |

Interaction: agents only exchange events over the bus. The orchestrator
publishes a route's dispatch event; camera, gift and live streaming agents
answer with events that carry the task id as correlation id; the NestJS backend
(outside this repository) fans its own events into the same stream. Within an
agent the bus consumer thread and, in two agents, a sweeper thread share a
durable store.

What makes each of them correct:

- *Orchestrator*: a task id is bound to one action; its first dispatch goes out
  once; attempts are numbered up to `MAX_RETRIES`; `task.failed` only after the
  last of them; a task nobody answers settles and is announced.
- *Live streaming agent*: reconnects stay within the limit; only an exhausted
  session is ended by the agent; a silent session does not stay watched; an end
  is announced and sampled; trouble is counted once.
- *Anomaly model*: the durable samples cover every announced end and never
  shrink; the model is as current as its retrain interval says.
- *Bus and pipeline*: nothing is acknowledged before the pipeline was done with
  it; only poison becomes a dead letter; a dead letter is kept until it is
  replayed or purged; duplicates are dropped only when another copy was handled,
  and the dedup forgets an id only when as many others as it holds came since.
- *Gift effects*: one effect per event id, and one for every animated gift that
  meets no fault; a task of the orchestrator completes only if its effect played.
- *Auction*: each contribution is ledgered once, over copies and retries; the
  leaderboard is the sum of the ledger; every end is cross-checked; between a
  winner named by the backend and one named by the rules the verdict is right by
  the gifts known at that time, and a mismatch of any kind is disputed (which the
  code does not keep, section 6).
- *Auction rules*: the winner is who gave most by the first valid copies, and
  the order of the list decides nothing the timestamps do not.
- *Camera*: the last catalogue the backend gave decides, a new process approves
  nothing, and a withdrawn feature is refused once the time to live was over.

## 2. Modules

| Module | What it is |
|---|---|
| `TaskStore` | `RedisTaskStore`, one operator per Redis command |
| `Orchestrator` | the orchestration agent: consumer thread, sweeper thread, targets as environment, faults |
| `TaskLedger` | what the orchestrator promises the rest of the system |
| `MCOrchestrator` | the refinement mapping from `Orchestrator` to `TaskLedger`, and the symmetry of the actions for TLC |
| `OrchestratorProofs` | proofs about `Orchestrator`, and that it implements `TaskLedger` |
| `StreamSession` | the live streaming agent with its sweeper, its `/health` listing and its anomaly model, over `TaskStore` |
| `SessionLedger` | what the live streaming agent promises the rest of the system |
| `MCSession` | the refinement mapping from `StreamSession` to `SessionLedger` |
| `SessionProofs` | proofs about `StreamSession`, and that it implements `SessionLedger` |
| `StreamBus` | one agent on the Redis stream: bus, dedup, dead letters, DLQ tools |
| `MessageChannel` | what the bus promises an agent: an at-least-once channel |
| `MCBus` | the refinement mapping from `StreamBus` to `MessageChannel`, and the symmetry of the events for TLC |
| `BusProofs` | proofs about `StreamBus`, and that it implements `MessageChannel` |
| `Delivery` | the consumer thread as the handler of a small agent sees it: events that come again, retries, deaths |
| `GiftEffects`, `GiftProofs` | the gift effects agent over `Delivery`, and proofs about it |
| `AuctionRules`, `RulesProofs` | `resolve_purchase_eligibility` as folds over a list, and the reference by sets; the proof that the folds meet the reference |
| `AuctionLedger`, `AuctionProofs` | the live auction agent over `Delivery` and `AuctionRules`, and proofs about it |
| `CameraCatalog` | the camera agent and its catalogue client over `Delivery` |
| `MCAgents`, `AgentsProofs` | model checking of the three small agents and the auction rules: a behaviour runs one of them; proofs about the camera agent and about the whole |
| `GiftTask`, `GiftTaskProofs` | `Orchestrator` and `GiftEffects` composed: tasks that trigger gift effects; and proofs about the composition from those of its two parts |

`Orchestrator` and `StreamSession` look at one agent from the inside and keep of
the bus what a handler can notice: one event at a time, redelivery after a
restart, a consumer thread that stops. `StreamBus` looks at the same pipeline
from the outside: of a handler it keeps that it returned or gave up. All three
number one step per Redis command.

`GiftEffects`, `AuctionLedger` and `CameraCatalog` are single-threaded and have
no timers, so they share `Delivery`, a smaller view of the same pipeline: any
event may be handed over again at any time, which is what redelivery after a
death, a replayed dead letter and a backend that repeats itself have in common
once the in-memory dedup has forgotten the id. `GiftTask` puts the detailed
orchestrator and the detailed gift agent together: what `DeliverAnswer` leaves
open in `Orchestrator`, the agent decides.

### TaskStore

`record` is the JSON value at `{prefix}:{task_id}`, reduced to the fields that
control flow reads; `dispatchedSet` is the SET `{prefix}:dispatched`. `save` is
two commands, so it is two operators (`SetRecord`, `IndexRecord`) and its users
make them two steps. Time appears as one bit, `overdue`: the limit of the
record's user has passed since `dispatched_at`. `InMemoryTaskStore` has the same
interface, serves tests, and is not modelled; `delete` has no caller in the
agents modelled.

### Orchestrator

| Code | Model |
|---|---|
| `handle_event` and its branches | `IgnoreDuplicate`, `RejectUnknownAction`, `DispatchRequested`, `MarkCompleted`, `IgnoreForeignAnswer`, `FailPermanently`, `RetryOnFailure`, `RouteKeyError`: each reads the record and lays out in `job` what the handler will save and publish |
| `store.save`, `publish` | `SaveRecord`, `SaveIndex`, `Publish`, by either thread |
| `check_timeouts` | `SweepBegin`, `SweepList`, `SweepEvict`, `SweepListed` (the listing), then one of `SweepFresh`, `SweepTimeOut`, `SweepUnroutable`, `SweepRetry` for each record |
| handler retry, swallowed failure | `ConsumerFault`, `tries` |
| the sweeper's catch-all | `SweeperFault` |
| death and restart, perhaps with another routing table | `Restart` |
| targets | `DeliverAnswer`, `DeliverStreamEnded` |

A thread's locals survive between its steps in `job`, so the other thread can
act between any two of its commands; that is where the code's races are.

### StreamSession

The handlers are laid out in the same way (`StreamStarted`, `Heartbeat`,
`GiveUp`, `Reconnect`, `LiveEnded`, `IgnoreEnded`, `RecordIssues`,
`IgnoreSessionless`), followed by `SaveRecord`, `SaveIndex`, `Train`, `Publish`.
The sweep is `SweepList` ... `SweepEndSession`, `SweepReconnect`. The HTTP
thread that serves `/health` runs the same listing, which removes members from
the index (`HealthRead`, `HealthEvict`). The anomaly model is reduced to the
sizes of its lists and to whether it is fitted; that it calls a heartbeat
anomalous is an open choice.

`SessionLedger` forgets records, plans, listings and threads. Of a session it
keeps how many reconnects were recorded and which were announced, and of the
agent the announced ends and the size of the training set.

### StreamBus

Messages are positions of the stream, so a copy made by a replay is a message
of its own with the same event id. `pel` is the group's pending list,
`deliveries` the hash of counts, `batch` what the consumer thread holds, `seen`
the LRU of `EventDeduplicator`. `since` is history: of every id this process
looked up in its dedup, which other ids it looked up after. The consumer is `Start`, `Reclaim`, `Read`, then
for each message `Bump`, one of `DropDuplicate`, `Refuse`, `BeginHandling`, or
straight to `Ack` (foreign) or `DeadAdd`, and `Ack`, `Clear`. The tools are
`ReplayList`, `ReplayAdd`, `ReplayDelete`, `Purge`. One process per consumer
group is assumed, as `docker-compose.yml` deploys it.

`MessageChannel` forgets the process, the batch, the counts and the dead
letters. What is left of a message is how often it was dispatched (`Offer`),
whether an attempt came to an end (`End`: handled, refused, dropped or
dead-lettered) and whether the group has left it behind (`Settle`, an
acknowledgement, or `Lose`, trimming). The mapping reads these off the pending
list, the fates and the DLQ; a replayed letter is a message that is sent anew.

### Delivery and the three agents over it

| Code | Model |
|---|---|
| `_safe_handle_event`, `RetryPolicy.run`, the acknowledgement | `Take`, `Raise`, `Acknowledge`; `handled` remembers events whose handler returned, as opposed to those it gave up |
| death of the process and redelivery | `Restart`, and a later `Take` of the same event |
| `GiftEffectsAgent._handle_gift` | `HandleGift` (asks the trigger store, looks for an animation), `MarkTriggered`, `PublishTriggered`, `PublishSkipped` |
| `LiveAuctionAgent._handle_auction_updated` | `ReadLedger`, `SetLedger` and `IndexLedger` (the save's two commands), `PublishBoard`, `CrossCheck` |
| `LedgerStore.all_active` | `AllActive` |
| `CatalogClient.get`, `fetch` | `Get`, `FetchDisabled`, `FetchAnswered` (the backend's answer leaves), `FetchStored` (it arrives), `FetchFailed` |
| `CameraAgent`'s handlers | `Decide`, `ReportSettings` |
| administrators and time | `Approve`, `Withdraw`, `Expire` |
| `resolve_purchase_eligibility` | `Scan`, `Totals`, `Earliest`, `FirstOfLeaders`, `Rejection`, `Resolve` |

What an event carries is chosen per event id and is the same in every copy; in
the auction rules alone copies may differ, since the function does not rely on
the contrary. A contribution is kept in the ledger as the id of its event. The
catalogue is the set of features it lists; `gone` is history: what was not
listed when a time to live was last over and was not listed again since.

### GiftTask

The gift agent's variables come in through `INSTANCE GiftEffects WITH`. Its
event ids are pairs: the i-th dispatch of a task, since every publication makes
a new event id. `PublishTriggered` and `PublishSkipped` put an answer on the
bus under the task's id, and `DeliverGiftAnswer` hands it to the orchestrator in
any order. Tasks outside `Requested` are gifts the backend sends by itself.
The agent takes only events whose handler has not returned before, and all gifts
of a behaviour have one content: copies of a handled event, and gifts that
differ, are the matter of `GiftEffects` alone (run `agents`).

## 3. Runs

| Run | Question | Bounds |
|---|---|---|
| `orchestrator_faults` | first dispatch once, route kept, giving up in time, implements `TaskLedger` | 1 task and a foreign id, 2 symmetric actions without sessions of their own, 2 requests, 1 raising command, 1 crash |
| `orchestrator_settles` | types, inductive invariant; settling and announcement, fair threads | 1 task, 1 raising command, 1 crash, a release without routes |
| `orchestrator_double_dispatch` | finding (section 6) | no fault, no crash |
| `session_faults` | reconnect limit, who ends a session, counting, samples and fits, implements `SessionLedger`; types, inductive invariant | 1 reconnect, all kinds of events about a session, 2 of them, 1 raising command, 1 crash; `/health` read until a process dies or its consumer stops |
| `session_settles` | settling and announcement, fair threads | 2 events, 1 raising command, 1 crash |
| `session_revived` | finding | 2 events |
| `bus_faults` | nothing lost, duplicates, poison, dead letters, implements `MessageChannel`; types, inductive invariant | 2 messages, 3 event ids (the subscribed ones symmetric), trimming, 2 raising commands, 1 crash |
| `bus_delivers` | every message is dealt with; what the dedup lets pass and drops | 2 messages, 2 crashes, fair consumer; a third message while nobody has died |
| `gift_task` | what each side relies on of the other; a completed task was played, one effect per dispatch | 1 task, 1 gift of the backend, 2 events handled by the agent, 1 crash of each side, a release without the route |
| `agents` | the promises of the gift, auction and camera agents; the rules against their reference | 2 events, 3 arrivals, 2 raising commands, 1 restart; 2 users, 3 contributions of 0 to 2 coins, 2 times |
| `gift_lost` | finding | 1 event, 1 raising command |
| `auction_mismatch` | finding | 1 update with 1 gift, no fault |

Why these bounds are enough to be interesting. `MAX_RETRIES = 2` has a first
attempt, a retry and the limit, and `MAX_RECONNECT_ATTEMPTS = 1`, which counts
reconnects only, has a reconnect and the limit (2 in `session_revived`).
Tasks and sessions do not share state except the consumer thread and the
listing, so one task with both threads shows the races on a record, and the
foreign id in `orchestrator_faults` the rest; the proofs hold for any number.
Two actions are needed to confuse them; with `SessionActions = {}` the routes
alone tell them apart, so `orchestrator_faults` may take them as symmetric (its
properties are safety properties, `ImplementsLedger` included), while
`orchestrator_settles` has the action whose session outlives its task
(`DeliverStreamEnded`).
`HandlerAttempts = 2` has one retried and one swallowed failure. One fault and
one crash meet in either order; `bus_faults` has two faults since a dead letter
takes more than one unlucky command. `MaxDeliveries = 1` makes poison of a
message that was dispatched twice; two messages fill a batch of two and a
trimmed stream of one. `DedupSize = 1` evicts at the second id, so that with three
messages (a, b, a) an id passes again after an eviction, and with (a, a, b) it is
dropped; a process that dies has two messages to deal with, which keeps the run
small (`ThirdIsCalm` in `MCBus`) and holds back no step of the consumer, the only
one with fairness. Event ids are
told apart only by whether the agent is subscribed to them, so the subscribed
ones are symmetric (all properties of `bus_faults` are safety properties). With
`MIN_TRAINING_SAMPLES = 2` and `RETRAIN_INTERVAL_SAMPLES = 1` two ended sessions
reach the first fit, and the redelivery after a crash the next one; longer
intervals are left to the theorem (`ModelIsCurrent`). `MaxPolled = 1` has `/health`
read until the first death, which may come in the middle of a listing; the
theorems have it read at any time.

In `agents` two events and three arrivals give a copy of one and another event
before, between or after; two raising commands retry a handler and make it give
up, or hit two events. Two users and three contributions have a leader, a tie in
coins, a tie in time, a duplicate that agrees or does not, and one of no worth.
One auction is enough, as an update reads and writes one ledger. The agents share
no state, so the run takes the sum of their state spaces and not the product.
Events are symmetric, as they are told apart by their contents only, and so are
users; `TieBreak` in the agent is the default `"earliest"`, the rules are checked
under both policies. In `gift_task` a task has `MAX_RETRIES = 2` attempts; with
a crash, sweeper and consumer can publish more than two dispatches, all within
`MaxSends`, and the agent handles two events: two dispatches, or one and its
redelivery, or one and a gift of the backend. Raising commands are left to the
other runs there; a crash between two commands shows the same losses.

Deadlock is checked in the runs of the orchestrator and the live streaming
agent, whose sweeper never ends. The bus runs, `agents`, `gift_lost` and `auction_mismatch` say
`CHECK_DEADLOCK FALSE`: when the bound on messages or arrivals is reached and
the consumer waits for more, the model stops as it should.

### Fairness

- Consumer and sweeper each have weak fairness as a thread: they are daemon
  threads that the operating system keeps scheduling, and the sweeper's wait is
  a timer (`main.py`). Nothing forces an answer, a command that raises or a
  restart.
- `Overdue` and `Stale` are weakly fair: time passes.
- In `StreamBus` the consumer's fairness includes `Start`: somebody starts a
  process that died. `docker-compose.yml` has no restart policy, so this is an
  assumption on the environment.
- `SlowRestart` says that the new process comes up when what was pending has
  been idle for `min_idle_ms`. Without it the property does not hold, since
  pending messages are claimed once per start; nor does it with a lost reply to
  XREADGROUP or XAUTOCLAIM, which is why `bus_delivers` has no faults.

## 4. Proofs

Every theorem holds for all values of the constants, from the named assumptions
of the modules, which TLC evaluates in the runs. The invariants the code should
keep are seldom inductive, since they depend on what a thread will do later with
what it read earlier; each module therefore has an `IInv` that says, of every
place where such knowledge is kept, what is still true of it. TLC checks each
`IInv` on a run (last column) before it is proved.

| Module | Theorems | `IInv` checked in |
|---|---|---|
| `OrchestratorProofs` | `TypeCorrect`, `Invariance`, `FirstDispatchOnlyOnce`, `RouteIsKept`, `GivesUpOnlyInTime`, `OrchestratorImplementsLedger` | `orchestrator_settles` |
| `SessionProofs` | `TypeCorrectness`, `Invariance`, `ReconnectsWithinLimit`, `EndsReachTheModel`, `ModelIsCurrent`, `IssuesAreCountedOnce`, `SamplesAreKept`, `SessionsImplementLedger` | `session_faults` |
| `BusProofs` | `TypeCorrectness`, `Invariance`, `AtLeastOnce`, `DuplicatesAreDuplicates`, `DedupKeepsWindow`, `PoisonOnly`, `ReplayLosesNothing`, `BusImplementsChannel` | `bus_faults` |
| `GiftProofs` | `NoEffectTwice`, `QuietGiftsPlay` | |
| `RulesProofs` | `RulesDecideRight`, `SameGiftsSameWinners` | |
| `AuctionProofs` | `BoardAddsUp`, `VerdictsHold`, `CompletedGetsVerdict`, `ActiveGetsCounted` | |
| `AgentsProofs` | `DecidedByCatalogue`, `WithdrawnNotApplied`, `AgentsTyped`, `RulesMeet`, `OrderIsFree` | |
| `GiftTaskProofs` | `AgentImplemented`, `CompositionInvariance`, `CompletedTasksPlayed`, `DispatchesPlayOnce`, `CompositionImplementsLedger` | `gift_task` (`HandOver`) |

### Orchestrator

`TaskInv` relates a record to the highest attempt ever saved and to what was
published: while that attempt is 0, nothing was sent and no answer is
outstanding; `task.failed` needs it to be `MAX_RETRIES`. `PlanInv` speaks of a
thread's plan: the plan of a first request meets no record before its SET and no
first dispatch after it; the plan of a retry is at most one attempt ahead of the
highest. `ListingInv` says that a record the sweep collected may be stale but
has the task's action and an attempt once reserved. `EventInv` says that an
answer is about a task that was dispatched, wherever the event waits.
`MAX_RETRIES` holds because a stale `attempts` is only ever too low.

The proof splits `IInv` into parts (`PartsIInv`), has a frame lemma for each
part, one lemma per action or family of actions, and `InvStep` puts them
together; the theorems follow with PTL.

`OrchestratorImplementsLedger` shows that every step maps to a step of `TaskLedger` or to a
stutter. Only the SET of a record binds a task to an action or reserves an
attempt (`SaveRecordRefines`), only a publication sends or announces
(`PublishRefines`), and the ledger sees nothing of the rest. `IInv` is what
makes these steps ones the ledger allows: what a thread saves was planned from a
record that may be stale by then.

### Live streaming agent

`AttemptInv`: no record, in the store or copied by the sweep, counts more
attempts than `topAttempt`, the highest ever saved, which stays within the
limit. `PlanInv`: a plan carries out what the record it was made from allowed,
stale as that record may be; so a reconnect is never numbered beyond the limit
and the agent gives up only when the last attempt was recorded. `SampleInv`: the
ends announced and those a thread still owes (`Owed`: it has trained and not yet
published) are at most the durable samples, and these are at most the samples in
memory; hence an announced end is in the training set, and the list `Train`
writes back never shrinks it (`SamplesAreKept`, an action property). `IssueInv`:
trouble that is not open has not been counted by this process.

`SessionsImplementLedger`: a save records at most the next reconnect, because a
plan is at most one ahead of `topAttempt` when it is made and `topAttempt` never
falls (`SaveUses`); training adds to the durable samples (`TrainLearns`); a
publication announces a reconnect that was recorded or an end that is owed
(`PublishAnnounces`); all else is a stutter, restarts included.

### Bus

`InHand` says of each label of the consumer thread what was done with the
message in its hands: a message about to be acknowledged has a fate, one about
to be removed after a dead letter is in the DLQ. `FateInv`: only messages the
group has read have a fate, and a delivery count never exceeds the dispatches
that really happened, so that a count above the limit is poison. `SeenInv`
traces each id in the dedup to a message that was finished, or is the one being
handled; a crash clears the dedup, which is why an id remembered before its
event was handled does no harm. `WindowInv`: the dedup holds pairwise distinct
ids in the order of their last lookup, so that what was looked up since an id is what
stands behind it; and an id that is no longer in it has seen at least `DedupSize` others come (`DedupKeepsWindow`, for
every size of the dedup: it lets an id pass again, or drops it, by the number of
other ids since that id's own last lookup). It is where an eviction at the wrong
end, or a hit that does not count as a use, would show.
`ReplayInv` keeps the replay's XADD and XDEL on the same letter. `Progress` says
once what every step leaves as it was: the stream only grows, letters keep what
they say, histories never go back. The first lemmas are about the operators
(`FirstOf`, `Remember`, `Deliver`). `HeldInv` is what the refinement adds: what
the process holds is pending, or just left the pending list by its own ack, and
past `Bump` it was dispatched at least once. With it `BusImplementsChannel` goes
through the commands one by one: `Publish` and the replay's XADD send, `Bump`
offers (and ends, for what nobody subscribed to), the fates and the XADD to the
DLQ end, the XACK settles, XREADGROUP and XAUTOCLAIM lose what was trimmed, and every other
step, a crash and a raising command among them, is a stutter.

### Small agents

| Module | Argument |
|---|---|
| `GiftProofs` | `MarkInv`: an unmarked event has not played, and the handler stands before a publication only with a mark that has not played. `QuietInv`: without faults the event about to be played is the only one that is marked and has not played. |
| `AuctionProofs` | `SavedInv`: past the save, the ledger carries the status of the event in hand, and past the index the auction is in it. `KeptInv`: a ledger holds, each once, the gifts of the events it has seen; a handled gift is among them, and so is the one in hand after the save. `BoardInv`: the leaderboard shows the gifts of some set of arrived events that contains the handled ones. `VerdictInv`: by the theorems about the rules, what a verdict says of two named winners holds for the gifts ledgered at that time. |
| `AgentsProofs` | `AgeInv`: what is gone is neither listed by the backend, nor in an answer on its way, nor in a copy that is not stale; so it is not in the copy that decides, unless a fetch failed. `AgentsInv`: whichever agent runs keeps the invariant of its own module, and the list of contributions is one the rules take. TLC confirmed `AgentsInv` on two arrivals with coins 0 and 1. |

### Auction rules

`resolve_purchase_eligibility` is three folds over a list. Induction over data
is out of the provers' reach, so `RulesProofs` argues by least counterexample: <
on the naturals and strict inclusion on finite sets are well founded, so a claim
about all subsets, or all prefixes, fails at a least one or nowhere (`LeastNat`,
`LeastSubset`). The community modules define a fold by a function on the subsets
of a finite set; `FoldExists` shows that there is one, and a sum, for instance,
does not depend on the order (`SumTake`, `SumSame`), `ScanKeeps` says which contributions
pass the scan, `TotalsAreSums` that a user's total is the sum over them,
`LeadersAreBest` and `FirstIsEarliest` that the tie-break finds whom the
reference by sets allows. `RulesDecideRight` puts these together for every list,
copies that disagree included. `SameGiftsSameWinners`: if the copies of an event
agree, the reference looks only at the set of contributions, so order and copies
decide nothing the timestamps do not.

### Orchestrator and gift agent together

The composition is proved from its parts. The agent's half of a step is a step
of `GiftEffects` (`AgentImplemented`), so `GiftProofs`' invariant carries over
through `INSTANCE GiftProofs WITH`. The orchestrator's half is a step of
`Orchestrator` except for the answers: there they are bounded by the dispatches,
here the agent may answer one dispatch twice. `HandOver` says why they are still
answers `Orchestrator`'s invariant allows, and true ones: the agent takes only
what was dispatched (`DispatchedInv`), an answer is about a task that was
dispatched (`AnsweredInv`), and wherever a success is kept, as an answer, an
event, a plan or a record, its effect has been played (`SuccessInv`). `IInv` and
`HandOver` together are inductive (`CompositionInvariance`); the run checks
`HandOver`, and `IInv` held in the same state space. So the composition still
implements `TaskLedger` (`CompositionImplementsLedger`), although the targets
answer more than the ones `Orchestrator` assumes: the steps of the orchestrator
alone map as before, and an answer of the agent leaves the ledger alone. TLC
confirmed that on the bounds of `gift_task`.

### Only model-checked

Liveness (`IndexedTaskSettles`, `TimeoutAnnounced`, `SilentSessionSettles`,
`EndAnnounced`, `EveryMessageSettles`), since fairness and ENABLED are outside
the prover's reach. Every invariant and every action property of a passing run,
and every refinement, is proved. The four findings are counterexamples.

## 5. Not modelled

`InMemoryEventBus` and `InMemoryTaskStore`, which serve local tests; several
processes in one consumer group; metrics, audit, acceptance and the rest of the
last row of the inventory; the isolation forest and a missing scikit-learn; the
NestJS backend, which appears as the environment that publishes any of its
events in any order; clock values, which appear as `overdue` and `stale`.
`generate_agent.py` copies a template once, when a new agent is written; nothing
runs it concurrently and no state of the system depends on it. The generator,
the acceptance tracker and the metrics are the largest files without a model.
Negative `contributionCoins` and payloads that cannot be read are not modelled:
the latter are events whose handler raises.

Races that the models contain and no property forbids, because neither code nor
documentation promises otherwise: a timeout sweep that decides on an old record
overwrites a completed task; a late success completes a task that failed or
timed out; an interruption handled again after a raising command uses up two
reconnects. A save is SET then SADD or SREM, and the two threads of the
orchestrator can interleave so that a dispatched task is missing from the index
and no sweep sees it again (SET completed, SET dispatched, SADD, SREM), which is
why `IndexedTaskSettles` speaks of tasks inside the index. What a handler raises
for good is swallowed and acknowledged, so that such an event never becomes a
dead letter, although the docstring of `event_bus.py` says that failures do
(`OnlyPoisonDeadLettered` shows which ones are). A late `auctionUpdated` reopens
an auction in the ledger, and every copy of a COMPLETED one gives a verdict
again.
A skipped gift is not recorded, so a copy of it is skipped, and answered, again.
A task that is retried plays its effect once per dispatch. `agents/orchestration_agent/README.md:25` speaks of `MAX_RETRIES` retries; the
code makes `MAX_RETRIES` attempts including the first, and so does the model.

What the properties about settling and announcing leave out, since the code does
not keep it: a task saved as timed out, or a session saved as ended, is not
announced if the publication raises or the process dies after the save
(`TimeoutAnnounced`, `EndAnnounced` cover the interleavings without such a fault,
as `PlayedWhenQuiet` does for effects, whose loss is the finding of `gift_lost`).
A session that two interleaved saves, or `/health`, removed from the index is no
longer watched (`SilentSessionSettles`). A message that MAXLEN trims is gone
(`NothingVanishes` excuses it), and a consumer thread that a raising XACK ended
leaves its messages to the next start (`EveryMessageSettles` excuses it).

## 6. Findings

- `orchestrator_double_dispatch`: the consumer handling a failure and the sweep
  may both read attempt n and both dispatch attempt n + 1.
- `session_revived`: a heartbeat after `liveEnded` makes an ended session active
  again, and the sweep reconnects and ends it a second time.
- `gift_lost`: the gift agent marks an event as triggered and then publishes the
  effect. If the publication raises, the retry takes the event for a duplicate:
  the effect is lost, against "exactly one trigger per event_id". That the mark
  comes first is what keeps an effect from playing twice (`NoEffectTwice`).
- `auction_mismatch`: the auction agent's docstring (`agent.py:24`) and its README
  (line 39) promise `auction.disputed` on any mismatch with the backend's winner.
  The code disputes only when both sides name one: where the rules entitle a user
  and the backend reports nobody, it audits `match=False` and publishes
  `auction.settled`. Between two named winners the verdict is right
  (`NamedWinnersJudged`, proved).

## 7. Plan

1. `GiftEffects` against an abstract "once per event" specification, as a
   refinement.
2. The action properties implicit in the histories: a fate given once, a dead
   letter that changes only by replay or purge.
3. Several processes in one consumer group of `StreamBus`, if a deployment ever
   runs them.
