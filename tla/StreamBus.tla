----------------------------- MODULE StreamBus -----------------------------
(***************************************************************************)
(* One agent on the shared Redis stream: RedisStreamsEventBus with the     *)
(* pipeline BaseAgent._safe_handle_event as its only handler, the dead     *)
(* letter stream, and the operator's tools on it (dlq_tools).              *)
(*                                                                         *)
(* Messages are the positions of the stream; several may carry the same    *)
(* event id, since dead letters of any group are replayed to all of them.  *)
(* Each Redis command is a step and may raise, with or without effect; the *)
(* process may die between any two.  _safe_handle_event catches what its   *)
(* agent raises, so the bus's branch for a raising handler is never taken. *)
(***************************************************************************)
EXTENDS Integers, FiniteSets, FiniteSetsExt, Sequences

CONSTANTS
    Events,          \* event ids
    Foreign,         \* those of a type the agent is not subscribed to
    MaxDeliveries,   \* max_deliveries; 0 never dead-letters
    BatchSize,       \* count, of XREADGROUP and of XAUTOCLAIM
    DedupSize,       \* dedup_max_size
    StreamMaxLen,    \* stream_maxlen; 0 never trims
    SlowRestart,     \* a process comes up when all pending messages are idle
    MaxMessages,     \* bound: messages ever added to the stream
    MaxFaults,       \* bound: Redis commands that raise
    MaxCrashes       \* bound: process deaths and consumer stops

ASSUME BusAssumption ==
    /\ Foreign \subseteq Events
    /\ {MaxDeliveries, StreamMaxLen} \subseteq Nat
    /\ {BatchSize, DedupSize} \subseteq Nat \ {0}
    /\ SlowRestart \in BOOLEAN
ASSUME BusBounds == {MaxMessages, MaxFaults, MaxCrashes} \subseteq Nat

VARIABLES
    stream,      \* every message ever added
    trimmed,     \* how many of them MAXLEN has removed
    lastRead,    \* the group's last delivered message
    pel,         \* the group's pending entries list
    deliveries,  \* the hash {stream}:deliveries:{group}
    dlq,         \* every dead letter ever added, and whether it is still there
    pc,          \* where the consumer thread is
    batch,       \* the messages in its hands; they are handled in stream order
    reclaiming,  \* the batch comes from XAUTOCLAIM
    seen,        \* EventDeduplicator._seen, oldest first
    toReplay,    \* replay_dlq: dead letters listed and not yet replayed
    replayPc,    \* replay_dlq: the next command
    dispatched,  \* history: how often each message was dispatched
    fate,        \* history: what became of each message, last
    since,       \* history: of each id this process's dedup was asked about, the others asked since
    faults, crashes

groupVars   == <<lastRead, pel, deliveries>>
processVars == <<pc, batch, reclaiming, seen>>
toolVars    == <<toReplay, replayPc>>
historyVars == <<dispatched, fate, since>>
budgetVars  == <<faults, crashes>>
vars == <<stream, trimmed, groupVars, dlq, processVars, toolVars, historyVars, budgetVars>>

Messages == 1 .. MaxMessages

\* A message that is not ok cannot be parsed into an EventEnvelope.
Message == [event : Events, ok : BOOLEAN]

\* `since' is the length of the stream when the letter was added.
DeadLetter == [event : Events, msg : Messages, since : 0 .. MaxMessages,
               state : {"kept", "replayed", "purged"}]

\* What _safe_handle_event makes of an event: its handler returned, or raised
\* to the last of its retries; refused is expired or denied its scope.
Outcomes == {"handled", "failed"}
Fates    == Outcomes \cup {"none", "duplicate", "refused", "foreign"}

TypeOK ==
    /\ stream \in Seq(Message) /\ Len(stream) <= MaxMessages
    /\ trimmed \in 0 .. Len(stream)
    /\ lastRead \in 0 .. Len(stream)
    /\ pel \subseteq 1 .. lastRead
    /\ deliveries \in [Messages -> Nat]
    /\ dlq \in Seq(DeadLetter)
    /\ pc \in {"down", "reclaim", "read", "bump", "handle", "running", "ack", "clear",
               "deadAdd", "deadAck", "stopped"}
    /\ batch \subseteq 1 .. lastRead
    /\ pc \in {"bump", "handle", "running", "ack", "clear", "deadAdd", "deadAck"} <=> batch # {}
    /\ reclaiming \in BOOLEAN
    /\ seen \in Seq(Events) /\ Len(seen) <= DedupSize
    /\ toReplay \subseteq DOMAIN dlq
    /\ replayPc \in {"idle", "add", "del"}
    /\ dispatched \in [Messages -> Nat]
    /\ fate \in [Messages -> Fates]
    /\ DOMAIN since \subseteq Events /\ since \in [DOMAIN since -> SUBSET Events]
    /\ faults \in Nat /\ crashes \in Nat

Init ==
    /\ stream = << >> /\ trimmed = 0
    /\ lastRead = 0 /\ pel = {}
    /\ deliveries = [m \in Messages |-> 0]
    /\ dlq = << >>
    /\ pc = "down" /\ batch = {} /\ reclaiming = FALSE /\ seen = << >>
    /\ toReplay = {} /\ replayPc = "idle"
    /\ dispatched = [m \in Messages |-> 0]
    /\ fate = [m \in Messages |-> "none"]
    /\ since = [e \in {} |-> {}]
    /\ faults = 0 /\ crashes = 0

-----------------------------------------------------------------------------
\* XADD.  The approximate MAXLEN removes whole nodes, so any number of the
\* messages beyond it.

Add(message) ==
    /\ Len(stream) < MaxMessages
    /\ stream' = Append(stream, message)

Publish(message) ==
    /\ Add(message)
    /\ trimmed' \in {trimmed} \cup
          (IF StreamMaxLen = 0 THEN {} ELSE trimmed .. Len(stream') - StreamMaxLen)
    /\ UNCHANGED <<groupVars, dlq, processVars, toolVars, historyVars, budgetVars>>

-----------------------------------------------------------------------------
\* The consumer thread.

Frame == UNCHANGED <<stream, trimmed, toolVars, budgetVars>>

Current == Min(batch)
CurrentEvent == stream[Current].event

Goto(label) == pc' = label /\ UNCHANGED <<batch, reclaiming>>

\* The loop's next message.
NextMessage ==
    /\ batch' = batch \ {Current}
    /\ pc' = IF batch' = {} THEN "read" ELSE "bump"
    /\ UNCHANGED reclaiming

\* The first BatchSize of them.
FirstOf(messages) == {m \in messages : Cardinality({k \in messages : k <= m}) <= BatchSize}

TakeBatch(messages, fromReclaim) ==
    /\ batch' = messages
    /\ reclaiming' = fromReclaim
    /\ pc' = IF messages = {} THEN "read" ELSE "bump"

\* Mutant of Start: _ensure_group creates the group anew, at the beginning.
StartAnew ==
    /\ pc = "down"
    /\ lastRead' = 0 /\ pel' = {}
    /\ Goto("reclaim")
    /\ UNCHANGED <<deliveries, dlq, seen, historyVars>>
    /\ Frame

\* The process comes up: BaseAgent.__init__ and run, up to _ensure_group.
Start ==
    /\ pc = "down"
    /\ Goto("reclaim")
    /\ UNCHANGED <<groupVars, dlq, seen, historyVars>>
    /\ Frame

\* Mutant of Reclaim: it claims without handling.
ReclaimOnly(idle) ==
    /\ pc = "reclaim"
    /\ Goto("read")
    /\ UNCHANGED <<groupVars, dlq, seen, historyVars>>
    /\ Frame

\* XAUTOCLAIM of what was pending for min_idle_ms, once.  Messages that were
\* trimmed leave the pending list (Redis 7).
Reclaim(idle) ==
    LET claimed == FirstOf(idle)
    IN  /\ pc = "reclaim"
        /\ idle \subseteq pel
        /\ SlowRestart => idle = pel
        /\ pel' = pel \ {m \in claimed : m <= trimmed}
        /\ TakeBatch({m \in claimed : m > trimmed}, TRUE)
        /\ UNCHANGED <<lastRead, deliveries, dlq, seen, historyVars>>
        /\ Frame

Unread == {m \in lastRead + 1 .. Len(stream) : m > trimmed}

\* Mutant of Deliver: XREADGROUP NOACK.
DeliverNoAck ==
    LET messages == FirstOf(Unread)
    IN  /\ Unread # {}
        /\ lastRead' = Max(messages)
        /\ UNCHANGED <<pel, deliveries>>

\* XREADGROUP.
Deliver ==
    LET messages == FirstOf(Unread)
    IN  /\ Unread # {}
        /\ lastRead' = Max(messages)
        /\ pel' = pel \cup messages
        /\ UNCHANGED deliveries

Read ==
    /\ pc = "read"
    /\ Deliver
    /\ TakeBatch(FirstOf(Unread), FALSE)
    /\ UNCHANGED <<dlq, seen, historyVars>>
    /\ Frame

\* Mutant of ShouldDeadLetter: off by one.
DeadLetterEarly(count) == MaxDeliveries > 0 /\ count >= MaxDeliveries

ShouldDeadLetter(count) == MaxDeliveries > 0 /\ count > MaxDeliveries

\* _dispatch_and_ack up to its first side effect, for this delivery count.
Route(count) ==
    LET message == stream[Current] IN
    /\ dispatched' = [dispatched EXCEPT ![Current] = @ + 1]
    /\ IF ShouldDeadLetter(count) \/ ~message.ok
       THEN Goto("deadAdd") /\ UNCHANGED fate
       ELSE IF message.event \in Foreign
            THEN Goto("ack") /\ fate' = [fate EXCEPT ![Current] = "foreign"]
            ELSE Goto("handle") /\ UNCHANGED fate
    /\ UNCHANGED <<lastRead, pel, dlq, seen, since>>

Bump ==
    /\ pc = "bump"
    /\ deliveries' = [deliveries EXCEPT ![Current] = @ + 1]
    /\ Route(deliveries'[Current])
    /\ Frame

-----------------------------------------------------------------------------
\* BaseAgent._safe_handle_event.

InSeen(e) == \E i \in DOMAIN seen : seen[i] = e

\* The ids with e as the newest of them (move_to_end, or a new entry).
Refreshed(e) ==
    LET was == CHOOSE i \in DOMAIN seen : seen[i] = e
    IN  IF InSeen(e)
        THEN [j \in DOMAIN seen |-> IF j < was THEN seen[j] ELSE IF j < Len(seen) THEN seen[j + 1] ELSE e]
        ELSE Append(seen, e)

\* Mutants of Remember: nothing is evicted; or the newest id.
RememberAll(e) == seen' = Refreshed(e)
RememberOldest(e) == seen' = SubSeq(Refreshed(e), 1, Min({Len(Refreshed(e)), DedupSize}))

\* EventDeduplicator.seen_before: a bounded LRU, refreshed by a hit.
Remember(e) == seen' = IF Len(Refreshed(e)) > DedupSize THEN Tail(Refreshed(e)) ELSE Refreshed(e)

\* The history after another lookup.
SinceAsked(e) == [x \in DOMAIN since \cup {e} |-> IF x = e THEN {} ELSE since[x] \cup {e}]

AskDedup == Remember(CurrentEvent) /\ since' = SinceAsked(CurrentEvent)

DropDuplicate ==
    /\ pc = "handle"
    /\ InSeen(CurrentEvent)
    /\ AskDedup
    /\ fate' = [fate EXCEPT ![Current] = "duplicate"]
    /\ Goto("ack")
    /\ UNCHANGED <<groupVars, dlq, dispatched>>
    /\ Frame

\* Events that retention or permissions refuse are remembered all the same.
Refuse ==
    /\ pc = "handle"
    /\ ~InSeen(CurrentEvent)
    /\ AskDedup
    /\ fate' = [fate EXCEPT ![Current] = "refused"]
    /\ Goto("ack")
    /\ UNCHANGED <<groupVars, dlq, dispatched>>
    /\ Frame

BeginHandling ==
    /\ pc = "handle"
    /\ ~InSeen(CurrentEvent)
    /\ AskDedup
    /\ Goto("running")
    /\ UNCHANGED <<groupVars, dlq, dispatched, fate>>
    /\ Frame

EndHandling(outcome) ==
    /\ pc = "running"
    /\ fate' = [fate EXCEPT ![Current] = outcome]
    /\ Goto("ack")
    /\ UNCHANGED <<groupVars, dlq, seen, dispatched, since>>
    /\ Frame

-----------------------------------------------------------------------------
\* XACK, and HDEL of the delivery count.

RemovePending == pel' = pel \ {Current} /\ UNCHANGED <<lastRead, deliveries>>

Ack ==
    /\ pc = "ack"
    /\ RemovePending
    /\ Goto("clear")
    /\ UNCHANGED <<dlq, seen, historyVars>>
    /\ Frame

Clear ==
    /\ pc = "clear"
    /\ deliveries' = [deliveries EXCEPT ![Current] = 0]
    /\ NextMessage
    /\ UNCHANGED <<lastRead, pel, dlq, seen, historyVars>>
    /\ Frame

\* _dead_letter: XADD, XACK, HDEL.
AddDeadLetter ==
    dlq' = Append(dlq, [event |-> CurrentEvent, msg |-> Current, since |-> Len(stream), state |-> "kept"])

DeadAdd ==
    /\ pc = "deadAdd"
    /\ AddDeadLetter
    /\ Goto("deadAck")
    /\ UNCHANGED <<groupVars, seen, historyVars>>
    /\ Frame

DeadAck ==
    /\ pc = "deadAck"
    /\ RemovePending
    /\ Goto("clear")
    /\ UNCHANGED <<dlq, seen, historyVars>>
    /\ Frame

-----------------------------------------------------------------------------
\* The operator: replay_dlq lists, then adds and deletes one letter at a time;
\* purge_dlq deletes old letters.

Letters == {i \in DOMAIN dlq : dlq[i].state = "kept"}

ToolFrame == UNCHANGED <<trimmed, groupVars, processVars, historyVars, crashes>>

\* Mutant of ReplayList: letters are deleted before they are added.
ReplayDeletingFirst(chosen) ==
    /\ replayPc = "idle"
    /\ chosen # {} /\ chosen \subseteq Letters
    /\ toReplay' = chosen
    /\ replayPc' = "del"
    /\ UNCHANGED <<stream, dlq, faults>>
    /\ ToolFrame

ReplayList(chosen) ==
    /\ replayPc = "idle"
    /\ chosen # {} /\ chosen \subseteq Letters
    /\ toReplay' = chosen
    /\ replayPc' = "add"
    /\ UNCHANGED <<stream, dlq, faults>>
    /\ ToolFrame

\* The copy is written anew from the parsed letter: it can be parsed.
ReplayAdd ==
    /\ replayPc = "add"
    /\ Add([event |-> dlq[Min(toReplay)].event, ok |-> TRUE])
    /\ replayPc' = "del"
    /\ UNCHANGED <<toReplay, dlq, faults>>
    /\ ToolFrame

ReplayDelete ==
    LET i == Min(toReplay) IN
    /\ replayPc = "del"
    /\ dlq' = [dlq EXCEPT ![i].state = IF @ = "kept" THEN "replayed" ELSE @]
    /\ toReplay' = toReplay \ {i}
    /\ replayPc' = IF toReplay' = {} THEN "idle" ELSE "add"
    /\ UNCHANGED <<stream, faults>>
    /\ ToolFrame

Purge(i) ==
    /\ i \in Letters
    /\ dlq' = [dlq EXCEPT ![i].state = "purged"]
    /\ UNCHANGED <<stream, toolVars, faults>>
    /\ ToolFrame

-----------------------------------------------------------------------------
\* Faults.

RaiseFrame ==
    /\ faults < MaxFaults
    /\ faults' = faults + 1
    /\ UNCHANGED <<stream, trimmed, toolVars, crashes>>

\* XAUTOCLAIM raised: logged, and nothing was claimed (or nobody learned).
ReclaimFault ==
    /\ pc = "reclaim"
    /\ Goto("read")
    /\ UNCHANGED <<groupVars, dlq, seen, historyVars>>
    /\ RaiseFrame

\* XREADGROUP took effect and its reply was lost: the messages are pending
\* and in nobody's hands.
ReadFault ==
    /\ pc = "read"
    /\ Deliver
    /\ UNCHANGED <<dlq, processVars, historyVars>>
    /\ RaiseFrame

\* HINCRBY raised: the delivery counts as the first.
BumpFault ==
    /\ pc = "bump"
    /\ deliveries' \in {deliveries, [deliveries EXCEPT ![Current] = @ + 1]}
    /\ Route(1)
    /\ RaiseFrame

\* XACK raised.  In the loop nothing catches it and the thread ends; among
\* reclaimed messages _reclaim_pending does, and drops the rest of them.
AckFault ==
    /\ pc = "ack"
    /\ RemovePending \/ UNCHANGED groupVars
    /\ batch' = {}
    /\ reclaiming' = FALSE
    /\ pc' = IF reclaiming THEN "read" ELSE "stopped"
    /\ UNCHANGED <<dlq, seen, historyVars>>
    /\ RaiseFrame

ClearFault ==
    /\ pc = "clear"
    /\ NextMessage
    /\ UNCHANGED <<groupVars, dlq, seen, historyVars>>
    /\ RaiseFrame

\* _dead_letter catches what its XADD or XACK raises: the message stays
\* pending unless XACK took effect.
DeadLetterFault ==
    /\ \/ pc = "deadAdd" /\ (AddDeadLetter \/ UNCHANGED dlq) /\ UNCHANGED groupVars
       \/ pc = "deadAck" /\ (RemovePending \/ UNCHANGED groupVars) /\ UNCHANGED dlq
    /\ NextMessage
    /\ UNCHANGED <<seen, historyVars>>
    /\ RaiseFrame

\* The tool ends where it is, after its last command took effect or before.
ReplayFault ==
    /\ replayPc # "idle"
    /\ faults < MaxFaults
    /\ faults' = faults + 1
    /\ toReplay' = {}
    /\ replayPc' = "idle"
    /\ UNCHANGED <<stream, dlq>>
    /\ ToolFrame

\* A signal stops the loop before its next XREADGROUP, and the process stays.
Stop ==
    /\ pc = "read"
    /\ crashes < MaxCrashes
    /\ crashes' = crashes + 1
    /\ pc' = "stopped"
    /\ UNCHANGED <<stream, trimmed, groupVars, dlq, batch, reclaiming, seen, toolVars, historyVars, faults>>

\* Mutant of Crash: the dedup is durable.
CrashKeepingSeen ==
    /\ pc # "down"
    /\ crashes < MaxCrashes \/ pc = "stopped"
    /\ crashes' = IF pc = "stopped" THEN crashes ELSE crashes + 1
    /\ pc' = "down"
    /\ batch' = {}
    /\ reclaiming' = FALSE
    /\ since' = [e \in {} |-> {}]
    /\ UNCHANGED <<stream, trimmed, groupVars, dlq, seen, toolVars, dispatched, fate, faults>>

\* The process dies; what it remembered is gone.
Crash ==
    /\ pc # "down"
    /\ crashes < MaxCrashes \/ pc = "stopped"
    /\ crashes' = IF pc = "stopped" THEN crashes ELSE crashes + 1
    /\ pc' = "down"
    /\ batch' = {}
    /\ reclaiming' = FALSE
    /\ seen' = << >>
    /\ since' = [e \in {} |-> {}]
    /\ UNCHANGED <<stream, trimmed, groupVars, dlq, toolVars, dispatched, fate, faults>>

-----------------------------------------------------------------------------
Consumer ==
    \/ Start \/ Read \/ Bump
    \/ \E idle \in SUBSET pel : Reclaim(idle)
    \/ DropDuplicate \/ Refuse \/ BeginHandling \/ \E outcome \in Outcomes : EndHandling(outcome)
    \/ Ack \/ Clear \/ DeadAdd \/ DeadAck

Operator ==
    \/ \E chosen \in SUBSET Letters : ReplayList(chosen)
    \/ ReplayAdd \/ ReplayDelete
    \/ \E i \in Letters : Purge(i)

Fault ==
    \/ ReclaimFault \/ ReadFault \/ BumpFault \/ AckFault \/ ClearFault \/ DeadLetterFault
    \/ ReplayFault \/ Stop \/ Crash

Next == (\E message \in Message : Publish(message)) \/ Consumer \/ Operator \/ Fault

Spec == Init /\ [][Next]_vars

\* The consumer thread is scheduled for as long as it runs, and somebody
\* starts a process that died.
FairSpec == Spec /\ WF_vars(Consumer)

-----------------------------------------------------------------------------
(* What the bus promises. *)

DeadLettered(m) == \E i \in DOMAIN dlq : dlq[i].msg = m

\* At least once: a message leaves the pending list only after the pipeline
\* was done with it, or with a dead letter of it in the stream of dead
\* letters, or trimmed; whatever raised and whenever the process died.
NothingVanishes ==
    \A m \in 1 .. lastRead :
        m \in pel \/ m <= trimmed \/ fate[m] # "none" \/ DeadLettered(m)

Finished(m) == fate[m] \notin {"none", "foreign"}

\* A message is dropped as a duplicate only if another one with its event id
\* was handled to the end: the dedup that marks ids before they are handled
\* never outlives the process that was handling them.
DuplicatesWereFinished ==
    \A m \in Messages : fate[m] = "duplicate" =>
        \E k \in 1 .. lastRead : k # m /\ stream[k].event = stream[m].event /\ Finished(k)

\* The consumer thread lets the event in its hands pass the dedup, or drops it.
LetsPass(e) ==
    /\ pc = "handle" /\ CurrentEvent = e
    /\ pc' = "running" \/ (pc' = "ack" /\ fate'[Current] = "refused")
Drops(e) ==
    /\ pc = "handle" /\ CurrentEvent = e
    /\ pc' = "ack" /\ fate'[Current] = "duplicate"

\* However often an event is added, replayed or redelivered, one process lets
\* it pass its dedup again only when at least dedup_max_size other ids were
\* looked up since its own last lookup, and drops it only when fewer were: it
\* is the id not asked about for longest that is evicted.
WindowDecides ==
    [][\A e \in Events :
        /\ LetsPass(e) /\ e \in DOMAIN since => Cardinality(since[e]) >= DedupSize
        /\ Drops(e) => e \in DOMAIN since /\ Cardinality(since[e]) < DedupSize]_vars

Poison(m) == ~stream[m].ok \/ (MaxDeliveries > 0 /\ dispatched[m] > MaxDeliveries)

\* Only poison is dead-lettered: what cannot be parsed, or was dispatched
\* more than max_deliveries times, over processes and failing commands.
OnlyPoisonDeadLettered == \A i \in DOMAIN dlq : Poison(dlq[i].msg)

\* A copy of the letter was added to the stream after the letter itself.
Readded(i) == \E m \in dlq[i].since + 1 .. Len(stream) : stream[m].event = dlq[i].event

\* A dead letter that was not purged is still there, or was added to the
\* stream again, wherever the replay broke off.
DeadLettersKept == \A i \in DOMAIN dlq : dlq[i].state = "replayed" => Readded(i)

-----------------------------------------------------------------------------
(* The inductive invariant behind them. *)

\* What each step of _dispatch_and_ack may rely on.
InHand ==
    /\ pc \in {"down", "reclaim"} => seen = << >>
    /\ pc \in {"handle", "running"} => CurrentEvent \notin Foreign
    /\ pc = "ack" => fate[Current] # "none"
    /\ pc = "deadAdd" => Poison(Current)
    /\ pc = "deadAck" => DeadLettered(Current)

\* What became of a message became of it after it was read, and the group's
\* delivery count never runs ahead of the dispatches.
FateInv == \A m \in Messages :
    /\ fate[m] # "none" => m <= lastRead
    /\ Finished(m) => stream[m].event \notin Foreign
    /\ deliveries[m] <= dispatched[m]

\* Each id the dedup remembers is that of a message that was finished or is
\* being handled, and that will not come up again in this batch.
SeenInv == \A i \in DOMAIN seen : \E k \in 1 .. lastRead :
    /\ stream[k].event = seen[i]
    /\ k \in batch => k = Current /\ pc \in {"running", "ack", "clear"}
    /\ Finished(k) \/ (pc = "running" /\ k = Current)

\* The ids after the i-th.
Newer(ids, i) == {ids[j] : j \in i + 1 .. Len(ids)}

\* The dedup holds distinct ids in the order of their last lookups, so that
\* what came since is what is newer; and it has forgotten an id only for
\* dedup_max_size others.
WindowInv ==
    /\ \A i, j \in DOMAIN seen : seen[i] = seen[j] => i = j
    /\ \A i \in DOMAIN seen : seen[i] \in DOMAIN since /\ since[seen[i]] = Newer(seen, i)
    /\ \A e \in DOMAIN since :
        IsFiniteSet(since[e]) /\ (InSeen(e) \/ Cardinality(since[e]) >= DedupSize)

\* What the consumer thread holds is pending, but for the message it has just
\* acknowledged; and it counted the delivery of the one it is at.
HeldInv ==
    /\ \A m \in batch : m \in pel \/ (m = Current /\ pc = "clear")
    /\ batch # {} /\ pc # "bump" => dispatched[Current] > 0

\* Where the replay is: the letter it is about to delete was added.
ReplayInv ==
    /\ \A i \in DOMAIN dlq : dlq[i].msg <= lastRead /\ dlq[i].since <= Len(stream)
    /\ replayPc # "idle" => toReplay # {}
    /\ replayPc = "del" => Readded(Min(toReplay))

IInv ==
    /\ TypeOK /\ InHand /\ HeldInv /\ FateInv /\ SeenInv /\ WindowInv /\ ReplayInv
    /\ NothingVanishes /\ DuplicatesWereFinished
    /\ OnlyPoisonDeadLettered /\ DeadLettersKept

\* Every message is dealt with, even when the process dies, provided that the
\* next one comes up only when what was pending is idle for min_idle_ms.
EveryMessageSettles ==
    \A m \in Messages :
        m <= Len(stream) ~> (m <= lastRead /\ m \notin pel) \/ m <= trimmed \/ pc = "stopped"
=============================================================================
