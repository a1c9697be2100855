----------------------------- MODULE TaskStore -----------------------------
(***************************************************************************)
(* The durable task store of foundation/task_store.py, in its production   *)
(* form (RedisTaskStore): one record per task and a separate SET of the    *)
(* task ids in "dispatched" status.  A save is two Redis commands, first   *)
(* the record and then the index, so they are two operators here and the   *)
(* modules above make them two steps.                                      *)
(*                                                                         *)
(* A record keeps what its users' control flow reads.  `overdue' stands    *)
(* for now - dispatched_at beyond the user's limit (TASK_TIMEOUT_SECONDS,  *)
(* HEARTBEAT_STALE_SECONDS).  A task without a record is the record        *)
(* NoRecord, whose status is "unseen".                                     *)
(***************************************************************************)
EXTENDS Integers, FiniteSets

CONSTANTS
    Tasks,      \* task ids (and other correlation ids answers may carry)
    Actions,    \* action names a request may carry
    NoAction    \* the action of a task nobody asked for

ASSUME NoActionAssumption == NoAction \notin Actions

VARIABLES
    record,         \* the JSON record at {prefix}:{task_id}
    dispatchedSet   \* the Redis SET {prefix}:dispatched

storeVars == <<record, dispatchedSet>>

\* What the orchestrator writes, and for "ended" the live streaming agent.
Statuses == {"dispatched", "completed", "failed", "timed_out", "ended"}

Record == [action : Actions \cup {NoAction}, status : Statuses \cup {"unseen"},
           attempts : Nat, overdue : BOOLEAN]

NoRecord == [action |-> NoAction, status |-> "unseen", attempts |-> 0, overdue |-> FALSE]

\* get() finds a record.
Seen(t) == record[t].status # "unseen"
Dispatched(t) == record[t].status = "dispatched"

StoreTypeOK ==
    /\ record \in [Tasks -> Record]
    /\ dispatchedSet \subseteq Tasks

StoreInit ==
    /\ record = [t \in Tasks |-> NoRecord]
    /\ dispatchedSet = {}

\* save(), first command: SET {prefix}:{task_id}.
SetRecord(t, rec) ==
    /\ record' = [record EXCEPT ![t] = rec]
    /\ UNCHANGED dispatchedSet

\* save(), second command: SADD or SREM by the status just written.
IndexRecord(t, rec) ==
    /\ dispatchedSet' = IF rec.status = "dispatched" THEN dispatchedSet \cup {t}
                                                     ELSE dispatchedSet \ {t}
    /\ UNCHANGED record

\* all_dispatched() drops a member whose record is not dispatched (any more).
EvictFromIndex(t) ==
    /\ dispatchedSet' = dispatchedSet \ {t}
    /\ UNCHANGED record
=============================================================================
