--------------------------- MODULE CameraCatalog ---------------------------
(***************************************************************************)
(* camera_agent: applies a camera feature only if the backend's catalogue  *)
(* lists it, by a cached copy of the catalogue (CatalogClient) that is     *)
(* refreshed when its time to live is over or the last fetch failed.       *)
(*                                                                         *)
(* The administrators change the catalogue at any time, also between the   *)
(* backend's answer and its arrival.  `stale' stands for the cached copy   *)
(* being older than ttl_seconds; a request takes less than that.           *)
(* refresh_catalog has no caller in the repository.                        *)
(***************************************************************************)
EXTENDS Delivery

CONSTANTS Features, NoFeature

ASSUME CameraAssumption == NoFeature \notin Features /\ "settings" \notin Features

VARIABLES
    request,    \* what each event asks for, the same in every copy
    enabled,    \* BACKEND_BASE_URL is set
    approved,   \* the features the backend's catalogue lists
    reply,      \* the answer on its way to the agent
    cached,     \* CatalogClient._cached
    stale,      \* ... is older than ttl_seconds
    fetchOk,    \* CatalogClient._last_fetch_ok
    served,     \* history: the last catalogue this process was given
    gone,       \* history: features not listed since a time to live was over
    late,       \* history: those of `gone' when the event in hand was taken
    outage,     \* history: a fetch failed since then
    decision    \* the last camera.feature.applied or rejected published

cacheVars  == <<cached, stale, fetchOk>>
cameraVars == <<request, enabled, approved, reply, cacheVars, served, gone, late, outage, decision>>

\* camera.feature.toggled of a feature or of none, or camera.settings.requested.
CameraContents == Features \cup {NoFeature, "settings"}

Decision == [feature : Features \cup {NoFeature}, applied : BOOLEAN,
             served : BOOLEAN, late : BOOLEAN, outage : BOOLEAN]
NoDecision == [feature |-> NoFeature, applied |-> FALSE, served |-> FALSE, late |-> FALSE, outage |-> FALSE]

CameraTypeOK ==
    /\ request \in [Events -> CameraContents]
    /\ pc \in {"idle", "handle", "fetch", "fetched", "decide", "returned", "ack"}
    /\ {enabled, stale, fetchOk, outage} \subseteq BOOLEAN
    /\ {approved, reply, cached, served, gone, late} \subseteq SUBSET Features
    /\ decision \in Decision

CameraStart ==
    /\ cached = {} /\ stale = FALSE /\ fetchOk = FALSE
    /\ reply = {} /\ served = {} /\ gone = {} /\ late = {} /\ outage = FALSE
    /\ decision = NoDecision

CameraInit ==
    /\ DeliveryStart /\ request \in [Events -> CameraContents]
    /\ enabled \in BOOLEAN /\ approved = {} /\ CameraStart

TakeRequest(e) ==
    /\ Take(e)
    /\ late' = gone
    /\ outage' = FALSE
    /\ UNCHANGED <<request, enabled, approved, reply, cacheVars, served, gone, decision>>

\* Mutant: a catalogue once fetched is good for ever.
GetOnce ==
    /\ pc = "handle"
    /\ Goto(IF ~fetchOk THEN "fetch" ELSE "decide")
    /\ UNCHANGED cameraVars

\* CatalogClient.get.
Get ==
    /\ pc = "handle"
    /\ Goto(IF stale \/ ~fetchOk THEN "fetch" ELSE "decide")
    /\ UNCHANGED cameraVars

-----------------------------------------------------------------------------
\* CatalogClient.fetch.

FetchDisabled ==
    /\ pc = "fetch"
    /\ ~enabled
    /\ Goto("decide")
    /\ UNCHANGED cameraVars

FetchAnswered ==
    /\ pc = "fetch"
    /\ enabled
    /\ reply' = approved
    /\ Goto("fetched")
    /\ UNCHANGED <<request, enabled, approved, cacheVars, served, gone, late, outage, decision>>

FetchStored ==
    /\ pc = "fetched"
    /\ cached' = reply
    /\ stale' = FALSE
    /\ fetchOk' = TRUE
    /\ served' = reply
    /\ Goto("decide")
    /\ UNCHANGED <<request, enabled, approved, reply, gone, late, outage, decision>>

\* Mutant: a failed fetch empties the cache.
FetchFailedClears ==
    /\ pc \in {"fetch", "fetched"}
    /\ enabled
    /\ cached' = {}
    /\ fetchOk' = FALSE
    /\ outage' = TRUE
    /\ Goto("decide")
    /\ UNCHANGED <<request, enabled, approved, reply, stale, served, gone, late, decision>>

\* The request raises, or its answer is no object: the cached copy stays.
\* (An object that cannot be read makes the handler itself raise.)
FetchFailed ==
    /\ pc \in {"fetch", "fetched"}
    /\ enabled
    /\ fetchOk' = FALSE
    /\ outage' = TRUE
    /\ Goto("decide")
    /\ UNCHANGED <<request, enabled, approved, reply, cached, stale, served, gone, late, decision>>

-----------------------------------------------------------------------------
\* _handle_feature_toggle and _handle_settings_request, after get.

Decide ==
    LET f == request[cur] IN
    /\ pc = "decide"
    /\ f # "settings"
    /\ decision' = [feature |-> f, applied |-> f \in cached,
                    served |-> f \in served, late |-> f \in late, outage |-> outage]
    /\ Goto("returned")
    /\ UNCHANGED <<request, enabled, approved, reply, cacheVars, served, gone, late, outage>>

ReportSettings ==
    /\ pc = "decide"
    /\ request[cur] = "settings"
    /\ Goto("returned")
    /\ UNCHANGED cameraVars

CameraReturned == Acknowledge /\ UNCHANGED cameraVars
CameraRaises == Raise /\ UNCHANGED cameraVars

CameraRestart ==
    /\ Restart
    /\ cached' = {} /\ stale' = FALSE /\ fetchOk' = FALSE
    /\ reply' = {} /\ served' = {} /\ late' = {} /\ outage' = FALSE
    /\ UNCHANGED <<request, enabled, approved, gone, decision>>

-----------------------------------------------------------------------------
\* The administrators, and time.

AdminFrame == UNCHANGED <<deliveryVars, request, enabled, reply, cached, fetchOk, served, outage, decision>>

Approve(f) ==
    /\ f \notin approved
    /\ approved' = approved \cup {f}
    /\ gone' = gone \ {f}
    /\ late' = late \ {f}
    /\ UNCHANGED stale
    /\ AdminFrame

Withdraw(f) ==
    /\ f \in approved
    /\ approved' = approved \ {f}
    /\ UNCHANGED <<gone, late, stale>>
    /\ AdminFrame

\* The time to live of the cached copy is over.
Expire ==
    /\ pc \notin {"fetch", "fetched"}
    /\ stale' = TRUE
    /\ gone' = Features \ approved
    /\ UNCHANGED <<approved, late>>
    /\ AdminFrame

CameraNext ==
    \/ \E e \in Events : TakeRequest(e)
    \/ Get \/ FetchDisabled \/ FetchAnswered \/ FetchStored \/ FetchFailed
    \/ Decide \/ ReportSettings \/ CameraReturned \/ CameraRaises \/ CameraRestart
    \/ (\E f \in Features : Approve(f) \/ Withdraw(f)) \/ Expire

CameraSpec == CameraInit /\ [][CameraNext]_<<deliveryVars, cameraVars>>

-----------------------------------------------------------------------------
(* What the agent promises. *)

\* Every decision is the one of the last catalogue the backend gave to this
\* process, or a refusal if there is none: an outage neither approves
\* anything nor withdraws what was approved, and a new process starts closed.
LastCatalogueDecides == decision.applied = decision.served

\* A feature that was withdrawn before the time to live was last over when
\* its toggle was taken is not applied, unless a fetch failed for the toggle.
WithdrawnIsRefused == decision.applied /\ decision.late => decision.outage
=============================================================================
