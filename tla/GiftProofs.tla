----------------------------- MODULE GiftProofs -----------------------------
(***************************************************************************)
(* Proofs about GiftEffects: no event plays twice, whatever is delivered   *)
(* again, retried or restarted, and none is missed while all is quiet.     *)
(***************************************************************************)
EXTENDS GiftEffects, TLAPS

\* What is marked, what was played, and where the handler stands.
MarkInv ==
    /\ \A e \in Events : effects[e] <= 1
    /\ \A e \in Events \ triggered : effects[e] = 0
    /\ pc = "mark" => cur \notin triggered /\ gift[cur] = "animated"
    /\ pc = "play" => cur \in triggered /\ effects[cur] = 0
    /\ pc = "skip" => gift[cur] = "bare"

\* Without faults, only the event about to be played is marked but not played.
QuietInv ==
    faults + crashes = 0 =>
        /\ \A e \in triggered : effects[e] = 1 \/ (pc = "play" /\ cur = e)
        /\ pc = "returned" /\ gift[cur] = "animated" => cur \in triggered
        /\ pc = "play" => cur \notin handled
        /\ \A e \in handled : gift[e] = "animated" => e \in triggered

GiftInv == DeliveryTypeOK /\ GiftTypeOK /\ MarkInv /\ QuietInv

\* The handler's initial state satisfies the invariant.
LEMMA GiftInitInv == GiftInit => GiftInv
<1> SUFFICES ASSUME GiftInit PROVE GiftInv
  OBVIOUS
<1> USE DeliveryAssumption DEF GiftInit, DeliveryStart, GiftStart
<1>1. DeliveryTypeOK
  BY DEF DeliveryTypeOK
<1>2. GiftTypeOK
  BY DEF GiftTypeOK
<1>3. MarkInv /\ QuietInv
  BY DEF MarkInv, QuietInv
<1> QED
  BY <1>1, <1>2, <1>3 DEF GiftInv

\* Taking an event, whichever it is and however often it came before.
LEMMA TakeKeepsInv ==
    ASSUME GiftInv, NEW e \in Events, TakeGift(e)
    PROVE  GiftInv'
<1> USE DeliveryAssumption DEF TakeGift, Take, giftVars
<1>1. DeliveryTypeOK'
  BY DEF GiftInv, DeliveryTypeOK
<1>2. GiftTypeOK'
  BY DEF GiftInv, GiftTypeOK
<1>3. MarkInv' /\ QuietInv'
  BY DEF GiftInv, DeliveryTypeOK, MarkInv, QuietInv
<1> QED
  BY <1>1, <1>2, <1>3 DEF GiftInv

\* The handler's own commands.
LEMMA HandlerKeepsInv ==
    ASSUME GiftInv, HandleGift \/ MarkTriggered \/ PublishTriggered \/ PublishSkipped
    PROVE  GiftInv'
<1> USE DEF GiftInv, Goto, giftVars
<1>1. cur \in Events
  BY DEF DeliveryTypeOK, HandleGift, MarkTriggered, PublishTriggered, PublishSkipped
<1>2. CASE HandleGift
  <2> USE <1>1, <1>2 DEF HandleGift
  <2>1. DeliveryTypeOK' /\ GiftTypeOK'
    BY DEF DeliveryTypeOK, GiftTypeOK, GiftContents
  <2>2. MarkInv'
    BY DEF MarkInv, GiftTypeOK, GiftContents
  <2>3. QuietInv'
    BY DEF QuietInv, GiftTypeOK, GiftContents
  <2> QED
    BY <2>1, <2>2, <2>3
<1>3. CASE MarkTriggered
  <2> USE <1>1, <1>3 DEF MarkTriggered
  <2>1. DeliveryTypeOK' /\ GiftTypeOK'
    BY DEF DeliveryTypeOK, GiftTypeOK
  <2>2. MarkInv'
    BY DEF MarkInv
  <2>3. QuietInv'
    BY DEF MarkInv, QuietInv
  <2> QED
    BY <2>1, <2>2, <2>3
<1>4. CASE PublishTriggered
  <2> USE <1>1, <1>4 DEF PublishTriggered
  <2>1. DeliveryTypeOK' /\ GiftTypeOK'
    BY DEF DeliveryTypeOK, GiftTypeOK
  <2>2. MarkInv'
    BY DEF MarkInv, GiftTypeOK
  <2>3. QuietInv'
    BY DEF MarkInv, QuietInv, GiftTypeOK
  <2> QED
    BY <2>1, <2>2, <2>3
<1>5. CASE PublishSkipped
  <2> USE <1>1, <1>5 DEF PublishSkipped
  <2>1. DeliveryTypeOK' /\ GiftTypeOK'
    BY DEF DeliveryTypeOK, GiftTypeOK
  <2>2. MarkInv' /\ QuietInv'
    BY DEF MarkInv, QuietInv
  <2> QED
    BY <2>1, <2>2
<1> QED
  BY <1>2, <1>3, <1>4, <1>5

\* The acknowledgement, of an event whose handler returned or gave up.
LEMMA ReturnKeepsInv ==
    ASSUME GiftInv, GiftReturned
    PROVE  GiftInv'
<1> USE DeliveryAssumption DEF GiftInv, GiftReturned, Acknowledge, Idle, giftVars
<1>1. cur \in Events /\ cur' = NoEvent /\ pc' = "idle"
  BY DEF DeliveryTypeOK
<1>2. DeliveryTypeOK'
  <2>1. handled' \subseteq arrived' /\ arrived' \subseteq Events
    BY <1>1 DEF DeliveryTypeOK
  <2>2. tries' \in 0 .. HandlerAttempts /\ {arrivals, faults, crashes}' \subseteq Nat
    BY DEF DeliveryTypeOK
  <2> QED
    BY <1>1, <2>1, <2>2 DEF DeliveryTypeOK
<1>3. GiftTypeOK' /\ MarkInv'
  BY <1>1 DEF GiftTypeOK, MarkInv
<1>4. QuietInv'
  <2>1. \A e \in handled' : e \in handled \/ (pc = "returned" /\ e = cur)
    OBVIOUS
  <2>2. pc # "play"
    OBVIOUS
  <2> QED
    BY <1>1, <2>1, <2>2 DEF QuietInv
<1> QED
  BY <1>2, <1>3, <1>4

\* A raising command, a death of the process: quiet no more.
LEMMA FaultKeepsInv ==
    ASSUME GiftInv, GiftFault
    PROVE  GiftInv'
<1> USE DeliveryAssumption DEF GiftInv, GiftFault, giftVars
<1>1. CASE Raise
  <2>1. DeliveryTypeOK' /\ GiftTypeOK'
    BY <1>1 DEF Raise, DeliveryTypeOK, GiftTypeOK
  <2>2. MarkInv' /\ QuietInv'
    BY <1>1 DEF Raise, MarkInv, QuietInv, DeliveryTypeOK
  <2> QED
    BY <2>1, <2>2
<1>2. CASE Restart
  <2>1. DeliveryTypeOK' /\ GiftTypeOK'
    BY <1>2 DEF Restart, Idle, DeliveryTypeOK, GiftTypeOK
  <2>2. MarkInv' /\ QuietInv'
    BY <1>2 DEF Restart, Idle, MarkInv, QuietInv, DeliveryTypeOK
  <2> QED
    BY <2>1, <2>2
<1> QED
  BY <1>1, <1>2

\* So every step of the agent keeps the invariant.
LEMMA GiftStep ==
    ASSUME GiftInv, [GiftNext]_<<deliveryVars, giftVars>>
    PROVE  GiftInv'
<1>1. CASE \E e \in Events : TakeGift(e)
  BY <1>1, TakeKeepsInv
<1>2. CASE HandleGift \/ MarkTriggered \/ PublishTriggered \/ PublishSkipped
  BY <1>2, HandlerKeepsInv
<1>3. CASE GiftReturned
  BY <1>3, ReturnKeepsInv
<1>4. CASE GiftFault
  BY <1>4, FaultKeepsInv
<1>5. CASE UNCHANGED <<deliveryVars, giftVars>>
  BY <1>5 DEF deliveryVars, giftVars, GiftInv, DeliveryTypeOK, GiftTypeOK, MarkInv, QuietInv
<1> QED
  BY <1>1, <1>2, <1>3, <1>4, <1>5 DEF GiftNext

\* The agent keeps its invariant over all it does.
THEOREM GiftInvariance == GiftSpec => []GiftInv
<1>1. GiftInv /\ [GiftNext]_<<deliveryVars, giftVars>> => GiftInv'
  BY GiftStep
<1> QED
  BY GiftInitInv, <1>1, PTL DEF GiftSpec

\* No event plays its effect twice, for any number of events, copies, faults
\* and restarts: _handle_gift marks before it publishes.
THEOREM NoEffectTwice == GiftSpec => []PlayedOnce
<1>1. GiftInv => PlayedOnce
  BY DEF GiftInv, MarkInv, PlayedOnce
<1> QED
  BY <1>1, GiftInvariance, PTL

\* While nothing raised and nobody died, an animated gift whose handler
\* returned has played exactly once, whichever copies came.
THEOREM QuietGiftsPlay == GiftSpec => []PlayedWhenQuiet
<1>1. GiftInv => PlayedWhenQuiet
  BY DEF GiftInv, QuietInv, PlayedWhenQuiet
<1> QED
  BY <1>1, GiftInvariance, PTL
=============================================================================
