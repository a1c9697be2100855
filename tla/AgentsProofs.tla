---------------------------- MODULE AgentsProofs ----------------------------
(***************************************************************************)
(* Proofs about CameraCatalog: what decides a toggle is the last catalogue *)
(* the process was given, and how old it can be; and about MCAgents, which *)
(* runs one of the three agents or the auction rules: its types, and what  *)
(* the rules decide.                                                       *)
(*                                                                         *)
(* The argument for the age: `gone' never meets what the backend lists, so *)
(* neither does it meet an answer on its way or a copy that is not stale;  *)
(* and what decides is such a copy, unless the fetch failed.               *)
(***************************************************************************)
EXTENDS MCAgents, GiftProofs, AuctionProofs

(* The camera agent. *)

\* The copy and the history of what was served say the same.
ServedInv ==
    /\ cached = served
    /\ decision.applied = decision.served

\* No answer and no fresh copy lists what is gone.
AgeInv ==
    /\ late \subseteq gone
    /\ gone \cap approved = {}
    /\ pc = "fetched" => enabled /\ gone \cap reply = {}
    /\ ~stale => gone \cap cached = {}
    /\ ~enabled => cached = {}
    /\ pc = "decide" => outage \/ late \cap cached = {}
    /\ decision.applied /\ decision.late => decision.outage

CatalogInv == DeliveryTypeOK /\ CameraTypeOK /\ ServedInv /\ AgeInv

\* The agent starts with an empty copy.
LEMMA CameraInitInv == CameraInit => CatalogInv
<1> SUFFICES ASSUME CameraInit PROVE CatalogInv
  OBVIOUS
<1> USE DeliveryAssumption DEF CameraInit, DeliveryStart, CameraStart, NoDecision
<1>1. DeliveryTypeOK
  BY DEF DeliveryTypeOK
<1>2. CameraTypeOK
  BY DEF CameraTypeOK, Decision
<1>3. ServedInv /\ AgeInv
  BY DEF ServedInv, AgeInv
<1> QED
  BY <1>1, <1>2, <1>3 DEF CatalogInv

\* A toggle is taken: what is late for it is what is gone now.
LEMMA TakeRequestKeepsInv ==
    ASSUME CatalogInv, NEW e \in Events, TakeRequest(e)
    PROVE  CatalogInv'
<1> USE DeliveryAssumption DEF CatalogInv, TakeRequest, Take, cacheVars
<1>1. DeliveryTypeOK'
  BY DEF DeliveryTypeOK
<1>2. CameraTypeOK'
  BY DEF CameraTypeOK
<1>3. ServedInv' /\ AgeInv'
  BY DEF ServedInv, AgeInv
<1> QED
  BY <1>1, <1>2, <1>3

\* CatalogClient.get decides to use the copy only when it is not stale.
LEMMA GetKeepsInv ==
    ASSUME CatalogInv, Get \/ FetchDisabled \/ FetchAnswered
    PROVE  CatalogInv'
<1> USE DEF CatalogInv, Goto, cameraVars, cacheVars
<1>1. CASE Get
  <2>1. DeliveryTypeOK' /\ CameraTypeOK' /\ ServedInv'
    BY <1>1 DEF Get, DeliveryTypeOK, CameraTypeOK, ServedInv
  <2>2. AgeInv'
    BY <1>1 DEF Get, AgeInv
  <2> QED
    BY <2>1, <2>2
<1>2. CASE FetchDisabled
  <2>1. DeliveryTypeOK' /\ CameraTypeOK' /\ ServedInv'
    BY <1>2 DEF FetchDisabled, DeliveryTypeOK, CameraTypeOK, ServedInv
  <2>2. AgeInv'
    BY <1>2 DEF FetchDisabled, AgeInv
  <2> QED
    BY <2>1, <2>2
<1>3. CASE FetchAnswered
  <2>1. DeliveryTypeOK' /\ CameraTypeOK' /\ ServedInv'
    BY <1>3 DEF FetchAnswered, DeliveryTypeOK, CameraTypeOK, ServedInv
  <2>2. AgeInv'
    BY <1>3 DEF FetchAnswered, AgeInv
  <2> QED
    BY <2>1, <2>2
<1> QED
  BY <1>1, <1>2, <1>3

\* A fetch ends, well or not.
LEMMA FetchKeepsInv ==
    ASSUME CatalogInv, FetchStored \/ FetchFailed
    PROVE  CatalogInv'
<1> USE DEF CatalogInv, Goto
<1>1. CASE FetchStored
  <2>1. DeliveryTypeOK' /\ CameraTypeOK' /\ ServedInv'
    BY <1>1 DEF FetchStored, DeliveryTypeOK, CameraTypeOK, ServedInv
  <2>2. AgeInv'
    BY <1>1 DEF FetchStored, AgeInv
  <2> QED
    BY <2>1, <2>2
<1>2. CASE FetchFailed
  <2>1. DeliveryTypeOK' /\ CameraTypeOK' /\ ServedInv'
    BY <1>2 DEF FetchFailed, DeliveryTypeOK, CameraTypeOK, ServedInv
  <2>2. AgeInv'
    BY <1>2 DEF FetchFailed, AgeInv
  <2> QED
    BY <2>1, <2>2
<1> QED
  BY <1>1, <1>2

\* The decision is made on a copy without what is late, or after an outage.
LEMMA DecideKeepsInv ==
    ASSUME CatalogInv, Decide \/ ReportSettings
    PROVE  CatalogInv'
<1> USE DEF CatalogInv, Goto
<1>1. CASE Decide
  <2> DEFINE f == request[cur]
  <2>1. /\ decision' = [feature |-> f, applied |-> f \in cached, served |-> f \in served,
                        late |-> f \in late, outage |-> outage]
        /\ pc = "decide" /\ f # "settings" /\ cur \in Events
        /\ UNCHANGED <<request, enabled, approved, reply, cached, stale, fetchOk, served, gone, late, outage>>
    BY <1>1 DEF Decide, DeliveryTypeOK, cacheVars
  <2>2. f \in Features \cup {NoFeature}
    BY <2>1 DEF CameraTypeOK, CameraContents
  <2>3. decision' \in Decision
    BY <2>1, <2>2 DEF Decision, CameraTypeOK
  <2>4. DeliveryTypeOK'
    BY <1>1 DEF Decide, DeliveryTypeOK
  <2>5. CameraTypeOK'
    BY <1>1, <2>1, <2>3 DEF Decide, CameraTypeOK
  <2>6. /\ decision'.applied = (f \in cached) /\ decision'.served = (f \in served)
        /\ decision'.late = (f \in late) /\ decision'.outage = outage
    BY <2>1
  <2>7. pc' = "returned"
    BY <1>1 DEF Decide
  <2> HIDE DEF f
  <2>8. ServedInv'
    BY <2>1, <2>6 DEF ServedInv
  <2>9. AgeInv'
    BY <2>1, <2>6, <2>7 DEF AgeInv
  <2> QED
    BY <2>4, <2>5, <2>8, <2>9
<1>2. CASE ReportSettings
  BY <1>2 DEF ReportSettings, cameraVars, cacheVars, DeliveryTypeOK, CameraTypeOK, ServedInv, AgeInv
<1> QED
  BY <1>1, <1>2

\* Acknowledgement, raising commands, and the death of the process.
LEMMA ThreadKeepsInv ==
    ASSUME CatalogInv, CameraReturned \/ CameraRaises \/ CameraRestart
    PROVE  CatalogInv'
<1> USE DeliveryAssumption DEF CatalogInv, cameraVars, cacheVars
<1>1. CASE CameraReturned
  <2>1. handled' \subseteq arrived' /\ arrived' \subseteq Events
    BY <1>1 DEF CameraReturned, Acknowledge, Idle, DeliveryTypeOK
  <2>2. DeliveryTypeOK'
    BY <1>1, <2>1 DEF CameraReturned, Acknowledge, Idle, DeliveryTypeOK
  <2>3. CameraTypeOK' /\ ServedInv' /\ AgeInv'
    BY <1>1 DEF CameraReturned, Acknowledge, Idle, CameraTypeOK, ServedInv, AgeInv
  <2> QED
    BY <2>2, <2>3
<1>2. CASE CameraRaises
  <2>1. DeliveryTypeOK'
    BY <1>2 DEF CameraRaises, Raise, DeliveryTypeOK
  <2>2. CameraTypeOK' /\ ServedInv' /\ AgeInv'
    BY <1>2 DEF CameraRaises, Raise, CameraTypeOK, ServedInv, AgeInv
  <2> QED
    BY <2>1, <2>2
<1>3. CASE CameraRestart
  <2>1. DeliveryTypeOK'
    BY <1>3 DEF CameraRestart, Restart, Idle, DeliveryTypeOK
  <2>2. CameraTypeOK' /\ ServedInv' /\ AgeInv'
    BY <1>3 DEF CameraRestart, Restart, Idle, CameraTypeOK, ServedInv, AgeInv
  <2> QED
    BY <2>1, <2>2
<1> QED
  BY <1>1, <1>2, <1>3

\* The administrators and time: no answer is on its way when time is up.
LEMMA OutsideKeepsInv ==
    ASSUME CatalogInv, (\E f \in Features : Approve(f) \/ Withdraw(f)) \/ Expire
    PROVE  CatalogInv'
<1> USE DEF CatalogInv, AdminFrame, deliveryVars
<1>1. ASSUME NEW f \in Features, Approve(f) PROVE CatalogInv'
  <2>1. DeliveryTypeOK' /\ CameraTypeOK' /\ ServedInv'
    BY <1>1 DEF Approve, DeliveryTypeOK, CameraTypeOK, ServedInv
  <2>2. AgeInv'
    BY <1>1 DEF Approve, AgeInv
  <2> QED
    BY <2>1, <2>2
<1>2. ASSUME NEW f \in Features, Withdraw(f) PROVE CatalogInv'
  <2>1. DeliveryTypeOK' /\ CameraTypeOK' /\ ServedInv'
    BY <1>2 DEF Withdraw, DeliveryTypeOK, CameraTypeOK, ServedInv
  <2>2. AgeInv'
    BY <1>2 DEF Withdraw, AgeInv
  <2> QED
    BY <2>1, <2>2
<1>3. CASE Expire
  <2>1. DeliveryTypeOK' /\ CameraTypeOK' /\ ServedInv'
    BY <1>3 DEF Expire, DeliveryTypeOK, CameraTypeOK, ServedInv
  <2>2. AgeInv'
    BY <1>3 DEF Expire, AgeInv, CameraTypeOK
  <2> QED
    BY <2>1, <2>2
<1> QED
  BY <1>1, <1>2, <1>3

\* So every step of the agent and the backend keeps the invariant.
LEMMA CameraStep ==
    ASSUME CatalogInv, [CameraNext]_<<deliveryVars, cameraVars>>
    PROVE  CatalogInv'
<1>1. CASE \E e \in Events : TakeRequest(e)
  BY <1>1, TakeRequestKeepsInv
<1>2. CASE Get \/ FetchDisabled \/ FetchAnswered
  BY <1>2, GetKeepsInv
<1>3. CASE FetchStored \/ FetchFailed
  BY <1>3, FetchKeepsInv
<1>4. CASE Decide \/ ReportSettings
  BY <1>4, DecideKeepsInv
<1>5. CASE CameraReturned \/ CameraRaises \/ CameraRestart
  BY <1>5, ThreadKeepsInv
<1>6. CASE (\E f \in Features : Approve(f) \/ Withdraw(f)) \/ Expire
  BY <1>6, OutsideKeepsInv
<1>7. CASE UNCHANGED <<deliveryVars, cameraVars>>
  BY <1>7 DEF deliveryVars, cameraVars, cacheVars, CatalogInv, DeliveryTypeOK, CameraTypeOK, ServedInv, AgeInv
<1> QED
  BY <1>1, <1>2, <1>3, <1>4, <1>5, <1>6, <1>7 DEF CameraNext

\* The agent keeps its invariant over all it and the backend do.
THEOREM CatalogInvariance == CameraSpec => []CatalogInv
<1>1. CatalogInv /\ [CameraNext]_<<deliveryVars, cameraVars>> => CatalogInv'
  BY CameraStep
<1> QED
  BY CameraInitInv, <1>1, PTL DEF CameraSpec

\* Every decision is the one of the last catalogue this process was given:
\* no failed fetch empties or fills CatalogClient._cached.
THEOREM DecidedByCatalogue == CameraSpec => []LastCatalogueDecides
<1>1. CatalogInv => LastCatalogueDecides
  BY DEF CatalogInv, ServedInv, LastCatalogueDecides
<1> QED
  BY <1>1, CatalogInvariance, PTL

\* A feature withdrawn before the time to live was last over is applied only
\* when the fetch for the toggle failed, however requests, answers, approvals
\* and withdrawals interleave.
THEOREM WithdrawnNotApplied == CameraSpec => []WithdrawnIsRefused
<1>1. CatalogInv => WithdrawnIsRefused
  BY DEF CatalogInv, AgeInv, WithdrawnIsRefused
<1> QED
  BY <1>1, CatalogInvariance, PTL

-----------------------------------------------------------------------------
(* One agent or the rules. *)

\* The agent that runs keeps its invariant; the others leave their state.
AgentsInv ==
    /\ DeliveryTypeOK
    /\ agent = "gift" => GiftInv
    /\ agent = "auction" => AgentInv
    /\ agent = "camera" => CatalogInv
    /\ gifts \in Seq(Contributions)

\* What the events of the instance say is what AuctionLedger lets them say.
LEMMA UpdatesAreUpdates == Updates \subseteq Update
<1>1. Max(Coins) \in Coins
  BY AgentsBounds, AuctionAssumption, MaxIsGreatest
<1> QED
  BY <1>1 DEF Updates, Nothing, Update, Terminal

\* Each of the agents starts as it does alone.
LEMMA AgentsInit == Init => AgentsInv
<1> SUFFICES ASSUME Init PROVE AgentsInv
  OBVIOUS
<1>1. DeliveryTypeOK
  BY DeliveryAssumption DEF Init, DeliveryStart, DeliveryTypeOK
<1>2. ASSUME agent = "gift" PROVE GiftInv
  <2>1. GiftInit
    BY <1>2 DEF Init, GiftInit
  <2> QED
    BY <2>1, GiftInitInv
<1>3. ASSUME agent = "auction" PROVE AgentInv
  <2>1. update \in [Events -> Update]
    BY <1>3, UpdatesAreUpdates DEF Init
  <2>2. AuctionInit
    BY <2>1 DEF Init, AuctionInit
  <2> QED
    BY <2>2, AgentInitInv
<1>4. ASSUME agent = "camera" PROVE CatalogInv
  <2>1. CameraInit
    BY <1>4 DEF Init, CameraInit
  <2> QED
    BY <2>1, CameraInitInv
<1>5. gifts \in Seq(Contributions)
  BY DEF Init
<1> QED
  BY <1>1, <1>2, <1>3, <1>4, <1>5 DEF AgentsInv

\* Each step is one of the agent that runs, or a contribution more.
LEMMA AgentsStep ==
    ASSUME AgentsInv, [Next]_vars
    PROVE  AgentsInv'
<1>1. CASE agent = "gift" /\ GiftNext /\ UNCHANGED <<auctionVars, cameraVars, agent, gifts>>
  <2>1. GiftInv'
    BY <1>1, GiftStep DEF AgentsInv
  <2> QED
    BY <1>1, <2>1 DEF AgentsInv, GiftInv
<1>2. CASE agent = "auction" /\ AuctionNext /\ UNCHANGED <<giftVars, cameraVars, agent, gifts>>
  <2>1. AgentInv'
    BY <1>2, AgentStep DEF AgentsInv
  <2> QED
    BY <1>2, <2>1 DEF AgentsInv, AgentInv, AuctionInv
<1>3. CASE agent = "camera" /\ CameraNext /\ UNCHANGED <<giftVars, auctionVars, agent, gifts>>
  <2>1. CatalogInv'
    BY <1>3, CameraStep DEF AgentsInv
  <2> QED
    BY <1>3, <2>1 DEF AgentsInv, CatalogInv
<1>4. CASE agent = "rules" /\ AddContribution
  <2>1. PICK g \in Contributions : gifts' = Append(gifts, g)
    BY <1>4 DEF AddContribution
  <2>2. gifts' \in Seq(Contributions)
    BY <2>1 DEF AgentsInv
  <2>3. DeliveryTypeOK'
    BY <1>4 DEF AddContribution, AgentsInv, deliveryVars, DeliveryTypeOK
  <2>4. agent' = "rules"
    BY <1>4 DEF AddContribution
  <2> QED
    BY <2>2, <2>3, <2>4 DEF AgentsInv
<1>5. CASE UNCHANGED vars
  <2>1. UNCHANGED <<deliveryVars, giftVars, auctionVars, cameraVars, agent, gifts>>
    BY <1>5 DEF vars
  <2>2. agent = "gift" => GiftInv'
    BY <2>1, GiftStep DEF AgentsInv
  <2>3. agent = "auction" => AgentInv'
    BY <2>1, AgentStep DEF AgentsInv
  <2>4. agent = "camera" => CatalogInv'
    BY <2>1, CameraStep DEF AgentsInv
  <2>5. DeliveryTypeOK'
    BY <2>1 DEF AgentsInv, deliveryVars, DeliveryTypeOK
  <2> QED
    BY <2>1, <2>2, <2>3, <2>4, <2>5 DEF AgentsInv
<1> QED
  BY <1>1, <1>2, <1>3, <1>4, <1>5 DEF Next

\* Whichever agent runs, it keeps its invariant.
THEOREM AgentsInvariance == Spec => []AgentsInv
<1>1. AgentsInv /\ [Next]_vars => AgentsInv'
  BY AgentsStep
<1> QED
  BY AgentsInit, <1>1, PTL DEF Spec

\* Every state of the agent that runs is well typed.
THEOREM AgentsTyped == Spec => []TypeOK
<1>1. AgentsInv => TypeOK
  BY AgentTyped DEF AgentsInv, GiftInv, CatalogInv, TypeOK
<1> QED
  BY <1>1, AgentsInvariance, PTL

\* The contributions are as the rules expect them.
LEMMA ContributionsFit ==
    Contribution(Contributions) /\ \A c \in Contributions : c.event \in 1 .. MaxGifts
<1>1. \A c \in Contributions :
          c \in [event : 1 .. MaxGifts, user : Users, coins : Coins, at : {1, 2}, outcome : Outcomes]
  BY Zenon DEF Contributions
<1>2. \A c \in Contributions :
          c.event \in 1 .. MaxGifts /\ c.user \in Users /\ c.coins \in Coins /\ c.at \in {1, 2}
  BY <1>1
<1>3. NoUser \notin Users /\ \A x \in Coins : x \in Nat
  BY AuctionAssumption
<1>4. \A c \in Contributions : c.coins \in Nat /\ c.at \in Nat /\ c.user # NoUser
  BY <1>2, <1>3
<1> QED
  BY <1>2, <1>4 DEF Contribution

\* However many gifts of how many users and events, and however many copies:
\* the winner of resolve_purchase_eligibility is one the reference allows,
\* under both policies and whatever was seen before.
THEOREM RulesMeet == Spec => []RulesMeetReference
<1>1. AgentsInv => RulesMeetReference
  <2> SUFFICES ASSUME AgentsInv, NEW tieBreak \in TieBreaks, NEW seen \in {{}, {1}}
               PROVE  LET result == Resolve(gifts, seen, tieBreak) IN
                      /\ MayWin(gifts, seen, tieBreak, result.winner)
                      /\ result.winner # NoUser =>
                            result.coins = Worth(gifts, Counted(gifts, seen), result.winner)
    BY DEF RulesMeetReference
  <2> DEFINE E == (1 .. MaxGifts) \cup {1}
  <2>1. gifts \in Seq(Contributions) /\ seen \in SUBSET E
    BY DEF AgentsInv
  <2>2. Contribution(Contributions) /\ \A c \in Contributions : c.event \in E
    BY ContributionsFit
  <2> HIDE DEF E
  <2>3. DecidesRight(gifts, seen, tieBreak)
    BY <2>1, <2>2, RulesDecideRight
  <2> QED
    BY <2>3 DEF DecidesRight
<1> QED
  BY <1>1, AgentsInvariance, PTL

\* The gifts of a list are those of its reverse.
LEMMA ReverseGifts ==
    ASSUME NEW C, NEW list \in Seq(C)
    PROVE  /\ Reverse(list) \in Seq(C)
           /\ Worthy(Reverse(list)) = Worthy(list)
           /\ CopiesAgree(list) => CopiesAgree(Reverse(list))
<1> DEFINE n == Len(list)
           other == Reverse(list)
<1>1. n \in Nat /\ DOMAIN list = 1 .. n
  OBVIOUS
<1>2. other = [i \in 1 .. n |-> list[(n - i) + 1]]
  BY DEF Reverse
<1> HIDE DEF n, other
<1>3. \A i \in 1 .. n : (n - i) + 1 \in 1 .. n /\ (n - ((n - i) + 1)) + 1 = i
  BY <1>1
<1>4. DOMAIN other = 1 .. n /\ \A i \in 1 .. n : other[i] = list[(n - i) + 1] /\ list[i] = other[(n - i) + 1]
  BY <1>2, <1>3
<1>5. other \in Seq(C)
  <2>1. other \in [1 .. n -> C]
    BY <1>1, <1>2, <1>3
  <2> QED
    BY <1>1, <2>1, IsASeq
<1>6. {other[i] : i \in DOMAIN other} = {list[i] : i \in DOMAIN list}
  BY <1>1, <1>3, <1>4
<1>7. Worthy(other) = Worthy(list)
  BY <1>6 DEF Worthy
<1>8. CopiesAgree(list) => CopiesAgree(other)
  BY <1>1, <1>3, <1>4 DEF CopiesAgree
<1> QED
  BY <1>5, <1>7, <1>8 DEF other

\* When copies agree, the order of delivery does not decide: what the rules
\* arrive at from the other end of the list may win as well.
THEOREM OrderIsFree == Spec => []OrderDoesNotDecide
<1>1. AgentsInv => OrderDoesNotDecide
  <2> SUFFICES ASSUME AgentsInv, CopiesAgree(gifts), NEW tieBreak \in TieBreaks
               PROVE  MayWin(gifts, {}, tieBreak, Resolve(Reverse(gifts), {}, tieBreak).winner)
    BY DEF OrderDoesNotDecide
  <2> DEFINE other == Reverse(gifts)
             winner == Resolve(other, {}, tieBreak).winner
             E == 1 .. MaxGifts
  <2>1. gifts \in Seq(Contributions)
    BY DEF AgentsInv
  <2>2. other \in Seq(Contributions) /\ Worthy(other) = Worthy(gifts) /\ CopiesAgree(other)
    BY <2>1, ReverseGifts
  <2>3. Contribution(Contributions) /\ \A c \in Contributions : c.event \in E
    BY ContributionsFit
  <2>4. {} \in SUBSET E
    OBVIOUS
  <2> HIDE DEF other, E
  <2>5. MayWin(other, {}, tieBreak, winner)
    <3>1. DecidesRight(other, {}, tieBreak)
      BY <2>2, <2>3, <2>4, RulesDecideRight
    <3> QED
      BY <3>1 DEF DecidesRight
  <2> HIDE DEF winner
  <2>6. MayWin(gifts, {}, tieBreak, winner)
    BY <2>1, <2>2, <2>3, <2>5, SameGiftsSameWinners
  <2> QED
    BY <2>6 DEF winner, other
<1> QED
  BY <1>1, AgentsInvariance, PTL
=============================================================================
