------------------------------ MODULE MCAgents ------------------------------
(***************************************************************************)
(* Model checking of the three agents that share nothing but the way they  *)
(* handle an event, and of the auction rules: a behaviour runs one of      *)
(* them, chosen at its start.                                              *)
(***************************************************************************)
EXTENDS GiftEffects, AuctionLedger, CameraCatalog

CONSTANT MaxGifts   \* bound: contributions the auction rules are given

ASSUME AgentsBounds == MaxGifts \in Nat /\ IsFiniteSet(Coins) /\ Coins # {}

VARIABLES
    agent,   \* which of them runs
    gifts    \* the contributions the auction rules are given

\* Events are told apart by what they carry, users by their gifts.
Symmetry == Permutations(Events) \cup Permutations(Users)

vars == <<deliveryVars, giftVars, auctionVars, cameraVars, agent, gifts>>

\* What the events say to the agent that does not run.
Nothing == [auction |-> NoAuction, sender |-> NoUser, coins |-> Max(Coins), at |-> 1,
            winner |-> NoUser, status |-> "ACTIVE"]

\* One auction, or an update of none; a winner is only claimed at the end.
Updates ==
    LET Of(status, winners) ==
            [auction : Auctions, sender : Users \cup {NoUser}, coins : Coins, at : {1, 2},
             winner : winners, status : {status}]
        NoGift(u) == u.sender = NoUser => u.coins = Max(Coins) /\ u.at = 1
    IN  {u \in Of("ACTIVE", {NoUser}) \cup Of("COMPLETED", Users \cup {NoUser}) : NoGift(u)} \cup {Nothing}

\* Contributions: copies of an event may differ, the rules do not know.
Contributions ==
    {g \in [event : 1 .. MaxGifts, user : Users, coins : Coins, at : {1, 2}, outcome : Outcomes] :
        g.outcome # "ok" => g.coins = Max(Coins) /\ g.at = 1}

Init ==
    /\ DeliveryStart /\ GiftStart /\ AuctionStart /\ CameraStart
    /\ agent \in {"gift", "auction", "camera", "rules"}
    /\ gift \in [Events -> IF agent = "gift" THEN GiftContents ELSE {"bare"}]
    /\ update \in [Events -> IF agent = "auction" THEN Updates ELSE {Nothing}]
    /\ request \in [Events -> IF agent = "camera" THEN CameraContents ELSE {"settings"}]
    /\ enabled \in IF agent = "camera" THEN BOOLEAN ELSE {FALSE}
    /\ approved = {} /\ gifts = << >>

AddContribution ==
    /\ Len(gifts) < MaxGifts
    /\ \E g \in Contributions : gifts' = Append(gifts, g)
    /\ UNCHANGED <<deliveryVars, giftVars, auctionVars, cameraVars, agent>>

Next ==
    \/ agent = "gift" /\ GiftNext /\ UNCHANGED <<auctionVars, cameraVars, agent, gifts>>
    \/ agent = "auction" /\ AuctionNext /\ UNCHANGED <<giftVars, cameraVars, agent, gifts>>
    \/ agent = "camera" /\ CameraNext /\ UNCHANGED <<giftVars, auctionVars, agent, gifts>>
    \/ agent = "rules" /\ AddContribution

Spec == Init /\ [][Next]_vars

TypeOK ==
    /\ DeliveryTypeOK
    /\ agent = "gift" => GiftTypeOK
    /\ agent = "auction" => AuctionTypeOK
    /\ agent = "camera" => CameraTypeOK

-----------------------------------------------------------------------------
\* The rules' winner is one the reference allows, whatever was contributed,
\* under both policies and whatever was seen before; and his coins are what
\* his counted contributions are worth.
RulesMeetReference ==
    \A tieBreak \in TieBreaks, seen \in {{}, {1}} :
        LET result == Resolve(gifts, seen, tieBreak) IN
        /\ MayWin(gifts, seen, tieBreak, result.winner)
        /\ result.winner # NoUser =>
              result.coins = Worth(gifts, Counted(gifts, seen), result.winner)

\* When copies of an event agree, the order of delivery does not decide:
\* the other way round the same user wins, but for users who gave as much
\* and started at the same time.
OrderDoesNotDecide ==
    CopiesAgree(gifts) =>
        \A tieBreak \in TieBreaks :
            MayWin(gifts, {}, tieBreak, Resolve(Reverse(gifts), {}, tieBreak).winner)
=============================================================================
