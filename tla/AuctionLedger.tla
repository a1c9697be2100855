--------------------------- MODULE AuctionLedger ---------------------------
(***************************************************************************)
(* live_auction_agent: keeps every gift contribution that comes with an    *)
(* auctionUpdated event in a durable ledger, publishes the leaderboard,    *)
(* and checks the backend's winner against the one the auction rules give. *)
(*                                                                         *)
(* A ledger is one TaskRecord, written with two commands: the record, and  *)
(* the index that all_active lists.  Its status is always "dispatched", so *)
(* that no listing ever removes it from the index.  The consumer thread is *)
(* the only one that writes.  liveGiftCombo, liveEnded and an update       *)
(* without auctionId change nothing: they are updates of NoAuction.        *)
(***************************************************************************)
EXTENDS Delivery, AuctionRules

CONSTANTS
    Auctions, NoAuction,
    Users,
    Coins,         \* what a gift may contribute, 0 included
    TieBreak       \* AUCTION_TIE_BREAK_POLICY

ASSUME AuctionAssumption ==
    NoUser \notin Users /\ NoAuction \notin Auctions /\ Coins \subseteq Nat /\ TieBreak \in TieBreaks

VARIABLES
    update,    \* what each event says, the same in every copy
    ledgers,   \* the record of each auction
    index,     \* the SET {prefix}:dispatched
    board,     \* per auction, the leaderboard published last
    verdicts   \* auction.settled and auction.disputed published

auctionVars == <<update, ledgers, index, board, verdicts>>

Terminal == {"COMPLETED", "CANCELLED", "EXPIRED"}

\* No lastGift, or one without sender or coins, is a gift of NoUser.
Update == [auction : Auctions \cup {NoAuction}, sender : Users \cup {NoUser}, coins : Coins, at : Nat,
           winner : Users \cup {NoUser}, status : Terminal \cup {"ACTIVE"}]

\* A contribution is kept as the event it came with.
Ledger == [contributions : Seq(Events), seen : SUBSET Events,
           winner : Users \cup {NoUser}, status : Terminal \cup {"ACTIVE", "none"}]

FreshLedger == [contributions |-> << >>, seen |-> {}, winner |-> NoUser, status |-> "none"]

Verdict == [event : Events, settled : BOOLEAN, seen : SUBSET Events]

AuctionTypeOK ==
    /\ update \in [Events -> Update]
    /\ pc \in {"idle", "handle", "save", "index", "board", "judge", "returned", "ack"}
    /\ ledgers \in [Auctions -> Ledger]
    /\ index \subseteq Auctions
    /\ board \in [Auctions -> [Users -> Nat]]
    /\ verdicts \subseteq Verdict

AuctionStart ==
    /\ ledgers = [a \in Auctions |-> FreshLedger]
    /\ index = {}
    /\ board = [a \in Auctions |-> [u \in Users |-> 0]]
    /\ verdicts = {}

AuctionInit == DeliveryStart /\ update \in [Events -> Update] /\ AuctionStart

TakeUpdate(e) == Take(e) /\ UNCHANGED auctionVars

Auction == update[cur].auction

\* get_or_create.
ReadLedger ==
    /\ pc = "handle"
    /\ Goto(IF Auction = NoAuction THEN "ack" ELSE "save")
    /\ UNCHANGED auctionVars

\* Mutant: every copy contributes.
UpdatedByCopies(ledger, e) ==
    [contributions |-> IF update[e].sender # NoUser THEN Append(ledger.contributions, e) ELSE ledger.contributions,
     seen   |-> ledger.seen \cup {e},
     winner |-> update[e].winner,
     status |-> update[e].status]

\* The ledger after an update: the gift, unless this event was ledgered
\* before, and the backend's winner and status whatever they were.
Updated(ledger, e) ==
    LET gives == update[e].sender # NoUser /\ e \notin ledger.seen IN
    [contributions |-> IF gives THEN Append(ledger.contributions, e) ELSE ledger.contributions,
     seen   |-> IF gives THEN ledger.seen \cup {e} ELSE ledger.seen,
     winner |-> update[e].winner,
     status |-> update[e].status]

SetLedger ==
    /\ pc = "save"
    /\ ledgers' = [ledgers EXCEPT ![Auction] = Updated(@, cur)]
    /\ Goto("index")
    /\ UNCHANGED <<update, index, board, verdicts>>

\* Mutant: the save ends with its first command.
SkipIndex ==
    /\ pc = "index"
    /\ Goto("board")
    /\ UNCHANGED auctionVars

IndexLedger ==
    /\ pc = "index"
    /\ index' = index \cup {Auction}
    /\ Goto("board")
    /\ UNCHANGED <<update, ledgers, board, verdicts>>

\* The list of GiftContributions; their flags are never set.
Gifts(ledger) ==
    [i \in DOMAIN ledger.contributions |->
        LET e == ledger.contributions[i] IN
        [event |-> e, user |-> update[e].sender, coins |-> update[e].coins,
         at |-> update[e].at, outcome |-> "ok"]]

\* The rows of _publish_leaderboard; a user without contributions has none.
Leaderboard(ledger) ==
    LET sums == Totals(Gifts(ledger))
    IN  [u \in Users |-> IF u \in DOMAIN sums THEN sums[u] ELSE 0]

\* Mutant: the handler ends with the leaderboard.
PublishBoardOnly ==
    /\ pc = "board"
    /\ board' = [board EXCEPT ![Auction] = Leaderboard(ledgers[Auction])]
    /\ Goto("returned")
    /\ UNCHANGED <<update, ledgers, index, verdicts>>

PublishBoard ==
    /\ pc = "board"
    /\ board' = [board EXCEPT ![Auction] = Leaderboard(ledgers[Auction])]
    /\ Goto(IF ledgers[Auction].status = "COMPLETED" THEN "judge" ELSE "returned")
    /\ UNCHANGED <<update, ledgers, index, verdicts>>

\* Mutant: the gift that came last is not in the list yet.
DisagreesBefore(ledger) ==
    LET agentWinner == Resolve(Front(Gifts(ledger)), {}, TieBreak).winner
    IN  NoUser \notin {ledger.winner, agentWinner} /\ ledger.winner # agentWinner

\* Both the backend and the rules name a winner, and not the same.
Disagrees(ledger) ==
    LET agentWinner == Resolve(Gifts(ledger), {}, TieBreak).winner
    IN  NoUser \notin {ledger.winner, agentWinner} /\ ledger.winner # agentWinner

\* _cross_check_winner.
CrossCheck ==
    /\ pc = "judge"
    /\ verdicts' = verdicts \cup {[event |-> cur, settled |-> ~Disagrees(ledgers[Auction]),
                                   seen |-> ledgers[Auction].seen]}
    /\ Goto("returned")
    /\ UNCHANGED <<update, ledgers, index, board>>

AuctionReturned == Acknowledge /\ UNCHANGED auctionVars
AuctionFault == (Raise \/ Restart) /\ UNCHANGED auctionVars

AuctionNext ==
    \/ \E e \in Events : TakeUpdate(e)
    \/ ReadLedger \/ SetLedger \/ IndexLedger \/ PublishBoard \/ CrossCheck
    \/ AuctionReturned \/ AuctionFault

AuctionSpec == AuctionInit /\ [][AuctionNext]_<<deliveryVars, auctionVars>>

\* all_active, counted by active_sessions_count.
AllActive == {a \in index : ledgers[a].status \notin Terminal}

-----------------------------------------------------------------------------
(* What the agent promises. *)

\* The events that brought auction a a gift of u.
GiftsOf(a, u, events) == {e \in events : update[e].auction = a /\ update[e].sender = u}
CoinsOf(a, u, events) == SumFunctionOnSet([e \in events |-> update[e].coins], GiftsOf(a, u, events))

\* Every contribution is ledgered exactly once.  The leaderboard published
\* last credits each user with every gift the agent is done with, and with no
\* gift twice, over copies, retries, giving up and restarts.
BoardIsTheSum ==
    \A a \in Auctions, u \in Users :
        board[a][u] \in CoinsOf(a, u, handled) .. CoinsOf(a, u, arrived)

\* Every update that says COMPLETED and whose handling returned had the
\* winner cross-checked.
CompletedIsChecked ==
    \A e \in handled : update[e].status = "COMPLETED" /\ update[e].auction # NoAuction
                          => \E v \in verdicts : v.event = e

\* The gifts of a set of events, in any order.
AnyOrder(events) == LET order == SetToSeq(events) IN Gifts([contributions |-> order])

\* w may win by the gifts ledgered when the verdict was given.
MayTake(v, w) == MayWin(AnyOrder(v.seen), {}, TieBreak, w)

\* Between two named winners the verdict is right: no user is confirmed in
\* place of the one the rules entitle, in whatever order and however often
\* the gifts came, and a dispute is raised only if the rules may name
\* somebody else than the backend does.
NamedWinnersJudged ==
    \A v \in verdicts :
        LET claimed == update[v.event].winner
        IN  IF v.settled
            THEN claimed = NoUser \/ MayTake(v, NoUser) \/ MayTake(v, claimed)
            ELSE \E w \in (Users \cup {NoUser}) \ {claimed} : MayTake(v, w)

\* What the agent documents: any mismatch with the backend's winner is
\* disputed, so that one is settled only if the rules allow the same, be it a
\* user or nobody.
MismatchIsDisputed == \A v \in verdicts : v.settled => MayTake(v, update[v.event].winner)

\* An auction with a handled update that is not over in its ledger is counted
\* as active, whatever raised or died between SET and SADD.
ActiveIsCounted ==
    \A a \in Auctions : ledgers[a].status = "ACTIVE" /\ (\E e \in handled : update[e].auction = a)
                           => a \in AllActive
=============================================================================
