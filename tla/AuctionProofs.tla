---------------------------- MODULE AuctionProofs ----------------------------
(***************************************************************************)
(* Proofs about AuctionLedger, for any number of auctions, users, events,  *)
(* copies, faults and deaths: the leaderboard adds up, the verdicts are    *)
(* right, COMPLETED updates get one and active auctions are counted.       *)
(*                                                                         *)
(* The invariant has four parts: what the handler has saved at which       *)
(* command (AuctionInv); that a ledger holds every gift the agent is done  *)
(* with once (KeptInv); that a leaderboard shows a set of events between   *)
(* those handled and those that came (BoardInv); and the verdicts.  What   *)
(* the sums and the rules compute comes from RulesProofs.                  *)
(***************************************************************************)
EXTENDS AuctionLedger, RulesProofs

(* What is saved. *)

\* What the handler has saved when it stands at a command after the save.
SavedInv ==
    /\ pc \in {"save", "index", "board", "judge", "returned"} => Auction \in Auctions
    /\ pc \in {"index", "board"} => ledgers[Auction].status = update[cur].status
    /\ pc \in {"board", "judge", "returned"} => Auction \in index
    /\ pc = "returned" /\ update[cur].status = "COMPLETED" => \E v \in verdicts : v.event = cur

\* ... and what that leaves behind when it has returned.
HandledInv ==
    /\ \A e \in handled : update[e].auction \in index
    /\ \A e \in handled : update[e].status = "COMPLETED" => \E v \in verdicts : v.event = e

\* The types the argument needs.
ShapeInv ==
    /\ update \in [Events -> Update]
    /\ DOMAIN ledgers = Auctions
    /\ index \subseteq Auctions
    /\ pc \in {"idle", "handle", "save", "index", "board", "judge", "returned", "ack"}

AuctionInv == DeliveryTypeOK /\ ShapeInv /\ SavedInv /\ HandledInv

\* No ledger yet, and nothing handled.
LEMMA AuctionInitInv == AuctionInit => AuctionInv
<1> SUFFICES ASSUME AuctionInit PROVE AuctionInv
  OBVIOUS
<1> USE DeliveryAssumption DEF AuctionInit, DeliveryStart, AuctionStart
<1>1. DeliveryTypeOK
  BY DEF DeliveryTypeOK
<1>2. ShapeInv /\ SavedInv /\ HandledInv
  BY DEF ShapeInv, SavedInv, HandledInv
<1> QED
  BY <1>1, <1>2 DEF AuctionInv

\* Taking an update, and finding out whether it is about an auction.
LEMMA ReadKeepsInv ==
    ASSUME AuctionInv, (\E e \in Events : TakeUpdate(e)) \/ ReadLedger
    PROVE  AuctionInv'
<1> USE DeliveryAssumption DEF AuctionInv, auctionVars
<1>1. ASSUME NEW e \in Events, TakeUpdate(e) PROVE AuctionInv'
  <2>1. DeliveryTypeOK'
    BY <1>1 DEF TakeUpdate, Take, DeliveryTypeOK
  <2>2. ShapeInv' /\ SavedInv' /\ HandledInv'
    BY <1>1 DEF TakeUpdate, Take, ShapeInv, SavedInv, HandledInv
  <2> QED
    BY <2>1, <2>2
<1>2. CASE ReadLedger
  <2>1. cur \in Events /\ update[cur] \in Update
    BY <1>2 DEF ReadLedger, DeliveryTypeOK, ShapeInv
  <2>2. DeliveryTypeOK'
    BY <1>2 DEF ReadLedger, Goto, DeliveryTypeOK
  <2>3. ShapeInv' /\ HandledInv'
    BY <1>2 DEF ReadLedger, Goto, ShapeInv, HandledInv
  <2>4. SavedInv'
    BY <1>2, <2>1 DEF ReadLedger, Goto, SavedInv, Auction, Update
  <2> QED
    BY <2>2, <2>3, <2>4
<1> QED
  BY <1>1, <1>2

\* The two commands of the save.
LEMMA SaveKeepsInv ==
    ASSUME AuctionInv, SetLedger \/ IndexLedger
    PROVE  AuctionInv'
<1> USE DEF AuctionInv, Goto, Auction
<1>1. CASE SetLedger
  <2>1. DeliveryTypeOK'
    BY <1>1 DEF SetLedger, DeliveryTypeOK
  <2>2. ShapeInv' /\ HandledInv'
    BY <1>1 DEF SetLedger, ShapeInv, HandledInv
  <2>3. ledgers'[Auction] = Updated(ledgers[Auction], cur)
    BY <1>1 DEF SetLedger, ShapeInv, SavedInv
  <2>4. SavedInv'
    BY <1>1, <2>3 DEF SetLedger, SavedInv, Updated
  <2> QED
    BY <2>1, <2>2, <2>4
<1>2. CASE IndexLedger
  <2>1. DeliveryTypeOK'
    BY <1>2 DEF IndexLedger, DeliveryTypeOK
  <2>2. ShapeInv' /\ HandledInv' /\ SavedInv'
    BY <1>2 DEF IndexLedger, ShapeInv, HandledInv, SavedInv
  <2> QED
    BY <2>1, <2>2
<1> QED
  BY <1>1, <1>2

\* The leaderboard, and the verdict a COMPLETED ledger leads to.
LEMMA PublishKeepsInv ==
    ASSUME AuctionInv, PublishBoard \/ CrossCheck
    PROVE  AuctionInv'
<1> USE DEF AuctionInv, Goto, Auction
<1>1. CASE PublishBoard
  <2>1. DeliveryTypeOK'
    BY <1>1 DEF PublishBoard, DeliveryTypeOK
  <2>2. ShapeInv' /\ HandledInv' /\ SavedInv'
    BY <1>1 DEF PublishBoard, ShapeInv, HandledInv, SavedInv
  <2> QED
    BY <2>1, <2>2
<1>2. CASE CrossCheck
  <2> DEFINE verdict == [event |-> cur, settled |-> ~Disagrees(ledgers[Auction]),
                         seen |-> ledgers[Auction].seen]
  <2>1. verdicts' = verdicts \cup {verdict} /\ verdict.event = cur
    BY <1>2 DEF CrossCheck
  <2>2. DeliveryTypeOK' /\ ShapeInv'
    BY <1>2 DEF CrossCheck, DeliveryTypeOK, ShapeInv
  <2>3. pc = "judge" /\ pc' = "returned" /\ UNCHANGED <<update, ledgers, index, board, cur, handled>>
    BY <1>2 DEF CrossCheck
  <2> HIDE DEF verdict
  <2>4. HandledInv' /\ SavedInv'
    BY <2>1, <2>3 DEF HandledInv, SavedInv
  <2> QED
    BY <2>2, <2>4
<1> QED
  BY <1>1, <1>2

\* The end of the handling, well or not.
LEMMA EndKeepsInv ==
    ASSUME AuctionInv, AuctionReturned \/ AuctionFault
    PROVE  AuctionInv'
<1> USE DeliveryAssumption DEF AuctionInv, auctionVars
<1>1. CASE AuctionReturned
  <2>1. handled' \subseteq arrived' /\ arrived' \subseteq Events
    BY <1>1 DEF AuctionReturned, Acknowledge, Idle, DeliveryTypeOK
  <2>2. DeliveryTypeOK'
    BY <1>1, <2>1 DEF AuctionReturned, Acknowledge, Idle, DeliveryTypeOK
  <2>3. ShapeInv' /\ SavedInv'
    BY <1>1 DEF AuctionReturned, Acknowledge, Idle, ShapeInv, SavedInv
  <2>4. \A e \in handled' : e \in handled \/ (pc = "returned" /\ e = cur)
    BY <1>1 DEF AuctionReturned, Acknowledge
  <2>5. HandledInv'
    BY <1>1, <2>4 DEF AuctionReturned, HandledInv, SavedInv, Auction
  <2> QED
    BY <2>2, <2>3, <2>5
<1>2. CASE AuctionFault /\ Raise
  <2>1. DeliveryTypeOK'
    BY <1>2 DEF Raise, DeliveryTypeOK
  <2>2. ShapeInv' /\ SavedInv' /\ HandledInv'
    BY <1>2 DEF AuctionFault, Raise, ShapeInv, SavedInv, HandledInv
  <2> QED
    BY <2>1, <2>2
<1>3. CASE AuctionFault /\ Restart
  <2>1. DeliveryTypeOK'
    BY <1>3 DEF Restart, Idle, DeliveryTypeOK
  <2>2. ShapeInv' /\ SavedInv' /\ HandledInv'
    BY <1>3 DEF AuctionFault, Restart, Idle, ShapeInv, SavedInv, HandledInv
  <2> QED
    BY <2>1, <2>2
<1> QED
  BY <1>1, <1>2, <1>3 DEF AuctionFault

\* So does every step of the agent.
LEMMA SavedStep ==
    ASSUME AuctionInv, [AuctionNext]_<<deliveryVars, auctionVars>>
    PROVE  AuctionInv'
<1>1. CASE (\E e \in Events : TakeUpdate(e)) \/ ReadLedger
  BY <1>1, ReadKeepsInv
<1>2. CASE SetLedger \/ IndexLedger
  BY <1>2, SaveKeepsInv
<1>3. CASE PublishBoard \/ CrossCheck
  BY <1>3, PublishKeepsInv
<1>4. CASE AuctionReturned \/ AuctionFault
  BY <1>4, EndKeepsInv
<1>5. CASE UNCHANGED <<deliveryVars, auctionVars>>
  BY <1>5 DEF deliveryVars, auctionVars, AuctionInv, DeliveryTypeOK, ShapeInv, SavedInv, HandledInv, Auction
<1> QED
  BY <1>1, <1>2, <1>3, <1>4, <1>5 DEF AuctionNext

(* The ledger. *)

\* Event e brought auction a a gift.
Gives(e, a) == update[e].auction = a /\ update[e].sender # NoUser

\* A ledger holds every gift of the auction the agent is done with, and no
\* gift twice.
Kept(a) ==
    LET ledger == ledgers[a] IN
    /\ ledger \in Ledger
    /\ \A i, j \in DOMAIN ledger.contributions : ledger.contributions[i] = ledger.contributions[j] => i = j
    /\ ledger.seen = {ledger.contributions[i] : i \in DOMAIN ledger.contributions}
    /\ ledger.seen \subseteq arrived
    /\ \A e \in ledger.seen : Gives(e, a)
    /\ \A e \in handled : Gives(e, a) => e \in ledger.seen

\* What the save left there of the event in hand.
Saved ==
    /\ pc \in {"index", "board", "judge"} => ledgers[Auction].winner = update[cur].winner
    /\ pc \in {"index", "board", "judge", "returned"} /\ Gives(cur, Auction) => cur \in ledgers[Auction].seen

KeptInv ==
    /\ IsFiniteSet(arrived)
    /\ ledgers \in [Auctions -> Ledger]
    /\ \A a \in Auctions : Kept(a)
    /\ Saved

\* A step that leaves the ledgers alone keeps them so, as long as what it
\* adds to the handled events is in its ledger.
LEMMA KeptStays ==
  ASSUME KeptInv, UNCHANGED <<update, ledgers>>, arrived \subseteq arrived',
         \A e \in handled' : e \in handled \/ \A a \in Auctions : Gives(e, a) => e \in ledgers[a].seen
  PROVE  ledgers' \in [Auctions -> Ledger] /\ \A a \in Auctions : Kept(a)'
  <1>1. ASSUME NEW a \in Auctions PROVE Kept(a)'
    <2>1. Kept(a)
      BY DEF KeptInv
    <2> QED BY <2>1 DEF Kept, Gives
  <1> QED BY <1>1 DEF KeptInv

\* The ledger after the event in hand.
LEMMA UpdatedKept ==
  ASSUME KeptInv, AuctionInv, pc = "save"
  PROVE  LET old == ledgers[Auction]
             new == Updated(old, cur)
         IN  /\ new \in Ledger
             /\ \A i, j \in DOMAIN new.contributions : new.contributions[i] = new.contributions[j] => i = j
             /\ new.seen = {new.contributions[i] : i \in DOMAIN new.contributions}
             /\ old.seen \subseteq new.seen /\ new.seen \subseteq old.seen \cup {cur}
             /\ new.winner = update[cur].winner
             /\ cur \in new.seen => Gives(cur, Auction)
             /\ Gives(cur, Auction) => cur \in new.seen
  <1> DEFINE old == ledgers[Auction]
             new == Updated(old, cur)
  <1>1. Auction \in Auctions /\ cur \in Events /\ cur \in arrived /\ update[cur] \in Update
    BY DEF AuctionInv, SavedInv, DeliveryTypeOK, ShapeInv
  <1>2. /\ old \in Ledger
        /\ \A i, j \in DOMAIN old.contributions : old.contributions[i] = old.contributions[j] => i = j
        /\ old.seen = {old.contributions[i] : i \in DOMAIN old.contributions}
        /\ \A e \in old.seen : Gives(e, Auction)
    BY <1>1 DEF KeptInv, Kept
  <1>3. old.contributions \in Seq(Events) /\ old.seen \in SUBSET Events
    BY <1>2 DEF Ledger
  <1>4. update[cur].winner \in Users \cup {NoUser} /\ update[cur].status \in Terminal \cup {"ACTIVE", "none"}
    BY <1>1 DEF Update
  <1>5. new.winner = update[cur].winner /\ new.status = update[cur].status
    BY DEF Updated
  <1>6. CASE update[cur].sender # NoUser /\ cur \notin old.seen
    <2>1. new.contributions = Append(old.contributions, cur) /\ new.seen = old.seen \cup {cur}
      BY <1>6 DEF Updated
    <2>2. new \in Ledger
      <3>1. new = [contributions |-> new.contributions, seen |-> new.seen, winner |-> new.winner, status |-> new.status]
        BY DEF Updated
      <3>2. Append(old.contributions, cur) \in Seq(Events)
        BY <1>1, <1>3
      <3> HIDE DEF old, new
      <3> QED BY <1>1, <1>3, <1>4, <1>5, <2>1, <3>1, <3>2 DEF Ledger
    <2> DEFINE was == old.contributions
               is == new.contributions
               n == Len(was) + 1
    <2>3. /\ DOMAIN is = DOMAIN was \cup {n} /\ n \notin DOMAIN was
          /\ is[n] = cur /\ \A i \in DOMAIN was : is[i] = was[i]
      <3> HIDE DEF old, new
      <3> QED BY <1>3, <2>1
    <2>4. \A i \in DOMAIN was : was[i] # cur
      BY <1>2, <1>6
    <2>5. \A i, j \in DOMAIN is : is[i] = is[j] => i = j
      <3>1. \A i, j \in DOMAIN was : was[i] = was[j] => i = j
        BY <1>2
      <3> HIDE DEF is, was, n, old, new
      <3> QED BY <2>3, <2>4, <3>1
    <2>6. new.seen = {is[i] : i \in DOMAIN is}
      <3>1. old.seen = {was[i] : i \in DOMAIN was}
        BY <1>2
      <3> HIDE DEF is, was, n, old, new
      <3> QED BY <2>1, <2>3, <3>1
    <2>7. Gives(cur, Auction)
      BY <1>6 DEF Gives, Auction
    <2> HIDE DEF old, new
    <2> QED BY <1>5, <2>1, <2>2, <2>5, <2>6, <2>7 DEF old, new
  <1>7. CASE ~(update[cur].sender # NoUser /\ cur \notin old.seen)
    <2>1. new.contributions = old.contributions /\ new.seen = old.seen
      BY <1>7 DEF Updated
    <2>2. new \in Ledger
      <3>1. new = [contributions |-> new.contributions, seen |-> new.seen, winner |-> new.winner, status |-> new.status]
        BY DEF Updated
      <3> HIDE DEF old, new
      <3> QED BY <1>3, <1>4, <1>5, <2>1, <3>1 DEF Ledger
    <2>3. Gives(cur, Auction) => cur \in old.seen
      BY <1>7 DEF Gives
    <2> HIDE DEF old, new
    <2> QED BY <1>2, <1>5, <2>1, <2>2, <2>3 DEF old, new
  <1> QED BY <1>6, <1>7

\* The first ledgers are empty.
LEMMA KeptInit == AuctionInit => KeptInv
  <1> SUFFICES ASSUME AuctionInit PROVE KeptInv
    OBVIOUS
  <1> USE DEF AuctionInit, DeliveryStart, AuctionStart
  <1>1. IsFiniteSet(arrived)
    BY FS_EmptySet
  <1>2. ASSUME NEW a \in Auctions PROVE Kept(a)
    <2>1. ledgers[a] = FreshLedger
      OBVIOUS
    <2>2. FreshLedger \in Ledger
      BY DEF FreshLedger, Ledger
    <2>3. ledgers[a].contributions = << >> /\ ledgers[a].seen = {} /\ handled = {}
      BY <2>1 DEF FreshLedger
    <2>4. DOMAIN << >> = {}
      OBVIOUS
    <2>5. ledgers[a].seen = {ledgers[a].contributions[i] : i \in DOMAIN ledgers[a].contributions}
      BY <2>3, <2>4
    <2>6. DOMAIN ledgers[a].contributions = {}
      BY <2>3, <2>4
    <2> QED BY <2>1, <2>2, <2>3, <2>5, <2>6 DEF Kept
  <1>3. ledgers \in [Auctions -> Ledger]
    BY DEF FreshLedger, Ledger
  <1> QED BY <1>1, <1>2, <1>3 DEF KeptInv, Saved

\* Every step keeps the ledgers in order.
LEMMA KeptStep ==
  ASSUME AuctionInv, KeptInv, [AuctionNext]_<<deliveryVars, auctionVars>>
  PROVE  KeptInv'
  <1> USE DEF auctionVars
  <1>0. IsFiniteSet(arrived) /\ Saved
    BY DEF KeptInv
  <1>1. ASSUME NEW e \in Events, TakeUpdate(e) PROVE KeptInv'
    <2>1. arrived' = arrived \cup {e} /\ handled' = handled /\ UNCHANGED <<update, ledgers>>
      BY <1>1 DEF TakeUpdate, Take
    <2>2. IsFiniteSet(arrived')
      BY <1>0, <2>1, FS_AddElement
    <2>3. ledgers' \in [Auctions -> Ledger] /\ \A a \in Auctions : Kept(a)'
      BY <2>1, KeptStays
    <2>4. Saved'
      BY <1>1 DEF TakeUpdate, Take, Saved
    <2> QED BY <2>2, <2>3, <2>4 DEF KeptInv
  <1>2. CASE ReadLedger \/ IndexLedger \/ PublishBoard \/ CrossCheck
    <2>1. UNCHANGED <<arrived, handled, cur, update, ledgers>>
      BY <1>2 DEF ReadLedger, IndexLedger, PublishBoard, CrossCheck, Goto
    <2>2. ledgers' \in [Auctions -> Ledger] /\ \A a \in Auctions : Kept(a)'
      BY <2>1, KeptStays
    <2>3. /\ pc' \in {"index", "board", "judge"} => pc \in {"index", "board", "judge"}
          /\ pc' \in {"index", "board", "judge", "returned"} => pc \in {"index", "board", "judge", "returned"}
      BY <1>2 DEF ReadLedger, IndexLedger, PublishBoard, CrossCheck, Goto
    <2>4. Saved'
      BY <1>0, <2>1, <2>3 DEF Saved, Auction, Gives
    <2> QED BY <1>0, <2>1, <2>2, <2>4 DEF KeptInv
  <1>3. CASE SetLedger
    <2> DEFINE old == ledgers[Auction]
               new == Updated(old, cur)
    <2>1. pc = "save" /\ pc' = "index" /\ UNCHANGED <<arrived, handled, cur, update>>
      BY <1>3 DEF SetLedger, Goto
    <2>2. Auction \in Auctions /\ cur \in arrived
      BY <2>1 DEF AuctionInv, SavedInv, DeliveryTypeOK, ShapeInv
    <2>3. ledgers'[Auction] = new /\ \A a \in Auctions \ {Auction} : ledgers'[a] = ledgers[a]
      BY <1>3, <2>2 DEF SetLedger, AuctionInv, ShapeInv
    <2>4. /\ new \in Ledger
          /\ \A i, j \in DOMAIN new.contributions : new.contributions[i] = new.contributions[j] => i = j
          /\ new.seen = {new.contributions[i] : i \in DOMAIN new.contributions}
          /\ old.seen \subseteq new.seen /\ new.seen \subseteq old.seen \cup {cur}
          /\ new.winner = update[cur].winner
          /\ cur \in new.seen => Gives(cur, Auction)
          /\ Gives(cur, Auction) => cur \in new.seen
      BY <2>1, UpdatedKept
    <2>5. Auction' = Auction
      BY <2>1 DEF Auction
    <2>6. ASSUME NEW a \in Auctions PROVE Kept(a)'
      <3>1. Kept(a) /\ Kept(Auction)
        BY <2>2 DEF KeptInv
      <3> HIDE DEF new
      <3>2. CASE a = Auction
        <4>1. ledgers'[a] = new
          BY <2>3, <3>2
        <4>2. (\A e \in new.seen : Gives(e, a)) /\ new.seen \subseteq arrived
          BY <2>2, <2>4, <3>1, <3>2 DEF Kept
        <4>3. \A e \in handled : Gives(e, a) => e \in new.seen
          BY <2>4, <3>1, <3>2 DEF Kept
        <4> HIDE DEF old
        <4> QED BY <2>1, <2>4, <4>1, <4>2, <4>3 DEF Kept, Gives
      <3>3. CASE a # Auction
        <4>1. ledgers'[a] = ledgers[a]
          BY <2>3, <3>3
        <4> QED BY <2>1, <3>1, <4>1 DEF Kept, Gives
      <3> QED BY <3>2, <3>3
    <2>7. Saved'
      <3> HIDE DEF new
      <3> QED BY <2>1, <2>3, <2>4, <2>5 DEF Saved, Gives
    <2>8. ledgers' \in [Auctions -> Ledger]
      <3>1. ledgers' = [ledgers EXCEPT ![Auction] = new] /\ ledgers \in [Auctions -> Ledger]
        BY <1>3 DEF SetLedger, KeptInv
      <3> HIDE DEF new
      <3> QED BY <2>4, <3>1
    <2> QED BY <1>0, <2>1, <2>6, <2>7, <2>8 DEF KeptInv
  <1>4. CASE AuctionReturned
    <2>1. UNCHANGED <<arrived, update, ledgers>> /\ pc' = "idle"
      BY <1>4 DEF AuctionReturned, Acknowledge, Idle
    <2>2. \A e \in handled' : e \in handled \/ (pc = "returned" /\ e = cur)
      BY <1>4 DEF AuctionReturned, Acknowledge
    <2>3. pc = "returned" => \A a \in Auctions : Gives(cur, a) => cur \in ledgers[a].seen
      BY <1>0 DEF Saved, Gives, Auction
    <2>4. ledgers' \in [Auctions -> Ledger] /\ \A a \in Auctions : Kept(a)'
      BY <2>1, <2>2, <2>3, KeptStays
    <2>5. Saved'
      BY <2>1 DEF Saved
    <2> QED BY <1>0, <2>1, <2>4, <2>5 DEF KeptInv
  <1>5. CASE AuctionFault
    <2>1. UNCHANGED <<arrived, handled, update, ledgers>> /\ pc' \in {"handle", "ack", "idle"}
      BY <1>5 DEF AuctionFault, Raise, Restart, Idle
    <2>2. ledgers' \in [Auctions -> Ledger] /\ \A a \in Auctions : Kept(a)'
      BY <2>1, KeptStays
    <2>3. Saved'
      BY <2>1 DEF Saved
    <2> QED BY <1>0, <2>1, <2>2, <2>3 DEF KeptInv
  <1>6. CASE UNCHANGED <<deliveryVars, auctionVars>>
    <2>1. UNCHANGED <<arrived, handled, update, ledgers, pc, cur>>
      BY <1>6 DEF deliveryVars
    <2>2. ledgers' \in [Auctions -> Ledger] /\ \A a \in Auctions : Kept(a)'
      BY <2>1, KeptStays
    <2>3. Saved'
      BY <1>0, <2>1 DEF Saved, Gives, Auction
    <2> QED BY <1>0, <2>1, <2>2, <2>3 DEF KeptInv
  <1> QED BY <1>1, <1>2, <1>3, <1>4, <1>5, <1>6 DEF AuctionNext

(* The gifts of a ledger. *)

Given == [event : Events, user : Users, coins : Coins, at : Nat, outcome : Outcomes]

GiftOf(e) == [event |-> e, user |-> update[e].sender, coins |-> update[e].coins,
              at |-> update[e].at, outcome |-> "ok"]

\* They are what the rules expect, and copies of an event would agree.
LEMMA GiftsAreGiven ==
  ASSUME update \in [Events -> Update], NEW ledger, ledger.contributions \in Seq(Events),
         \A i \in DOMAIN ledger.contributions : update[ledger.contributions[i]].sender # NoUser
  PROVE  /\ Contribution(Given) /\ \A c \in Given : c.event \in Events
         /\ Gifts(ledger) \in Seq(Given)
         /\ CopiesAgree(Gifts(ledger))
         /\ DOMAIN Gifts(ledger) = DOMAIN ledger.contributions
         /\ \A i \in DOMAIN ledger.contributions : Gifts(ledger)[i] = GiftOf(ledger.contributions[i])
  <1> DEFINE list == ledger.contributions
  <1>1. Contribution(Given) /\ \A c \in Given : c.event \in Events
    BY AuctionAssumption DEF Contribution, Given
  <1>2. Gifts(ledger) = [i \in DOMAIN list |-> GiftOf(list[i])]
    BY DEF Gifts, GiftOf
  <1>3. ASSUME NEW i \in DOMAIN list PROVE GiftOf(list[i]) \in Given
    <2>1. list[i] \in Events /\ update[list[i]] \in Update /\ update[list[i]].sender # NoUser
      OBVIOUS
    <2> HIDE DEF list
    <2> QED BY <2>1 DEF GiftOf, Given, Update, Outcomes
  <1>4. DOMAIN list = 1 .. Len(list) /\ Len(list) \in Nat
    OBVIOUS
  <1> HIDE DEF list
  <1>5. Gifts(ledger) \in Seq(Given)
    <2>1. Gifts(ledger) \in [1 .. Len(list) -> Given]
      BY <1>2, <1>3, <1>4
    <2> QED BY <1>4, <2>1, IsASeq
  <1>6. \A i \in DOMAIN list : Gifts(ledger)[i] = GiftOf(list[i])
    BY <1>2
  <1>7. CopiesAgree(Gifts(ledger))
    <2>1. \A e : GiftOf(e).event = e
      BY DEF GiftOf
    <2> QED BY <1>2, <1>6, <2>1 DEF CopiesAgree
  <1> QED BY <1>1, <1>2, <1>5, <1>6, <1>7 DEF list

\* CoinsOf adds up the same values, whichever events it is about.
Price == [e \in Events |-> update[e].coins]

\* The two sums are the same, of naturals.
LEMMA CoinsOfPrice ==
  ASSUME update \in [Events -> Update], NEW a, NEW u, NEW events \in SUBSET Events, IsFiniteSet(events)
  PROVE  /\ CoinsOf(a, u, events) = SumFunctionOnSet(Price, GiftsOf(a, u, events))
         /\ \A e \in Events : Price[e] \in Nat
         /\ GiftsOf(a, u, events) \in SUBSET events /\ IsFiniteSet(GiftsOf(a, u, events))
  <1> DEFINE S == GiftsOf(a, u, events)
             f == [e \in events |-> update[e].coins]
  <1>1. S \in SUBSET events
    BY DEF GiftsOf
  <1>2. IsFiniteSet(S)
    BY <1>1, FS_Subset
  <1>3. \A e \in Events : Price[e] = update[e].coins /\ Price[e] \in Nat
    BY AuctionAssumption DEF Price, Update
  <1>4. \A e \in S : f[e] \in Nat /\ Price[e] = f[e]
    BY <1>1, <1>3
  <1>5. SumFunctionOnSet(f, S) = SumFunctionOnSet(Price, S)
    <2> HIDE DEF S, f
    <2> QED BY <1>2, <1>4, SumSame
  <1> QED BY <1>1, <1>2, <1>3, <1>5 DEF CoinsOf

\* The leaderboard of a ledger credits each user with the gifts it has seen.
LEMMA LeaderboardSums ==
  ASSUME update \in [Events -> Update], NEW a \in Auctions, Kept(a), IsFiniteSet(arrived), arrived \in SUBSET Events
  PROVE  \A u \in Users : Leaderboard(ledgers[a])[u] = CoinsOf(a, u, ledgers[a].seen)
  <1> DEFINE ledger == ledgers[a]
             list == ledger.contributions
             gs == Gifts(ledger)
             seen == ledger.seen
  <1>1. /\ list \in Seq(Events) /\ seen \in SUBSET Events
        /\ \A i, j \in DOMAIN list : list[i] = list[j] => i = j
        /\ seen = {list[i] : i \in DOMAIN list}
        /\ \A i \in DOMAIN list : update[list[i]].auction = a /\ update[list[i]].sender # NoUser
    BY DEF Kept, Ledger, Gives
  <1>2. IsFiniteSet(seen)
    <2>1. seen \in SUBSET arrived
      BY DEF Kept
    <2> HIDE DEF seen
    <2> QED BY <2>1, FS_Subset
  <1> HIDE DEF ledger
  <1>3. /\ Contribution(Given) /\ gs \in Seq(Given) /\ DOMAIN gs = DOMAIN list
        /\ \A i \in DOMAIN list : gs[i] = GiftOf(list[i])
    BY <1>1, GiftsAreGiven
  <1> HIDE DEF gs, seen, list
  <1>4. Totals(gs) = [u \in UsersOf(gs) |-> SumFunctionOnSet(CoinsIn(gs), {i \in DOMAIN gs : gs[i].user = u})]
    <2>1. \A c \in Given : c.coins \in Nat
      BY <1>3 DEF Contribution
    <2> QED BY <1>3, <2>1, TotalsAreSums
  <1>5. ASSUME NEW u \in Users PROVE Leaderboard(ledger)[u] = CoinsOf(a, u, seen)
    <2> DEFINE mine == {i \in DOMAIN gs : gs[i].user = u}
               f == CoinsIn(gs)
    <2>1. \A i \in DOMAIN list : list[i] \in Events /\ gs[i].user = update[list[i]].sender /\ gs[i].coins = update[list[i]].coins
      BY <1>1, <1>3 DEF GiftOf
    <2>2. /\ CoinsOf(a, u, seen) = SumFunctionOnSet(Price, GiftsOf(a, u, seen))
          /\ \A e \in Events : Price[e] \in Nat
      BY <1>1, <1>2, CoinsOfPrice
    <2>3. {list[i] : i \in mine} = GiftsOf(a, u, seen)
      BY <1>1, <1>3, <2>1 DEF GiftsOf
    <2>4. IsFiniteSet(mine)
      <3>1. IsFiniteSet(DOMAIN gs) /\ mine \in SUBSET DOMAIN gs
        BY <1>3, FS_Interval
      <3> HIDE DEF mine
      <3> QED BY <3>1, FS_Subset
    <2>5. \A i \in mine : f[i] \in Nat /\ Price[list[i]] = f[i]
      BY <1>3, <2>1, <2>2 DEF CoinsIn, Price
    <2>6. SumFunctionOnSet(f, mine) = SumFunctionOnSet(Price, {list[i] : i \in mine})
      <3>1. \A i, j \in mine : list[i] = list[j] => i = j
        BY <1>1, <1>3
      <3> HIDE DEF mine, f
      <3> QED BY <2>4, <2>5, <3>1, SumImage
    <2>7. SumFunctionOnSet(f, mine) = CoinsOf(a, u, seen)
      <3> HIDE DEF mine, f
      <3> QED BY <2>2, <2>3, <2>6
    <2>8. Leaderboard(ledger)[u] = IF u \in DOMAIN Totals(gs) THEN Totals(gs)[u] ELSE 0
      BY DEF Leaderboard, gs
    <2>9. CASE u \in UsersOf(gs)
      <3>1. Totals(gs)[u] = SumFunctionOnSet(f, mine) /\ u \in DOMAIN Totals(gs)
        BY <1>4, <2>9
      <3> HIDE DEF f, mine
      <3> QED BY <2>7, <2>8, <3>1
    <2>10. CASE u \notin UsersOf(gs)
      <3>1. mine = {}
        BY <2>10 DEF UsersOf
      <3>2. u \notin DOMAIN Totals(gs)
        BY <1>4, <2>10
      <3> HIDE DEF f, mine
      <3>3. SumFunctionOnSet(f, mine) = 0
        BY <2>4, <3>1, SumFirst
      <3> QED BY <2>7, <2>8, <3>2, <3>3
    <2> QED BY <2>9, <2>10
  <1> QED BY <1>5 DEF ledger, seen

(* The leaderboard. *)

\* The leaderboard of auction a shows the gifts of the events in shown, all
\* the agent is done with among them.
Shows(a, shown) ==
    /\ \A u \in Users : board[a][u] = CoinsOf(a, u, shown)
    /\ \A e \in handled : Gives(e, a) => e \in shown
    /\ pc \in {"judge", "returned"} /\ Gives(cur, a) => cur \in shown

BoardInv ==
    /\ board \in [Auctions -> [Users -> Nat]]
    /\ \A a \in Auctions : \E shown \in SUBSET arrived : Shows(a, shown)

\* A leaderboard that is left alone shows what it showed.
LEMMA ShownStays ==
  ASSUME BoardInv, arrived \subseteq arrived', UNCHANGED <<update, board>>,
         \A e \in handled' : e \in handled \/ (pc = "returned" /\ e = cur),
         pc' \in {"judge", "returned"} => pc \in {"judge", "returned"} /\ cur' = cur
  PROVE  BoardInv'
  <1>1. ASSUME NEW a \in Auctions PROVE \E shown \in SUBSET arrived' : Shows(a, shown)'
    <2>1. PICK shown \in SUBSET arrived : Shows(a, shown)
      BY DEF BoardInv
    <2>2. shown \in SUBSET arrived'
      BY <2>1
    <2>3. \A u \in Users : board'[a][u] = CoinsOf(a, u, shown)'
      BY <2>1 DEF Shows, CoinsOf, GiftsOf
    <2>4. Shows(a, shown)'
      BY <2>1, <2>3 DEF Shows, Gives
    <2> QED BY <2>2, <2>4
  <1>2. board' \in [Auctions -> [Users -> Nat]]
    BY DEF BoardInv
  <1> QED BY <1>1, <1>2 DEF BoardInv

\* The first leaderboards show nothing.
LEMMA BoardInit == AuctionInit => BoardInv
  <1> SUFFICES ASSUME AuctionInit PROVE BoardInv
    OBVIOUS
  <1>1. arrived = {} /\ handled = {} /\ pc = "idle" /\ board = [a \in Auctions |-> [u \in Users |-> 0]]
        /\ update \in [Events -> Update]
    BY DEF AuctionInit, DeliveryStart, AuctionStart
  <1>2. ASSUME NEW a \in Auctions PROVE Shows(a, {})
    <2>1. ASSUME NEW u \in Users PROVE CoinsOf(a, u, {}) = 0
      <3>1. CoinsOf(a, u, {}) = SumFunctionOnSet(Price, {}) /\ \A e \in {} : Price[e] \in Nat
        <4>1. {} \in SUBSET Events /\ IsFiniteSet({})
          BY FS_EmptySet
        <4>2. CoinsOf(a, u, {}) = SumFunctionOnSet(Price, GiftsOf(a, u, {}))
          BY <1>1, <4>1, CoinsOfPrice
        <4>3. GiftsOf(a, u, {}) = {}
          BY DEF GiftsOf
        <4> QED BY <4>2, <4>3
      <3>2. SumFunctionOnSet(Price, {}) = 0
        BY FS_EmptySet, SumFirst
      <3> QED BY <3>1, <3>2
    <2> QED BY <1>1, <2>1 DEF Shows
  <1>3. {} \in SUBSET arrived
    OBVIOUS
  <1> QED BY <1>1, <1>2, <1>3 DEF BoardInv

\* The leaderboard published shows the gifts of the ledger.
LEMMA PublishShows ==
  ASSUME AuctionInv, KeptInv, BoardInv, PublishBoard
  PROVE  BoardInv'
  <1>1. /\ pc = "board" /\ pc' \in {"judge", "returned"}
        /\ UNCHANGED <<arrived, handled, cur, update, ledgers>>
        /\ board' = [board EXCEPT ![Auction] = Leaderboard(ledgers[Auction])]
    BY DEF PublishBoard, Goto
  <1>2. Auction \in Auctions /\ update \in [Events -> Update] /\ arrived \in SUBSET Events
    BY <1>1 DEF AuctionInv, SavedInv, ShapeInv, DeliveryTypeOK
  <1>3. IsFiniteSet(arrived) /\ Kept(Auction) /\ (Gives(cur, Auction) => cur \in ledgers[Auction].seen)
    BY <1>1, <1>2 DEF KeptInv, Saved
  <1> DEFINE seen == ledgers[Auction].seen
             rows == Leaderboard(ledgers[Auction])
  <1>4. \A u \in Users : rows[u] = CoinsOf(Auction, u, seen)
    BY <1>2, <1>3, LeaderboardSums
  <1>5. seen \in SUBSET arrived /\ \A e \in handled : Gives(e, Auction) => e \in seen
    BY <1>3 DEF Kept
  <1>6. rows \in [Users -> Nat]
    <2>1. rows = [u \in Users |-> rows[u]]
      BY DEF Leaderboard
    <2>2. ASSUME NEW u \in Users PROVE rows[u] \in Nat
      <3>1. seen \in SUBSET Events /\ IsFiniteSet(seen)
        <4> HIDE DEF seen
        <4> QED BY <1>2, <1>3, <1>5, FS_Subset
      <3> DEFINE S == GiftsOf(Auction, u, seen)
      <3>2. /\ CoinsOf(Auction, u, seen) = SumFunctionOnSet(Price, S)
            /\ IsFiniteSet(S) /\ \A e \in S : Price[e] \in Nat
        <4> HIDE DEF seen
        <4> QED BY <1>2, <3>1, CoinsOfPrice
      <3> HIDE DEF S, seen, rows
      <3>3. SumFunctionOnSet(Price, S) \in Nat
        BY <3>2, SumFirst
      <3> QED BY <1>4, <3>2, <3>3
    <2> HIDE DEF rows
    <2> QED BY <2>1, <2>2
  <1> HIDE DEF rows, seen
  <1>7. board' \in [Auctions -> [Users -> Nat]]
    BY <1>1, <1>6 DEF BoardInv, rows
  <1>8. ASSUME NEW a \in Auctions PROVE \E shown \in SUBSET arrived' : Shows(a, shown)'
    <2>1. CASE a = Auction
      <3>1. board'[a] = rows
        BY <1>1, <1>2, <2>1 DEF BoardInv, rows
      <3>2. \A e : Gives(e, a)' <=> Gives(e, a)
        BY <1>1 DEF Gives
      <3> DEFINE shown == seen
      <3>3. \A u \in Users : board'[a][u] = CoinsOf(a, u, shown)
        BY <1>4, <2>1, <3>1
      <3>4. shown \in SUBSET arrived' /\ (Gives(cur, a) => cur \in shown) /\ \A e \in handled : Gives(e, a) => e \in shown
        BY <1>1, <1>3, <1>5, <2>1 DEF seen
      <3>5. \E s \in SUBSET arrived' : /\ \A u \in Users : board'[a][u] = CoinsOf(a, u, s)
                                       /\ (Gives(cur, a) => cur \in s) /\ \A e \in handled : Gives(e, a) => e \in s
        BY <3>3, <3>4
      <3>6. PICK s \in SUBSET arrived' : /\ \A u \in Users : board'[a][u] = CoinsOf(a, u, s)
                                         /\ (Gives(cur, a) => cur \in s) /\ \A e \in handled : Gives(e, a) => e \in s
        BY <3>5
      <3>7. \A u \in Users : CoinsOf(a, u, s)' = CoinsOf(a, u, s)
        BY <1>1 DEF CoinsOf, GiftsOf
      <3>8. Shows(a, s)'
        BY <1>1, <3>2, <3>6, <3>7 DEF Shows, Gives
      <3> QED BY <3>8
    <2>2. CASE a # Auction
      <3>1. PICK shown \in SUBSET arrived : Shows(a, shown)
        BY DEF BoardInv
      <3>2. board'[a] = board[a] /\ ~Gives(cur, a)
        BY <1>1, <2>2 DEF BoardInv, Gives, Auction
      <3>3. \A u \in Users : board'[a][u] = CoinsOf(a, u, shown)'
        BY <1>1, <3>1, <3>2 DEF Shows, CoinsOf, GiftsOf
      <3>4. Shows(a, shown)'
        BY <1>1, <3>1, <3>2, <3>3 DEF Shows, Gives
      <3> QED BY <1>1, <3>4
    <2> QED BY <2>1, <2>2
  <1> QED BY <1>7, <1>8 DEF BoardInv

\* Every step keeps the leaderboards in order.
LEMMA BoardStep ==
  ASSUME AuctionInv, KeptInv, BoardInv, [AuctionNext]_<<deliveryVars, auctionVars>>
  PROVE  BoardInv'
  <1> USE DEF auctionVars
  <1>1. ASSUME NEW e \in Events, TakeUpdate(e) PROVE BoardInv'
    <2>1. arrived \subseteq arrived' /\ handled' = handled /\ UNCHANGED <<update, board>> /\ pc' = "handle"
      BY <1>1 DEF TakeUpdate, Take
    <2> QED BY <2>1, ShownStays
  <1>2. CASE ReadLedger \/ SetLedger \/ IndexLedger \/ CrossCheck
    <2>1. /\ UNCHANGED <<arrived, handled, cur, update, board>>
          /\ pc' \in {"judge", "returned"} => pc \in {"judge", "returned"}
      BY <1>2 DEF ReadLedger, SetLedger, IndexLedger, CrossCheck, Goto
    <2> QED BY <2>1, ShownStays
  <1>3. CASE PublishBoard
    BY <1>3, PublishShows
  <1>4. CASE AuctionReturned
    <2>1. /\ UNCHANGED <<arrived, update, board>> /\ pc' = "idle"
          /\ \A e \in handled' : e \in handled \/ (pc = "returned" /\ e = cur)
      BY <1>4 DEF AuctionReturned, Acknowledge, Idle
    <2> QED BY <2>1, ShownStays
  <1>5. CASE AuctionFault
    <2>1. UNCHANGED <<arrived, handled, update, board>> /\ pc' \in {"handle", "ack", "idle"}
      BY <1>5 DEF AuctionFault, Raise, Restart, Idle
    <2> QED BY <2>1, ShownStays
  <1>6. CASE UNCHANGED <<deliveryVars, auctionVars>>
    <2>1. UNCHANGED <<arrived, handled, update, board, pc, cur>>
      BY <1>6 DEF deliveryVars
    <2> QED BY <2>1, ShownStays
  <1> QED BY <1>1, <1>2, <1>3, <1>4, <1>5, <1>6 DEF AuctionNext

\* What the leaderboard shows lies between what was handled and what came.
LEMMA ShownIsBetween ==
  ASSUME AuctionInv, KeptInv, BoardInv
  PROVE  BoardIsTheSum
  <1> SUFFICES ASSUME NEW a \in Auctions, NEW u \in Users
               PROVE  board[a][u] \in CoinsOf(a, u, handled) .. CoinsOf(a, u, arrived)
    BY DEF BoardIsTheSum
  <1>1. /\ update \in [Events -> Update] /\ IsFiniteSet(arrived)
        /\ arrived \in SUBSET Events /\ handled \in SUBSET arrived
    BY DEF AuctionInv, ShapeInv, DeliveryTypeOK, KeptInv
  <1>2. PICK shown \in SUBSET arrived : Shows(a, shown)
    BY DEF BoardInv
  <1> DEFINE H == GiftsOf(a, u, handled)
             S == GiftsOf(a, u, shown)
             R == GiftsOf(a, u, arrived)
  <1>3. \A events \in SUBSET arrived : events \in SUBSET Events /\ IsFiniteSet(events)
    BY <1>1, FS_Subset
  <1>4. /\ CoinsOf(a, u, handled) = SumFunctionOnSet(Price, H)
        /\ CoinsOf(a, u, shown) = SumFunctionOnSet(Price, S)
        /\ CoinsOf(a, u, arrived) = SumFunctionOnSet(Price, R)
        /\ \A e \in Events : Price[e] \in Nat
        /\ IsFiniteSet(H) /\ IsFiniteSet(S) /\ IsFiniteSet(R)
    BY <1>1, <1>3, CoinsOfPrice
  <1>5. H \in SUBSET S /\ S \in SUBSET R /\ R \in SUBSET Events
    BY <1>1, <1>2, AuctionAssumption DEF GiftsOf, Shows, Gives
  <1> HIDE DEF H, S, R
  <1>6. SumFunctionOnSet(Price, H) <= SumFunctionOnSet(Price, S)
    BY <1>4, <1>5, SumGrows
  <1>7. SumFunctionOnSet(Price, S) <= SumFunctionOnSet(Price, R)
    BY <1>4, <1>5, SumGrows
  <1>8. /\ SumFunctionOnSet(Price, H) \in Nat /\ SumFunctionOnSet(Price, S) \in Nat
        /\ SumFunctionOnSet(Price, R) \in Nat
    BY <1>4, <1>5, SumFirst
  <1>9. board[a][u] = SumFunctionOnSet(Price, S)
    BY <1>2, <1>4 DEF Shows
  <1> QED BY <1>4, <1>6, <1>7, <1>8, <1>9

(* The verdicts. *)

\* A finite set of events can be put in an order without repetition.
LEMMA OrderOfSet ==
  ASSUME NEW S, IsFiniteSet(S)
  PROVE  /\ SetToSeq(S) \in Seq(S)
         /\ S = {SetToSeq(S)[i] : i \in DOMAIN SetToSeq(S)}
  <1> DEFINE n == Cardinality(S)
             order == SetToSeq(S)
  <1>1. n \in Nat /\ ExistsBijection(1 .. n, S)
    BY FS_CardinalityType
  <1>2. \E f \in [1 .. n -> S] : IsInjective(f)
    <2>1. PICK f : f \in Bijection(1 .. n, S)
      BY <1>1 DEF ExistsBijection
    <2>2. f \in [1 .. n -> S] /\ \A i, j \in 1 .. n : f[i] = f[j] => i = j
      BY <2>1 DEF Bijection, Injection, IsInjective
    <2> QED BY <2>2 DEF IsInjective
  <1>3. order \in [1 .. n -> S] /\ IsInjective(order)
    BY <1>2 DEF SetToSeq
  <1> HIDE DEF order
  <1>4. order \in Injection(1 .. n, S)
    BY <1>3 DEF Injection
  <1>5. Cardinality(1 .. n) = n
    BY <1>1, FS_Interval
  <1> HIDE DEF n
  <1>6. order \in Surjection(1 .. n, S)
    BY <1>4, <1>5, FS_Injection DEF n
  <1>7. order \in Seq(S)
    BY <1>1, <1>3, IsASeq
  <1>8. DOMAIN order = 1 .. n
    BY <1>3
  <1>9. S = {order[i] : i \in DOMAIN order}
    BY <1>3, <1>6, <1>8 DEF Surjection
  <1> QED BY <1>7, <1>9 DEF order

\* Ordered as in the ledger or in any other way, the gifts allow the same.
LEMMA AnyOrderAllows ==
  ASSUME update \in [Events -> Update], NEW a \in Auctions, Kept(a), IsFiniteSet(arrived), arrived \in SUBSET Events,
         NEW tieBreak, NEW w, MayWin(Gifts(ledgers[a]), {}, tieBreak, w)
  PROVE  MayWin(AnyOrder(ledgers[a].seen), {}, tieBreak, w)
  <1> DEFINE ledger == ledgers[a]
             seen == ledger.seen
             order == SetToSeq(seen)
             other == [contributions |-> order]
  <1>1. /\ ledger.contributions \in Seq(Events)
        /\ \A i \in DOMAIN ledger.contributions : update[ledger.contributions[i]].sender # NoUser
        /\ seen = {ledger.contributions[i] : i \in DOMAIN ledger.contributions}
    BY DEF Kept, Ledger, Gives
  <1>2. IsFiniteSet(seen) /\ seen \in SUBSET Events
    <2>1. seen \in SUBSET arrived
      BY DEF Kept
    <2> HIDE DEF seen
    <2> QED BY <2>1, FS_Subset
  <1>3. \A e \in seen : update[e].sender # NoUser
    BY DEF Kept, Gives
  <1> HIDE DEF seen
  <1>4. order \in Seq(seen) /\ seen = {order[i] : i \in DOMAIN order}
    BY <1>2, OrderOfSet
  <1> HIDE DEF order
  <1>5. other.contributions = order /\ order \in Seq(Events)
    BY <1>2, <1>4
  <1>6. \A i \in DOMAIN other.contributions : update[other.contributions[i]].sender # NoUser
    BY <1>3, <1>4, <1>5
  <1> HIDE DEF ledger, other
  <1>7. /\ Contribution(Given) /\ Gifts(ledger) \in Seq(Given) /\ CopiesAgree(Gifts(ledger))
        /\ DOMAIN Gifts(ledger) = DOMAIN ledger.contributions
        /\ \A i \in DOMAIN ledger.contributions : Gifts(ledger)[i] = GiftOf(ledger.contributions[i])
    BY <1>1, GiftsAreGiven
  <1>8. /\ Gifts(other) \in Seq(Given) /\ CopiesAgree(Gifts(other))
        /\ DOMAIN Gifts(other) = DOMAIN other.contributions
        /\ \A i \in DOMAIN other.contributions : Gifts(other)[i] = GiftOf(other.contributions[i])
    BY <1>5, <1>6, GiftsAreGiven
  <1>9. {Gifts(ledger)[i] : i \in DOMAIN Gifts(ledger)} = {Gifts(other)[i] : i \in DOMAIN Gifts(other)}
    <2>1. {Gifts(ledger)[i] : i \in DOMAIN Gifts(ledger)} = {GiftOf(e) : e \in seen}
      BY <1>1, <1>7
    <2>2. {Gifts(other)[i] : i \in DOMAIN Gifts(other)} = {GiftOf(e) : e \in seen}
      BY <1>4, <1>5, <1>8
    <2> QED BY <2>1, <2>2
  <1>10. Worthy(Gifts(ledger)) = Worthy(Gifts(other))
    BY <1>9 DEF Worthy
  <1>11. MayWin(Gifts(other), {}, tieBreak, w)
    <2>1. MayWin(Gifts(ledger), {}, tieBreak, w)
      BY DEF ledger
    <2> QED BY <1>7, <1>8, <1>10, <2>1, SameGiftsSameWinners
  <1>12. AnyOrder(ledgers[a].seen) = Gifts(other)
    BY DEF AnyOrder, other, order, seen, ledger
  <1> QED BY <1>11, <1>12

\* If somebody may win, it is not nobody.
LEMMA SomebodyOrNobody ==
  ASSUME NEW list, NEW seen, NEW tieBreak, NEW w, w # NoUser,
         \A i \in DOMAIN list : list[i].user # NoUser, MayWin(list, seen, tieBreak, w)
  PROVE  ~MayWin(list, seen, tieBreak, NoUser)
  <1> DEFINE K == Counted(list, seen)
  <1>1. NoUser \notin Best(list, K)
    BY DEF Best, Givers, Counted
  <1> QED BY <1>1 DEF MayWin

\* The verdicts are right, and of the right type.
VerdictInv == verdicts \subseteq Verdict /\ NamedWinnersJudged

\* So is the one that is added.
LEMMA VerdictRight ==
  ASSUME AuctionInv, KeptInv, VerdictInv, CrossCheck
  PROVE  VerdictInv'
  <1> DEFINE ledger == ledgers[Auction]
             seen == ledger.seen
             settled == ~Disagrees(ledger)
             v == [event |-> cur, settled |-> settled, seen |-> seen]
             winner == Resolve(Gifts(ledger), {}, TieBreak).winner
             claimed == update[cur].winner
             Takes(w) == MayWin(AnyOrder(seen), {}, TieBreak, w)
  <1>1. pc = "judge" /\ update' = update /\ verdicts' = verdicts \cup {v}
    BY DEF CrossCheck
  <1>2. /\ Auction \in Auctions /\ update \in [Events -> Update] /\ arrived \in SUBSET Events
        /\ cur \in Events /\ update[cur] \in Update
    BY <1>1 DEF AuctionInv, SavedInv, ShapeInv, DeliveryTypeOK
  <1>3. IsFiniteSet(arrived) /\ Kept(Auction) /\ ledger.winner = claimed
    BY <1>1, <1>2 DEF KeptInv, Saved
  <1>4. v \in Verdict
    <2>1. seen \in SUBSET Events /\ cur \in Events
      BY <1>2, <1>3 DEF Kept
    <2>2. settled \in BOOLEAN
      BY Zenon DEF settled
    <2> HIDE DEF seen, settled
    <2> QED BY <2>1, <2>2 DEF Verdict
  <1>5. /\ ledger.contributions \in Seq(Events)
        /\ \A i \in DOMAIN ledger.contributions : update[ledger.contributions[i]].sender # NoUser
    BY <1>3 DEF Kept, Ledger, Gives
  <1>6. MayWin(Gifts(ledger), {}, TieBreak, winner)
    <2>1. Contribution(Given) /\ (\A c \in Given : c.event \in Events) /\ Gifts(ledger) \in Seq(Given)
      <3> HIDE DEF ledger
      <3> QED BY <1>2, <1>5, GiftsAreGiven
    <2>2. {} \in SUBSET Events
      OBVIOUS
    <2>3. DecidesRight(Gifts(ledger), {}, TieBreak)
      <3> HIDE DEF ledger
      <3> QED BY <2>1, <2>2, RulesDecideRight
    <2> QED BY <2>3 DEF DecidesRight
  <1>7. Takes(winner)
    <2> HIDE DEF winner
    <2> QED BY <1>2, <1>3, <1>6, AnyOrderAllows
  <1>8. winner # NoUser => ~Takes(NoUser) /\ winner \in Users
    <2>1. \A i \in DOMAIN AnyOrder(seen) : AnyOrder(seen)[i].user \in Users
      <3> DEFINE order == SetToSeq(seen)
      <3>1. IsFiniteSet(seen)
        <4>1. seen \in SUBSET arrived
          BY <1>3 DEF Kept
        <4> HIDE DEF seen
        <4> QED BY <1>3, <4>1, FS_Subset
      <3>2. \A e \in seen : e \in Events /\ update[e].sender \in Users
        BY <1>2, <1>3 DEF Kept, Gives, Update
      <3> HIDE DEF seen
      <3>3. seen = {order[i] : i \in DOMAIN order}
        BY <3>1, OrderOfSet
      <3>4. AnyOrder(seen) = Gifts([contributions |-> order])
        BY DEF AnyOrder
      <3> HIDE DEF order
      <3>5. AnyOrder(seen) = [i \in DOMAIN order |-> GiftOf(order[i])]
        BY <3>4 DEF Gifts, GiftOf
      <3> QED BY <3>2, <3>3, <3>5 DEF GiftOf
    <2>2. NoUser \notin Users
      BY AuctionAssumption
    <2> HIDE DEF seen, winner
    <2>3. winner # NoUser => ~Takes(NoUser)
      BY <1>7, <2>1, <2>2, SomebodyOrNobody
    <2>4. winner # NoUser => winner \in Users
      BY <1>7, <2>1 DEF MayWin, Best, Givers, Counted
    <2> QED BY <2>3, <2>4
  <1>9. settled <=> NoUser \in {claimed, winner} \/ claimed = winner
    BY <1>3 DEF Disagrees
  <1> HIDE DEF winner, ledger
  <1>10. CASE settled
    <2>1. v.settled /\ v.event = cur /\ v.seen = seen
      BY <1>10
    <2>2. claimed = NoUser \/ Takes(NoUser) \/ Takes(claimed)
      <3> HIDE DEF settled, claimed, Takes
      <3> QED BY <1>7, <1>9, <1>10
    <2>3. \A x \in verdicts' : x \in verdicts \/ (x.settled /\ x.event = cur /\ x.seen = seen)
      <3> HIDE DEF v
      <3> QED BY <1>1, <2>1
    <2>4. NamedWinnersJudged'
      <3> SUFFICES ASSUME NEW x \in verdicts'
                   PROVE  LET Take1(w) == MayWin(AnyOrder(x.seen), {}, TieBreak, w)
                              said == update[x.event].winner
                          IN  IF x.settled
                              THEN said = NoUser \/ Take1(NoUser) \/ Take1(said)
                              ELSE \E w \in (Users \cup {NoUser}) \ {said} : Take1(w)
        BY <1>1 DEF NamedWinnersJudged, MayTake, AnyOrder, Gifts
      <3>1. CASE x \in verdicts
        BY <3>1 DEF VerdictInv, NamedWinnersJudged, MayTake
      <3>2. CASE x.settled /\ x.event = cur /\ x.seen = seen
        BY <2>2, <3>2
      <3> QED BY <2>3, <3>1, <3>2
    <2> QED BY <1>1, <1>4, <2>4 DEF VerdictInv
  <1>11. CASE ~settled
    <2>1. ~v.settled /\ v.event = cur /\ v.seen = seen
      BY <1>11
    <2>2. \E w \in (Users \cup {NoUser}) \ {claimed} : Takes(w)
      <3> HIDE DEF settled, claimed, Takes
      <3> QED BY <1>7, <1>8, <1>9, <1>11
    <2>3. \A x \in verdicts' : x \in verdicts \/ (~x.settled /\ x.event = cur /\ x.seen = seen)
      <3> HIDE DEF v
      <3> QED BY <1>1, <2>1
    <2>4. NamedWinnersJudged'
      <3> SUFFICES ASSUME NEW x \in verdicts'
                   PROVE  LET Take1(w) == MayWin(AnyOrder(x.seen), {}, TieBreak, w)
                              said == update[x.event].winner
                          IN  IF x.settled
                              THEN said = NoUser \/ Take1(NoUser) \/ Take1(said)
                              ELSE \E w \in (Users \cup {NoUser}) \ {said} : Take1(w)
        BY <1>1 DEF NamedWinnersJudged, MayTake, AnyOrder, Gifts
      <3>1. CASE x \in verdicts
        BY <3>1 DEF VerdictInv, NamedWinnersJudged, MayTake
      <3>2. CASE ~x.settled /\ x.event = cur /\ x.seen = seen
        BY <2>2, <3>2
      <3> QED BY <2>3, <3>1, <3>2
    <2> QED BY <1>1, <1>4, <2>4 DEF VerdictInv
  <1> QED BY <1>10, <1>11

\* The other steps give no verdict.
LEMMA VerdictStep ==
  ASSUME AuctionInv, KeptInv, VerdictInv, [AuctionNext]_<<deliveryVars, auctionVars>>
  PROVE  VerdictInv'
  <1>1. CASE CrossCheck
    BY <1>1, VerdictRight
  <1>2. CASE ~CrossCheck
    <2>1. UNCHANGED <<update, verdicts>>
      BY <1>2 DEF AuctionNext, TakeUpdate, ReadLedger, SetLedger, IndexLedger, PublishBoard,
                  AuctionReturned, AuctionFault, auctionVars
    <2>2. NamedWinnersJudged'
      BY <2>1 DEF VerdictInv, NamedWinnersJudged, MayTake, AnyOrder, Gifts
    <2> QED BY <2>1, <2>2 DEF VerdictInv
  <1> QED BY <1>1, <1>2

\* There is none at the start.
LEMMA VerdictInit == AuctionInit => VerdictInv
  BY DEF AuctionInit, AuctionStart, VerdictInv, NamedWinnersJudged

(* The agent. *)

AgentInv == AuctionInv /\ KeptInv /\ BoardInv /\ VerdictInv

\* It starts so ...
LEMMA AgentInitInv == AuctionInit => AgentInv
  BY AuctionInitInv, KeptInit, BoardInit, VerdictInit DEF AgentInv

\* ... and every step keeps it so.
LEMMA AgentStep ==
  ASSUME AgentInv, [AuctionNext]_<<deliveryVars, auctionVars>>
  PROVE  AgentInv'
  BY SavedStep, KeptStep, BoardStep, VerdictStep DEF AgentInv

\* Its state is well typed.
LEMMA AgentTyped == AgentInv => AuctionTypeOK
  BY DEF AgentInv, AuctionInv, ShapeInv, KeptInv, BoardInv, VerdictInv, AuctionTypeOK

\* The agent keeps what its ledgers, leaderboards and verdicts promise.
THEOREM AuctionInvariance == AuctionSpec => []AgentInv
<1>1. AgentInv /\ [AuctionNext]_<<deliveryVars, auctionVars>> => AgentInv'
  BY AgentStep
<1> QED
  BY AgentInitInv, <1>1, PTL DEF AuctionSpec

\* The leaderboard published last credits every user with each gift the agent
\* is done with, and with no gift twice, over copies, retries, giving up and
\* restarts: a gift is ledgered by event id before it is counted.
THEOREM BoardAddsUp == AuctionSpec => []BoardIsTheSum
<1>1. AgentInv => BoardIsTheSum
  BY ShownIsBetween DEF AgentInv
<1> QED
  BY <1>1, AuctionInvariance, PTL

\* Where backend and rules both name a winner, the verdict is right by the
\* gifts ledgered when it was given, in whatever order they came and under
\* both policies for ties; and no dispute is raised without a mismatch.
THEOREM VerdictsHold == AuctionSpec => []NamedWinnersJudged
<1>1. AgentInv => NamedWinnersJudged
  BY DEF AgentInv, VerdictInv
<1> QED
  BY <1>1, AuctionInvariance, PTL

\* Every COMPLETED update whose handler returned was cross-checked, in this
\* run of the handler or in an earlier one.
THEOREM CompletedGetsVerdict == AuctionSpec => []CompletedIsChecked
<1>1. AgentInv => CompletedIsChecked
  BY DEF AgentInv, AuctionInv, HandledInv, CompletedIsChecked
<1> QED
  BY <1>1, AuctionInvariance, PTL

\* An auction with a handled update that is not over in its ledger is listed
\* by all_active, wherever a save was cut off.
THEOREM ActiveGetsCounted == AuctionSpec => []ActiveIsCounted
<1>1. AgentInv => ActiveIsCounted
  BY DEF AgentInv, AuctionInv, HandledInv, ActiveIsCounted, AllActive, Terminal
<1> QED
  BY <1>1, AuctionInvariance, PTL
=============================================================================
