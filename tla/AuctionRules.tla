---------------------------- MODULE AuctionRules ----------------------------
(***************************************************************************)
(* foundation/auction_rules.py: who is entitled to purchase, decided from  *)
(* a list of gift contributions, and the reference it is checked against.  *)
(*                                                                         *)
(* A contribution is [event, user, coins, at, outcome], where `at' is      *)
(* occurred_at and `outcome' stands for the flags cancelled and            *)
(* payment_failed.  The list is a sequence (an iterator, which the second  *)
(* pass over the contributions would find empty, is never passed).         *)
(***************************************************************************)
EXTENDS Integers, Sequences, SequencesExt, FiniteSetsExt

CONSTANT NoUser   \* no winner

Outcomes == {"ok", "cancelled", "payment_failed"}
TieBreaks == {"earliest", "explicit"}

\* Mutant: a contribution that was turned down is not remembered as seen.
ScanCounted(acc, c) ==
    IF c.event \in acc.seen THEN acc
    ELSE IF c.outcome = "ok" /\ c.coins > 0
         THEN [seen |-> acc.seen \cup {c.event}, valid |-> Append(acc.valid, c), duplicates |-> FALSE]
         ELSE [acc EXCEPT !.duplicates = FALSE]

\* One turn of the loop: a duplicate is passed over, what was cancelled,
\* not paid or is worth nothing does not count.
ScanOne(acc, c) ==
    IF c.event \in acc.seen THEN acc
    ELSE [seen |-> acc.seen \cup {c.event},
          valid |-> IF c.outcome = "ok" /\ c.coins > 0 THEN Append(acc.valid, c) ELSE acc.valid,
          duplicates |-> FALSE]

Scan(list, seen) == FoldLeft(ScanOne, [seen |-> seen, valid |-> << >>, duplicates |-> TRUE], list)

UsersOf(list) == {list[i].user : i \in DOMAIN list}

\* by_user and earliest.
Totals(list) ==
    FoldLeft(LAMBDA sums, c : [sums EXCEPT ![c.user] = @ + c.coins], [u \in UsersOf(list) |-> 0], list)
Earliest(list) ==
    [u \in UsersOf(list) |-> Min({list[i].at : i \in {j \in DOMAIN list : list[j].user = u}})]

\* Mutant: the first of them in the order the users came up.
FirstListed(valid, leaders) ==
    valid[Min({j \in DOMAIN valid : valid[j].user \in leaders})].user

\* min(leaders, key=earliest): the first of them in the order the users came
\* up, among those whose first contribution is the earliest.
FirstOfLeaders(valid, leaders) ==
    LET first == Min({Earliest(valid)[u] : u \in leaders})
        i == Min({j \in DOMAIN valid : valid[j].user \in leaders /\ Earliest(valid)[valid[j].user] = first})
    IN  valid[i].user

\* Nothing counts: the decision names the one reason all have, if there is one.
Rejection(list, seen, duplicates) ==
    LET All(P(_)) == \A i \in DOMAIN list : P(list[i]) IN
    CASE All(LAMBDA c : c.event \in seen) -> "rejected_duplicate"
      [] All(LAMBDA c : c.outcome = "cancelled") -> "rejected_cancelled"
      [] All(LAMBDA c : c.outcome = "payment_failed") -> "rejected_payment_failed"
      [] duplicates -> "rejected_duplicate"
      [] OTHER -> "rejected_below_leader"

Result(decision, winner, coins) == [decision |-> decision, winner |-> winner, coins |-> coins]

\* resolve_purchase_eligibility(contributions, seen_event_ids, tie_break).
Resolve(list, seen, tieBreak) ==
    LET scan    == Scan(list, seen)
        sums    == Totals(scan.valid)
        top     == Max({sums[u] : u \in DOMAIN sums})
        leaders == {u \in DOMAIN sums : sums[u] = top}
    IN  IF list = << >> THEN Result("rejected_below_leader", NoUser, 0)
        ELSE IF scan.valid = << >> THEN Result(Rejection(list, seen, scan.duplicates), NoUser, 0)
        ELSE IF Cardinality(leaders) = 1 THEN Result("eligible", CHOOSE u \in leaders : TRUE, top)
        ELSE IF tieBreak = "explicit" THEN Result("tie_break_explicit", NoUser, top)
        ELSE Result("tie_break_earliest", FirstOfLeaders(scan.valid, leaders), top)

-----------------------------------------------------------------------------
(* The reference: sets of contributions instead of loops over lists. *)

\* What counts: the first copy of each event, if it is worth something.
Counted(list, seen) ==
    {i \in DOMAIN list : /\ list[i].event \notin seen
                         /\ \A j \in 1 .. i - 1 : list[j].event # list[i].event
                         /\ list[i].outcome = "ok"
                         /\ list[i].coins > 0}

\* Who gave the contributions `counted' of list, what those are worth to u,
\* and when the first of u's was made.
Givers(list, counted) == {list[i].user : i \in counted}
Worth(list, counted, u) ==
    SumFunctionOnSet([i \in DOMAIN list |-> list[i].coins], {i \in counted : list[i].user = u})
Start(list, counted, u) == Min({list[i].at : i \in {j \in counted : list[j].user = u}})

\* Those whom nobody outbids.
Best(list, counted) ==
    {u \in Givers(list, counted) :
        \A v \in Givers(list, counted) : Worth(list, counted, v) <= Worth(list, counted, u)}

\* w may win: nobody gave more and, unless ties are left to a person, nobody
\* who gave as much started earlier.
MayWin(list, seen, tieBreak, w) ==
    LET counted == Counted(list, seen)
        best    == Best(list, counted)
    IN  IF best = {} \/ (tieBreak = "explicit" /\ Cardinality(best) > 1)
        THEN w = NoUser
        ELSE w \in best /\ \A u \in best :
                Start(list, counted, w) <= Start(list, counted, u) \/ Cardinality(best) = 1

\* Copies of an event say the same.
CopiesAgree(list) == \A i, j \in DOMAIN list : list[i].event = list[j].event => list[i] = list[j]
=============================================================================
