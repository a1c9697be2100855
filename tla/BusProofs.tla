----------------------------- MODULE BusProofs -----------------------------
(***************************************************************************)
(* The inductive invariant of StreamBus, and the promises of the bus that  *)
(* follow from it.  The argument: the group's pending list, the dead       *)
(* letters and the histories only change in the direction the promises     *)
(* allow (Progress); what the consumer thread holds in its hands tells     *)
(* what was done with it (InHand); and what the dedup remembers can be     *)
(* traced to a message that was finished, or is the one being handled.     *)
(***************************************************************************)
EXTENDS MCBus, FiniteSetTheorems, FunctionTheorems, SequenceTheorems, WellFoundedInduction, TLAPS

-----------------------------------------------------------------------------
(* Min, Max and the first messages of a set of them. *)

\* A non-empty set of naturals has its minimum.
LEMMA MinFact ==
  ASSUME NEW S \in SUBSET Nat, S # {}
  PROVE  Min(S) \in S /\ \A x \in S : Min(S) <= x
  <1>1. IsWellFoundedOn({ss \in Nat \X Nat : ss[1] < ss[2]}, Nat)
    BY NatLessThanWellFounded DEF OpToRel
  <1>2. PICK x \in S : \A y \in S : <<y, x>> \notin {ss \in Nat \X Nat : ss[1] < ss[2]}
    BY <1>1, WFMin
  <1>3. \A y \in S : x <= y
    <2> TAKE y \in S
    <2>1. x \in Nat /\ y \in Nat
      OBVIOUS
    <2>2. ~(y < x)
      <3> SUFFICES ASSUME y < x PROVE FALSE
        OBVIOUS
      <3>1. <<y, x>>[1] < <<y, x>>[2] /\ <<y, x>> \in Nat \X Nat
        BY <2>1
      <3> QED BY <1>2, <3>1
    <2> QED BY <2>1, <2>2
  <1> QED BY <1>3 DEF Min

\* A non-empty set of naturals with a bound has its maximum.
LEMMA MaxFact ==
  ASSUME NEW S \in SUBSET Nat, S # {}, NEW n \in Nat, \A x \in S : x <= n
  PROVE  Max(S) \in S /\ \A x \in S : x <= Max(S)
  <1> DEFINE bounds == {k \in Nat : \A x \in S : x <= k}
             top    == Min(bounds)
  <1>1. top \in bounds /\ \A k \in bounds : top <= k
    BY MinFact
  <1> HIDE DEF top
  <1>2. top \in S
    <2> SUFFICES ASSUME top \notin S PROVE FALSE
      OBVIOUS
    <2>1. \A x \in S : x <= top - 1
      BY <1>1
    <2>2. top - 1 \in Nat
      <3>1. PICK x \in S : TRUE
        OBVIOUS
      <3>2. x \in Nat /\ top \in Nat /\ x <= top - 1
        BY <1>1, <2>1
      <3> QED BY <3>2
    <2>3. top - 1 \in bounds
      BY <2>1, <2>2
    <2> QED BY <1>1, <2>2, <2>3
  <1> QED BY <1>1, <1>2 DEF Max

\* Of a set of messages, FirstOf takes an initial part, and something.
LEMMA FirstOfFact ==
  ASSUME NEW S \in SUBSET Nat, IsFiniteSet(S)
  PROVE  /\ FirstOf(S) \subseteq S
         /\ S # {} => FirstOf(S) # {}
         /\ \A m \in FirstOf(S), k \in S : k <= m => k \in FirstOf(S)
  <1>1. FirstOf(S) \subseteq S
    BY DEF FirstOf
  <1>2. ASSUME S # {} PROVE FirstOf(S) # {}
    <2> DEFINE m == Min(S)
    <2>1. m \in S /\ S \subseteq Nat /\ \A x \in S : m <= x
      BY <1>2, MinFact
    <2> HIDE DEF m
    <2>2. {k \in S : k <= m} = {m}
      <3>1. \A k \in S : k <= m <=> k = m
        <4> TAKE k \in S
        <4>1. k \in Nat /\ m \in Nat /\ m <= k
          BY <2>1
        <4> QED BY <4>1
      <3> QED BY <2>1, <3>1
    <2>3. Cardinality({k \in S : k <= m}) = 1
      BY <2>2, FS_Singleton
    <2> QED BY <2>1, <2>3, BusAssumption DEF FirstOf
  <1>3. ASSUME NEW m \in FirstOf(S), NEW k \in S, k <= m
        PROVE  k \in FirstOf(S)
    <2>1. {j \in S : j <= k} \subseteq {j \in S : j <= m}
      <3>1. k \in Nat /\ m \in Nat /\ S \subseteq Nat
        BY <1>1
      <3>2. \A j \in S : j <= k => j <= m
        BY <1>3, <3>1
      <3> QED BY <3>2
    <2>2. IsFiniteSet({j \in S : j <= m}) /\ IsFiniteSet({j \in S : j <= k})
      BY FS_Subset
    <2>3. Cardinality({j \in S : j <= k}) <= Cardinality({j \in S : j <= m})
      BY <2>1, <2>2, FS_Subset
    <2>4. Cardinality({j \in S : j <= k}) \in Nat /\ Cardinality({j \in S : j <= m}) \in Nat
      BY <2>2, FS_CardinalityType
    <2>5. Cardinality({j \in S : j <= m}) <= BatchSize
      BY DEF FirstOf
    <2> QED BY <2>3, <2>4, <2>5, BusAssumption DEF FirstOf
  <1> QED BY <1>1, <1>2, <1>3

\* Appending, whatever the type of the new element.
LEMMA AppendFact ==
  ASSUME NEW T, NEW s \in Seq(T), NEW x
  PROVE  /\ Len(Append(s, x)) = Len(s) + 1 /\ Append(s, x)[Len(s) + 1] = x
         /\ \A i \in 1 .. Len(s) : Append(s, x)[i] = s[i]
  <1>1. Seq(T) \subseteq Seq(T \cup {x})
    BY SeqDef
  <1> QED BY <1>1, AppendProperties

-----------------------------------------------------------------------------
(* The dedup's LRU. *)

Distinct(s) == \A i, j \in DOMAIN s : s[i] = s[j] => i = j
Holds(s, e) == \E i \in DOMAIN s : s[i] = e

\* Refreshing an id keeps all ids, each once, and makes it the newest.
LEMMA RefreshedFact ==
  ASSUME seen \in Seq(Events), NEW e \in Events
  PROVE  /\ Refreshed(e) \in Seq(Events)
         /\ Len(Refreshed(e)) = IF InSeen(e) THEN Len(seen) ELSE Len(seen) + 1
         /\ Len(Refreshed(e)) > 0 /\ Refreshed(e)[Len(Refreshed(e))] = e
         /\ \A i \in DOMAIN Refreshed(e) : Refreshed(e)[i] = e \/ Holds(seen, Refreshed(e)[i])
         /\ \A j \in DOMAIN seen : Holds(Refreshed(e), seen[j])
         /\ Distinct(seen) => Distinct(Refreshed(e))
  <1> DEFINE r == Refreshed(e)
             n == Len(seen)
  <1>1. n \in Nat /\ DOMAIN seen = 1 .. n /\ \A i \in 1 .. n : seen[i] \in Events
    BY ElementOfSeq, LenProperties
  <1>2. CASE InSeen(e)
    <2> DEFINE was == CHOOSE i \in DOMAIN seen : seen[i] = e
    <2>1. was \in 1 .. n /\ seen[was] = e
      BY <1>1, <1>2 DEF InSeen
    <2>2. r = [j \in 1 .. n |-> IF j < was THEN seen[j] ELSE IF j < n THEN seen[j + 1] ELSE e]
      BY <1>1, <1>2 DEF Refreshed
    <2> HIDE DEF r, was
    <2>3. \A i \in 1 .. n : r[i] \in Events
      BY <1>1, <2>1, <2>2
    <2>4. r \in Seq(Events) /\ Len(r) = n /\ DOMAIN r = 1 .. n
      BY <1>1, <2>2, <2>3, IsASeq, LenProperties
    <2>5. n > 0 /\ r[n] = e
      BY <1>1, <2>1, <2>2
    <2>6. \A i \in 1 .. n : r[i] = e \/ Holds(seen, r[i])
      BY <1>1, <2>1, <2>2 DEF Holds
    <2>7. ASSUME NEW j \in 1 .. n PROVE Holds(r, seen[j])
      <3>1. CASE j < was
        BY <1>1, <2>2, <2>4, <3>1 DEF Holds
      <3>2. CASE j = was
        BY <1>1, <2>1, <2>4, <2>5, <3>2 DEF Holds
      <3>3. CASE j > was
        <4>1. j - 1 \in 1 .. n /\ r[j - 1] = seen[j]
          BY <1>1, <2>1, <2>2, <3>3
        <4> QED BY <2>4, <4>1 DEF Holds
      <3> QED BY <1>1, <2>1, <3>1, <3>2, <3>3
    <2>8. ASSUME Distinct(seen) PROVE Distinct(r)
      <3>1. \A i, j \in 1 .. n : seen[i] = seen[j] => i = j
        BY <1>1, <2>8 DEF Distinct
      <3>2. \A i, j \in 1 .. n : r[i] = r[j] => i = j
        <4> TAKE i, j \in 1 .. n
        <4> DEFINE old(k) == IF k < was THEN k ELSE IF k < n THEN k + 1 ELSE was
        <4>1. /\ old(i) \in 1 .. n /\ old(j) \in 1 .. n
              /\ r[i] = seen[old(i)] /\ r[j] = seen[old(j)]
          BY <1>1, <2>1, <2>2
        <4>2. old(i) = old(j) => i = j
          BY <1>1, <2>1
        <4> HIDE DEF old
        <4> QED BY <3>1, <4>1, <4>2
      <3> QED BY <2>4, <3>2 DEF Distinct
    <2> QED BY <1>1, <1>2, <2>4, <2>5, <2>6, <2>7, <2>8 DEF r
  <1>3. CASE ~InSeen(e)
    <2>1. r = Append(seen, e)
      BY <1>3 DEF Refreshed
    <2> HIDE DEF r
    <2>2. /\ r \in Seq(Events) /\ Len(r) = n + 1 /\ DOMAIN r = 1 .. n + 1
          /\ r[n + 1] = e /\ \A i \in 1 .. n : r[i] = seen[i]
      BY <1>1, <2>1, AppendProperties, LenProperties
    <2>3. \A i \in 1 .. n + 1 : i \in 1 .. n \/ i = n + 1
      BY <1>1
    <2>4. \A i \in 1 .. n : i \in 1 .. n + 1 /\ i # n + 1
      BY <1>1
    <2>5. \A i \in DOMAIN r : r[i] = e \/ Holds(seen, r[i])
      BY <1>1, <2>2, <2>3 DEF Holds
    <2>6. \A j \in DOMAIN seen : Holds(r, seen[j])
      BY <1>1, <2>2, <2>4 DEF Holds
    <2>7. Distinct(seen) => Distinct(r)
      BY <1>1, <1>3, <2>2, <2>3 DEF Distinct, InSeen
    <2> QED BY <1>1, <1>3, <2>2, <2>5, <2>6, <2>7 DEF r
  <1> QED BY <1>2, <1>3

\* What seen_before remembers afterwards: the id, and no other new one; it
\* forgets an id only when it then holds dedup_max_size others.
LEMMA RememberFact ==
  ASSUME seen \in Seq(Events), Len(seen) <= DedupSize, NEW e \in Events, Remember(e)
  PROVE  /\ seen' \in Seq(Events) /\ Len(seen') <= DedupSize
         /\ Holds(seen', e)
         /\ \A i \in DOMAIN seen' : seen'[i] = e \/ Holds(seen, seen'[i])
         /\ \A j \in DOMAIN seen : \/ Holds(seen', seen[j])
                                   \/ (~InSeen(e) /\ Len(seen') = DedupSize)
         /\ Distinct(seen) => Distinct(seen')
  <1> DEFINE r == Refreshed(e)
  <1>1. /\ r \in Seq(Events) /\ Len(r) > 0 /\ r[Len(r)] = e
        /\ Len(r) = IF InSeen(e) THEN Len(seen) ELSE Len(seen) + 1
        /\ \A i \in DOMAIN r : r[i] = e \/ Holds(seen, r[i])
        /\ \A j \in DOMAIN seen : Holds(r, seen[j])
        /\ Distinct(seen) => Distinct(r)
    BY RefreshedFact
  <1>2. seen' = IF Len(r) > DedupSize THEN Tail(r) ELSE r
    BY DEF Remember
  <1> HIDE DEF r
  <1>3. /\ Len(r) \in Nat /\ DOMAIN r = 1 .. Len(r) /\ Len(seen) \in Nat
        /\ DedupSize \in Nat \ {0}
    BY <1>1, LenProperties, BusAssumption
  <1>4. CASE Len(r) <= DedupSize
    <2>1. seen' = r
      <3>1. ~(Len(r) > DedupSize)
        BY <1>3, <1>4
      <3> QED BY <1>2, <3>1
    <2> QED BY <1>1, <1>3, <1>4, <2>1 DEF Holds
  <1>5. CASE Len(r) > DedupSize
    <2>1. seen' = Tail(r) /\ r # << >>
      BY <1>1, <1>2, <1>5
    <2>2. /\ seen' \in Seq(Events) /\ Len(seen') = Len(r) - 1
          /\ \A i \in 1 .. Len(seen') : seen'[i] = r[i + 1]
      BY <1>1, <2>1, HeadTailProperties
    <2>3. ~InSeen(e) /\ Len(r) = DedupSize + 1
      BY <1>1, <1>3, <1>5
    <2>4. DOMAIN seen' = 1 .. DedupSize /\ Len(seen') = DedupSize
      BY <1>3, <2>2, <2>3, LenProperties
    <2>5. \A i \in 1 .. DedupSize : i + 1 \in DOMAIN r /\ seen'[i] = r[i + 1]
      BY <1>3, <2>2, <2>3, <2>4
    <2>6. Holds(seen', e)
      BY <1>1, <1>3, <2>3, <2>4, <2>5 DEF Holds
    <2>7. Distinct(r) => Distinct(seen')
      <3>1. ASSUME NEW i \in 1 .. DedupSize, NEW j \in 1 .. DedupSize, Distinct(r), seen'[i] = seen'[j]
            PROVE  i = j
        <4>1. i + 1 = j + 1
          BY <2>5, <3>1 DEF Distinct
        <4> QED BY <1>3, <4>1
      <3> QED BY <2>4, <3>1 DEF Distinct
    <2>8. \A i \in DOMAIN seen' : seen'[i] = e \/ Holds(seen, seen'[i])
      BY <1>1, <2>4, <2>5
    <2> QED BY <1>1, <1>3, <2>2, <2>3, <2>4, <2>6, <2>7, <2>8
  <1> QED BY <1>3, <1>4, <1>5

\* Of pairwise distinct ids there are no more than in any set that has them all.
LEMMA DistinctIds ==
  ASSUME NEW s \in Seq(Events), Distinct(s), NEW P, IsFiniteSet(P), \A i \in DOMAIN s : s[i] \in P
  PROVE  Len(s) <= Cardinality(P)
  <1>1. DOMAIN s = 1 .. Len(s) /\ Len(s) \in Nat
    BY LenProperties
  <1>2. s \in [1 .. Len(s) -> P]
    BY <1>1, LenProperties
  <1>3. s \in Injection(1 .. Len(s), P)
    BY <1>1, <1>2, Fun_IsInj DEF Distinct
  <1>4. Cardinality(1 .. Len(s)) = Len(s)
    BY <1>1, FS_Interval, SMTT(30)
  <1>5. Cardinality(1 .. Len(s)) <= Cardinality(P)
    BY <1>3, FS_Injection, Zenon
  <1> QED BY <1>4, <1>5

\* What is newer than a remembered id is finite, and less than the dedup holds.
LEMMA NewerFact ==
  ASSUME NEW s \in Seq(Events), NEW i \in DOMAIN s
  PROVE  /\ IsFiniteSet(Newer(s, i)) /\ Cardinality(Newer(s, i)) \in Nat
         /\ Cardinality(Newer(s, i)) < Len(s)
  <1> DEFINE I == i + 1 .. Len(s)
             f == [j \in I |-> s[j]]
  <1>1. i \in 1 .. Len(s) /\ Len(s) \in Nat
    BY LenProperties
  <1>2. IsFiniteSet(I) /\ Cardinality(I) \in Nat /\ Cardinality(I) < Len(s)
    <2>1. IsFiniteSet(1 .. Len(s)) /\ Cardinality(1 .. Len(s)) = Len(s)
      <3> HIDE DEF I, f
      <3>1. Len(s) \in Int /\ 1 \in Int /\ ~(1 > Len(s)) /\ Len(s) - 1 + 1 = Len(s)
        BY <1>1
      <3>2. /\ IsFiniteSet(1 .. Len(s))
            /\ Cardinality(1 .. Len(s)) = IF 1 > Len(s) THEN 0 ELSE Len(s) - 1 + 1
        BY <3>1, FS_Interval, Zenon
      <3> QED BY <3>1, <3>2
    <2>2. /\ IsFiniteSet(1 .. Len(s) \ {i})
          /\ Cardinality(1 .. Len(s) \ {i}) = Len(s) - 1
      BY <1>1, <2>1, FS_RemoveElement
    <2>3. I \in SUBSET (1 .. Len(s) \ {i})
      BY <1>1
    <2> HIDE DEF I
    <2>4. IsFiniteSet(I) /\ Cardinality(I) <= Cardinality(1 .. Len(s) \ {i})
      BY <2>2, <2>3, FS_Subset, Zenon
    <2> QED BY <1>1, <2>2, <2>4, FS_CardinalityType
  <1>3. f \in Surjection(I, Newer(s, i))
    <2>1. f \in [I -> Newer(s, i)] /\ \A x \in Newer(s, i) : \E j \in I : f[j] = x
      BY DEF Newer
    <2> HIDE DEF f, I
    <2> QED BY <2>1, Fun_IsSurj
  <1>4. IsFiniteSet(Newer(s, i)) /\ Cardinality(Newer(s, i)) <= Cardinality(I)
    <2> HIDE DEF f, I
    <2> QED BY <1>2, <1>3, FS_Surjection, Zenon
  <1>5. Cardinality(Newer(s, i)) \in Nat
    BY <1>4, FS_CardinalityType
  <1> HIDE DEF I
  <1> QED BY <1>1, <1>2, <1>4, <1>5

\* A position is the last one, or before w, or from w on and not the last.
LEMMA Around ==
  ASSUME NEW n \in Nat, NEW w \in 1 .. n, NEW j \in 1 .. n
  PROVE  j = n \/ j < w \/ j \in w .. n - 1
  OBVIOUS

\* Refreshing an id adds it to what is newer than each of the others.
LEMMA RefreshedOrder ==
  ASSUME seen \in Seq(Events), Distinct(seen), NEW e \in Events, NEW i \in DOMAIN Refreshed(e)
  PROVE  \/ Refreshed(e)[i] = e /\ Newer(Refreshed(e), i) = {}
         \/ \E k \in DOMAIN seen : /\ seen[k] = Refreshed(e)[i] /\ seen[k] # e
                                   /\ Newer(Refreshed(e), i) = Newer(seen, k) \cup {e}
  <1> DEFINE r == Refreshed(e)
             n == Len(seen)
  <1>1. n \in Nat /\ DOMAIN seen = 1 .. n
    BY LenProperties
  <1>2. CASE InSeen(e)
    <2> DEFINE was == CHOOSE j \in DOMAIN seen : seen[j] = e
               k   == IF i < was THEN i ELSE i + 1
    <2>1. was \in 1 .. n /\ seen[was] = e
      BY <1>1, <1>2 DEF InSeen
    <2>2. r = [j \in 1 .. n |-> IF j < was THEN seen[j] ELSE IF j < n THEN seen[j + 1] ELSE e]
      BY <1>1, <1>2 DEF Refreshed
    <2>3. Len(r) = n /\ DOMAIN r = 1 .. n
      <3>1. r \in Seq(Events) /\ Len(r) = n
        BY <1>2, RefreshedFact
      <3> HIDE DEF r
      <3> QED BY <3>1, LenProperties
    <2> HIDE DEF r, was
    <2>4. i \in 1 .. n
      BY <2>3 DEF r
    <2>5. CASE i = n
      <3>1. r[i] = e /\ Newer(r, i) = {}
        BY <1>1, <2>1, <2>2, <2>3, <2>5 DEF Newer
      <3> QED BY <3>1 DEF r
    <2>6. CASE i < n
      <3>1. k \in 1 .. n /\ k # was /\ seen[k] = r[i]
        BY <1>1, <2>1, <2>2, <2>4, <2>6
      <3>2. seen[k] # e
        BY <1>1, <2>1, <3>1 DEF Distinct
      <3>3. ASSUME NEW j \in i + 1 .. n PROVE r[j] \in Newer(seen, k) \cup {e}
        <4>0. j \in Nat /\ i + 1 <= j /\ j <= n /\ j \in 1 .. n
          <5> HIDE DEF k
          <5> QED BY <1>1, <2>4
        <4>1. CASE j = n
          BY <1>1, <2>1, <2>2, <2>4, <4>1
        <4>2. CASE j < was
          <5>1. j \in k + 1 .. n /\ r[j] = seen[j]
            BY <1>1, <2>1, <2>2, <2>4, <4>2
          <5> QED BY <5>1 DEF Newer
        <4>3. CASE j \in was .. n - 1
          <5>0. j \in 1 .. n /\ j < n /\ ~(j < was) /\ was <= j
            BY <1>1, <2>1, <4>0, <4>3
          <5>1. r[j] = seen[j + 1]
            <6> HIDE DEF k
            <6> QED BY <2>2, <5>0
          <5>2. j + 1 \in k + 1 .. n
            <6>1. k \in Nat /\ k <= j
              <7>1. k = i \/ (k = i + 1 /\ ~(i < was))
                OBVIOUS
              <7> HIDE DEF k
              <7> QED BY <1>1, <2>1, <2>4, <4>0, <5>0, <7>1
            <6> HIDE DEF k
            <6> QED BY <1>1, <5>0, <6>1
          <5> HIDE DEF k
          <5> QED BY <1>1, <5>1, <5>2 DEF Newer
        <4>4. j = n \/ j < was \/ j \in was .. n - 1
          <5> HIDE DEF k
          <5> QED BY <1>1, <2>1, <4>0, Around, Zenon
        <4> QED BY <4>1, <4>2, <4>3, <4>4
      <3>4. e \in Newer(r, i)
        <4>1. n \in i + 1 .. n /\ r[n] = e
          BY <1>1, <2>1, <2>2, <2>4, <2>6
        <4> QED BY <2>3, <4>1 DEF Newer
      <3>5. ASSUME NEW m \in k + 1 .. n PROVE seen[m] \in Newer(r, i)
        <4>1. CASE m < was
          <5>1. m \in i + 1 .. n /\ r[m] = seen[m]
            BY <1>1, <2>1, <2>2, <2>4, <4>1
          <5> QED BY <2>3, <5>1 DEF Newer
        <4>2. CASE m = was
          BY <2>1, <3>4, <4>2
        <4>3. CASE m > was
          <5>1. m - 1 \in i + 1 .. n /\ r[m - 1] = seen[m]
            BY <1>1, <2>1, <2>2, <2>4, <4>3
          <5> QED BY <2>3, <5>1 DEF Newer
        <4> QED BY <1>1, <2>1, <2>4, <4>1, <4>2, <4>3
      <3>6. Newer(r, i) = Newer(seen, k) \cup {e}
        <4>1. \A x \in Newer(r, i) : x \in Newer(seen, k) \cup {e}
          <5>1. \A x \in Newer(r, i) : \E j \in i + 1 .. n : x = r[j]
            BY <2>3 DEF Newer
          <5> QED BY <3>3, <5>1
        <4>2. \A x \in Newer(seen, k) : x \in Newer(r, i)
          <5>1. \A x \in Newer(seen, k) : \E m \in k + 1 .. n : x = seen[m]
            BY DEF Newer
          <5> HIDE DEF k
          <5> QED BY <3>5, <5>1
        <4> HIDE DEF k
        <4> QED BY <3>4, <4>1, <4>2
      <3> HIDE DEF k
      <3> QED BY <1>1, <3>1, <3>2, <3>6 DEF r
    <2> QED BY <1>1, <2>4, <2>5, <2>6
  <1>3. CASE ~InSeen(e)
    <2>1. r = Append(seen, e)
      BY <1>3 DEF Refreshed
    <2> HIDE DEF r
    <2>2. /\ Len(r) = n + 1 /\ DOMAIN r = 1 .. n + 1
          /\ r[n + 1] = e /\ \A j \in 1 .. n : r[j] = seen[j]
      BY <1>1, <2>1, AppendProperties, LenProperties
    <2>3. i \in 1 .. n + 1
      BY <2>2 DEF r
    <2>4. CASE i = n + 1
      <3>1. r[i] = e /\ Newer(r, i) = {}
        BY <1>1, <2>2, <2>4 DEF Newer
      <3> QED BY <3>1 DEF r
    <2>5. CASE i < n + 1
      <3>1. i \in 1 .. n /\ seen[i] = r[i] /\ seen[i] # e
        BY <1>1, <1>3, <2>2, <2>3, <2>5 DEF InSeen
      <3>2. \A j : j \in i + 1 .. n + 1 <=> j \in i + 1 .. n \/ j = n + 1
        BY <1>1, <3>1
      <3>3. \A j \in i + 1 .. n : r[j] = seen[j]
        BY <1>1, <2>2, <3>1
      <3>4. Newer(r, i) = Newer(seen, i) \cup {e}
        BY <2>2, <3>2, <3>3 DEF Newer
      <3> QED BY <1>1, <3>1, <3>4 DEF r
    <2> QED BY <1>1, <2>3, <2>4, <2>5
  <1> QED BY <1>2, <1>3

\* After a lookup what is newer than an id has grown by the one looked up,
\* and an id is evicted only if it leaves dedup_max_size newer ones.
LEMMA RememberOrder ==
  ASSUME seen \in Seq(Events), Len(seen) <= DedupSize, Distinct(seen), NEW e \in Events, Remember(e)
  PROVE  /\ \A i \in DOMAIN seen' :
               \/ seen'[i] = e /\ Newer(seen', i) = {}
               \/ \E k \in DOMAIN seen : /\ seen[k] = seen'[i] /\ seen[k] # e
                                         /\ Newer(seen', i) = Newer(seen, k) \cup {e}
         /\ \A k \in DOMAIN seen :
               Holds(seen', seen[k]) \/ Cardinality(Newer(seen, k) \cup {e}) >= DedupSize
  <1> DEFINE r == Refreshed(e)
             Moved(s, i) == \/ s[i] = e /\ Newer(s, i) = {}
                            \/ \E k \in DOMAIN seen : /\ seen[k] = s[i] /\ seen[k] # e
                                                      /\ Newer(s, i) = Newer(seen, k) \cup {e}
  <1>1. /\ r \in Seq(Events) /\ Len(r) > 0 /\ Distinct(r)
        /\ \A j \in DOMAIN seen : Holds(r, seen[j])
    BY RefreshedFact
  <1>2. \A i \in DOMAIN r : Moved(r, i)
    BY RefreshedOrder
  <1>3. seen' = IF Len(r) > DedupSize THEN Tail(r) ELSE r
    BY DEF Remember
  <1>4. /\ seen' \in Seq(Events) /\ Distinct(seen')
        /\ \A j \in DOMAIN seen : Holds(seen', seen[j]) \/ Len(seen') = DedupSize
    BY RememberFact
  <1> HIDE DEF r
  <1>5. Len(r) \in Nat /\ DOMAIN r = 1 .. Len(r) /\ DedupSize \in Nat \ {0}
    BY <1>1, LenProperties, BusAssumption
  <1>6. CASE ~(Len(r) > DedupSize)
    <2>1. seen' = r
      BY <1>3, <1>6
    <2> QED BY <1>1, <1>2, <2>1
  <1>7. CASE Len(r) > DedupSize
    <2>1. seen' = Tail(r) /\ r # << >>
      BY <1>1, <1>3, <1>7
    <2>2. /\ Len(seen') = Len(r) - 1 /\ DOMAIN seen' = 1 .. Len(r) - 1
          /\ \A i \in 1 .. Len(seen') : seen'[i] = r[i + 1]
      BY <1>1, <1>4, <2>1, HeadTailProperties, LenProperties
    <2>3. \A i \in DOMAIN seen' : i + 1 \in DOMAIN r /\ seen'[i] = r[i + 1] /\ Newer(seen', i) = Newer(r, i + 1)
      <3> TAKE i \in DOMAIN seen'
      <3>1. i \in Nat /\ i + 1 \in 1 .. Len(r) /\ seen'[i] = r[i + 1]
        BY <1>5, <2>2
      <3>2. \A j \in i + 1 .. Len(seen') : j + 1 \in i + 2 .. Len(r) /\ seen'[j] = r[j + 1]
        BY <1>5, <2>2, <3>1
      <3>3. \A j \in (i + 1) + 1 .. Len(r) : j - 1 \in i + 1 .. Len(seen') /\ r[j] = seen'[j - 1]
        BY <1>5, <2>2, <3>1
      <3>4. Newer(seen', i) \subseteq Newer(r, i + 1)
        <4>1. \A x \in Newer(seen', i) : \E j \in i + 1 .. Len(seen') : x = seen'[j]
          BY DEF Newer
        <4>2. i + 2 .. Len(r) = (i + 1) + 1 .. Len(r)
          BY <3>1
        <4> QED BY <3>2, <4>1, <4>2 DEF Newer
      <3>5. Newer(r, i + 1) \subseteq Newer(seen', i)
        <4>1. \A x \in Newer(r, i + 1) : \E j \in (i + 1) + 1 .. Len(r) : x = r[j]
          BY DEF Newer
        <4> QED BY <3>3, <4>1 DEF Newer
      <3> QED BY <1>5, <3>1, <3>4, <3>5
    <2>4. \A i \in DOMAIN seen' : Moved(seen', i)
      BY <1>2, <2>3
    <2>5. ASSUME NEW k \in DOMAIN seen, ~Holds(seen', seen[k])
          PROVE  Cardinality(Newer(seen, k) \cup {e}) >= DedupSize
      <3>1. Len(seen') = DedupSize
        BY <1>4, <2>5
      <3>2. PICK j \in DOMAIN r : r[j] = seen[k]
        BY <1>1 DEF Holds
      <3>3. j = 1
        <4> SUFFICES ASSUME j # 1 PROVE FALSE
          OBVIOUS
        <4>1. j - 1 \in DOMAIN seen' /\ seen'[j - 1] = r[j]
          BY <1>5, <2>2, <3>2
        <4> QED BY <2>5, <3>2, <4>1 DEF Holds
      <3>4. seen[k] # e
        <4>1. Holds(seen', e)
          BY RememberFact
        <4> QED BY <2>5, <4>1
      <3>5. PICK l \in DOMAIN seen : seen[l] = r[1] /\ Newer(r, 1) = Newer(seen, l) \cup {e}
        BY <1>2, <3>2, <3>3, <3>4
      <3>6. l = k
        BY <3>2, <3>3, <3>5 DEF Distinct
      <3>7. \A i \in DOMAIN seen' : seen'[i] \in Newer(r, 1)
        <4>1. \A i \in DOMAIN seen' : i + 1 \in 1 + 1 .. Len(r) /\ seen'[i] = r[i + 1]
          BY <1>5, <2>2
        <4> QED BY <4>1 DEF Newer
      <3>8. IsFiniteSet(Newer(r, 1))
        BY <1>1, <3>2, <3>3, NewerFact
      <3>9. Len(seen') <= Cardinality(Newer(r, 1)) /\ Cardinality(Newer(r, 1)) \in Nat
        BY <1>4, <3>7, <3>8, DistinctIds, FS_CardinalityType
      <3> QED BY <1>5, <3>1, <3>5, <3>6, <3>9
    <2> QED BY <2>4, <2>5
  <1> QED BY <1>6, <1>7

-----------------------------------------------------------------------------
(* Type correctness. *)

\* Positions of the stream are numbers.
LEMMA StreamTyped ==
  ASSUME TypeOK
  PROVE  /\ Len(stream) \in Nat /\ lastRead \in Nat /\ trimmed \in Nat /\ batch \subseteq Nat
         /\ lastRead <= Len(stream) /\ trimmed <= Len(stream)
  <1>1. /\ stream \in Seq(Message)
        /\ trimmed \in 0 .. Len(stream) /\ lastRead \in 0 .. Len(stream) /\ batch \subseteq 1 .. lastRead
    BY DEF TypeOK
  <1>2. Len(stream) \in Nat
    BY <1>1, LenProperties
  <1>3. lastRead \in Nat /\ trimmed \in Nat /\ lastRead <= Len(stream) /\ trimmed <= Len(stream)
    BY <1>1, <1>2
  <1> QED BY <1>1, <1>2, <1>3

\* The message the consumer has in its hands.
LEMMA CurrentFact ==
  ASSUME TypeOK, batch # {}
  PROVE  /\ Current \in batch /\ Current \in 1 .. lastRead /\ Current \in 1 .. Len(stream)
         /\ Current \in Messages
         /\ stream[Current] \in Message /\ CurrentEvent \in Events
         /\ \A k \in batch : Current <= k
  <1>1. /\ batch \subseteq 1 .. lastRead /\ lastRead \in 0 .. Len(stream)
        /\ Len(stream) \in Nat /\ Len(stream) <= MaxMessages /\ MaxMessages \in Nat
        /\ DOMAIN stream = 1 .. Len(stream) /\ stream \in Seq(Message)
    BY LenProperties, BusBounds DEF TypeOK
  <1>2. Current \in batch /\ \A k \in batch : Current <= k
    <2>1. batch \subseteq Nat
      BY <1>1
    <2> QED BY <2>1, MinFact DEF Current
  <1>3. Current \in 1 .. lastRead /\ Current \in 1 .. Len(stream) /\ Current \in Messages
    BY <1>1, <1>2 DEF Messages
  <1>4. stream[Current] \in Message
    BY <1>1, <1>3, ElementOfSeq
  <1> QED BY <1>2, <1>3, <1>4 DEF CurrentEvent, Message

\* XREADGROUP delivers the first unread messages that were not trimmed, and
\* moves the group's last delivered message over them.
LEMMA DeliverFact ==
  ASSUME TypeOK, Deliver
  PROVE  /\ lastRead' \in 1 .. Len(stream) /\ lastRead < lastRead'
         /\ FirstOf(Unread) # {} /\ FirstOf(Unread) \subseteq lastRead + 1 .. lastRead'
         /\ \A m \in lastRead + 1 .. lastRead' : m <= trimmed \/ m \in FirstOf(Unread)
         /\ pel' = pel \cup FirstOf(Unread) /\ deliveries' = deliveries
         /\ pel' \subseteq 1 .. lastRead' /\ FirstOf(Unread) \subseteq 1 .. lastRead'
  <1> DEFINE first == FirstOf(Unread)
  <1>1. /\ lastRead \in 0 .. Len(stream) /\ Len(stream) \in Nat /\ trimmed \in 0 .. Len(stream)
        /\ Unread = {m \in lastRead + 1 .. Len(stream) : m > trimmed} /\ Unread # {}
        /\ lastRead' = Max(first) /\ pel' = pel \cup first /\ deliveries' = deliveries
    BY LenProperties DEF TypeOK, Deliver, Unread
  <1>2. Unread \subseteq Nat /\ IsFiniteSet(Unread)
    <2>1. Unread \subseteq lastRead + 1 .. Len(stream) /\ IsFiniteSet(lastRead + 1 .. Len(stream))
      BY <1>1, FS_Interval
    <2> QED BY <1>1, <2>1, FS_Subset
  <1>3. /\ first \subseteq Unread /\ first # {}
        /\ \A m \in first, k \in Unread : k <= m => k \in first
    BY <1>1, <1>2, FirstOfFact
  <1> HIDE DEF first
  <1>4. lastRead' \in first /\ \A m \in first : m <= lastRead'
    <2>1. \A m \in first : m <= Len(stream)
      BY <1>1, <1>3
    <2>2. first \in SUBSET Nat
      BY <1>2, <1>3
    <2> QED BY <1>1, <1>3, <2>1, <2>2, MaxFact
  <1>5. \A m \in first : m \in lastRead + 1 .. lastRead' /\ m \in 1 .. Len(stream)
    BY <1>1, <1>3, <1>4
  <1>6. ASSUME NEW m \in lastRead + 1 .. lastRead', ~(m <= trimmed) PROVE m \in first
    <2>1. m \in Unread /\ m <= lastRead'
      BY <1>1, <1>4, <1>5, <1>6
    <2> QED BY <1>3, <1>4, <2>1
  <1>7. first \subseteq lastRead + 1 .. lastRead' /\ lastRead' \in 1 .. Len(stream) /\ lastRead < lastRead'
    BY <1>1, <1>4, <1>5
  <1>8. pel' \subseteq 1 .. lastRead' /\ first \subseteq 1 .. lastRead'
    <2>1. pel \subseteq 1 .. lastRead
      BY DEF TypeOK
    <2>2. \A m : m \in 1 .. lastRead \/ m \in lastRead + 1 .. lastRead' => m \in 1 .. lastRead'
      BY <1>1, <1>7
    <2> QED BY <1>1, <1>7, <2>1, <2>2
  <1> QED BY <1>1, <1>3, <1>6, <1>7, <1>8 DEF first

\* What XAUTOCLAIM claims was pending.
LEMMA ReclaimFact ==
  ASSUME TypeOK, NEW idle \in SUBSET pel
  PROVE  FirstOf(idle) \subseteq pel
  BY DEF FirstOf

\* The next message, or the next XREADGROUP.
LEMMA NextMessageFact ==
  ASSUME TypeOK, batch # {}, NextMessage
  PROVE  /\ batch' \subseteq batch /\ Current \notin batch'
         /\ reclaiming' = reclaiming
         /\ \/ pc' = "read" /\ batch' = {}
            \/ pc' = "bump" /\ batch' # {}
  BY DEF NextMessage

\* Where a delivery goes: to the dead letters, past the handlers, or to the
\* pipeline.
LEMMA RouteFact ==
  ASSUME TypeOK, pc = "bump", NEW count, Route(count)
  PROVE  /\ dispatched' = [dispatched EXCEPT ![Current] = dispatched[Current] + 1]
         /\ UNCHANGED <<batch, reclaiming, lastRead, pel, dlq, seen, since>>
         /\ \/ pc' = "deadAdd" /\ fate' = fate /\ (ShouldDeadLetter(count) \/ ~stream[Current].ok)
            \/ /\ pc' = "ack" /\ fate' = [fate EXCEPT ![Current] = "foreign"]
               /\ CurrentEvent \in Foreign
            \/ pc' = "handle" /\ fate' = fate /\ CurrentEvent \notin Foreign
  BY DEF Route, Goto, CurrentEvent

\* Steps of the consumer and of the faults keep the variables typed.
LEMMA ConsumerType ==
  ASSUME TypeOK, Consumer \/ Fault
  PROVE  TypeOK'
  <1> USE DEF Goto, Frame, RaiseFrame, groupVars, processVars, toolVars, historyVars, budgetVars
  <1>0. batch # {} => Current \in Messages /\ Current \in 1 .. lastRead /\ CurrentEvent \in Events
    BY CurrentFact
  <1>1. CASE Start \/ ReclaimFault \/ Stop
    <2>1. /\ pc' \in {"reclaim", "read", "stopped"} /\ pc \in {"down", "reclaim", "read"}
          /\ UNCHANGED <<stream, trimmed, groupVars, dlq, batch, reclaiming, seen, toolVars, historyVars>>
          /\ faults' \in Nat /\ crashes' \in Nat
      BY <1>1, SMTT(30) DEF TypeOK, Start, ReclaimFault, Stop
    <2> QED BY <2>1 DEF TypeOK
  <1>2. CASE Crash
    <2>1. /\ pc' = "down" /\ batch' = {} /\ reclaiming' = FALSE /\ seen' = << >>
          /\ since' = [e \in {} |-> {}]
          /\ UNCHANGED <<stream, trimmed, groupVars, dlq, toolVars, dispatched, fate, faults>>
          /\ crashes' \in Nat
      BY <1>2 DEF TypeOK, Crash
    <2>2. seen' \in Seq(Events) /\ Len(seen') <= DedupSize
      BY <2>1, BusAssumption, EmptySeq
    <2>3. DOMAIN since' \subseteq Events /\ since' \in [DOMAIN since' -> SUBSET Events]
      BY <2>1
    <2> QED BY <2>1, <2>2, <2>3 DEF TypeOK
  <1>3. CASE Read \/ ReadFault
    <2>1. pc = "read" /\ Deliver
      BY <1>3 DEF Read, ReadFault
    <2>2. /\ lastRead' \in 0 .. Len(stream) /\ pel' \subseteq 1 .. lastRead' /\ deliveries' = deliveries
          /\ FirstOf(Unread) \subseteq 1 .. lastRead' /\ FirstOf(Unread) # {}
      BY <2>1, DeliverFact
    <2>3. /\ \/ batch' = FirstOf(Unread) /\ pc' = "bump" /\ reclaiming' = FALSE
             \/ batch' = {} /\ pc' = "read" /\ reclaiming' = reclaiming
          /\ faults' \in Nat
          /\ UNCHANGED <<stream, trimmed, dlq, seen, toolVars, historyVars, crashes>>
      BY <1>3, <2>1, <2>2, SMTT(30) DEF Read, ReadFault, TakeBatch, TypeOK
    <2> QED BY <2>2, <2>3 DEF TypeOK
  <1>4. ASSUME NEW idle \in SUBSET pel, Reclaim(idle) PROVE TypeOK'
    <2>1. /\ pel' \subseteq pel /\ batch' \subseteq pel
          /\ pc' = IF batch' = {} THEN "read" ELSE "bump"
          /\ reclaiming' = TRUE
          /\ UNCHANGED <<stream, trimmed, lastRead, deliveries, dlq, seen, toolVars, historyVars, budgetVars>>
      BY <1>4, ReclaimFact DEF Reclaim, TakeBatch
    <2> QED BY <2>1 DEF TypeOK
  <1>5. CASE Bump \/ BumpFault
    <2>1. /\ pc = "bump" /\ \E count : Route(count)
          /\ deliveries' \in {deliveries, [deliveries EXCEPT ![Current] = deliveries[Current] + 1]}
          /\ UNCHANGED <<stream, trimmed, toolVars, crashes>> /\ faults' \in Nat
      BY <1>5, SMTT(30) DEF Bump, BumpFault, TypeOK
    <2>2. /\ dispatched' = [dispatched EXCEPT ![Current] = dispatched[Current] + 1]
          /\ UNCHANGED <<batch, reclaiming, lastRead, pel, dlq, seen, since>>
          /\ fate' = fate \/ fate' = [fate EXCEPT ![Current] = "foreign"]
          /\ pc' \in {"deadAdd", "ack", "handle"}
      BY <2>1, RouteFact
    <2>3. Current \in Messages
      BY <1>0, <2>1 DEF TypeOK
    <2>4. deliveries' \in [Messages -> Nat]
      <3>1. CASE deliveries' = [deliveries EXCEPT ![Current] = deliveries[Current] + 1]
        BY <2>3, <3>1 DEF TypeOK
      <3> QED BY <2>1, <3>1 DEF TypeOK
    <2>5. dispatched' \in [Messages -> Nat]
      BY <2>2, <2>3 DEF TypeOK
    <2>6. fate' \in [Messages -> Fates]
      <3>1. CASE fate' = [fate EXCEPT ![Current] = "foreign"]
        BY <2>3, <3>1 DEF TypeOK, Fates
      <3> QED BY <2>2, <3>1 DEF TypeOK
    <2> QED BY <2>1, <2>2, <2>4, <2>5, <2>6 DEF TypeOK
  <1>6. CASE DropDuplicate \/ Refuse \/ BeginHandling
    <2>1. /\ pc = "handle" /\ Remember(CurrentEvent) /\ pc' \in {"ack", "running"}
          /\ fate' \in {fate, [fate EXCEPT ![Current] = "duplicate"], [fate EXCEPT ![Current] = "refused"]}
          /\ since' = SinceAsked(CurrentEvent)
          /\ UNCHANGED <<stream, trimmed, toolVars, budgetVars, batch, reclaiming, groupVars, dlq, dispatched>>
      BY <1>6 DEF DropDuplicate, Refuse, BeginHandling, AskDedup, SinceAsked
    <2>2. seen' \in Seq(Events) /\ Len(seen') <= DedupSize
      BY <1>0, <2>1, RememberFact DEF TypeOK
    <2>3. Current \in Messages /\ CurrentEvent \in Events
      BY <1>0, <2>1 DEF TypeOK
    <2>4. fate' \in [Messages -> Fates]
      <3>1. ASSUME NEW f \in {"duplicate", "refused"}, fate' = [fate EXCEPT ![Current] = f]
            PROVE  fate' \in [Messages -> Fates]
        BY <2>3, <3>1 DEF TypeOK, Fates
      <3> QED BY <2>1, <3>1 DEF TypeOK
    <2>5. DOMAIN since' \subseteq Events /\ since' \in [DOMAIN since' -> SUBSET Events]
      BY <2>1, <2>3 DEF TypeOK, SinceAsked
    <2> QED BY <2>1, <2>2, <2>4, <2>5 DEF TypeOK
  <1>7. ASSUME NEW outcome \in Outcomes, EndHandling(outcome) PROVE TypeOK'
    BY <1>0, <1>7 DEF TypeOK, EndHandling, Fates
  <1>8. CASE Ack \/ DeadAck \/ AckFault
    <2>1. /\ pel' \in {pel, pel \ {Current}}
          /\ \/ pc \in {"ack", "deadAck"} /\ pc' = "clear" /\ UNCHANGED <<batch, reclaiming>>
             \/ batch' = {} /\ pc' \in {"read", "stopped"} /\ reclaiming' = FALSE
          /\ UNCHANGED <<stream, trimmed, lastRead, deliveries, dlq, seen, toolVars, historyVars, crashes>>
          /\ faults' \in Nat
      BY <1>8 DEF TypeOK, Ack, DeadAck, AckFault, RemovePending
    <2> QED BY <2>1 DEF TypeOK
  <1>9. CASE Clear \/ ClearFault
    <2>1. /\ pc = "clear" /\ NextMessage
          /\ deliveries' \in {deliveries, [deliveries EXCEPT ![Current] = 0]}
          /\ UNCHANGED <<stream, trimmed, toolVars, crashes, lastRead, pel, dlq, seen, historyVars>>
          /\ faults' \in Nat
      BY <1>9 DEF Clear, ClearFault, TypeOK
    <2>2. batch # {}
      BY <2>1 DEF TypeOK
    <2>3. /\ batch' \subseteq batch /\ reclaiming' = reclaiming
          /\ pc' = IF batch' = {} THEN "read" ELSE "bump"
      BY <2>1, <2>2, NextMessageFact
    <2>4. deliveries' \in [Messages -> Nat]
      BY <1>0, <2>1, <2>2 DEF TypeOK
    <2> QED BY <2>1, <2>3, <2>4 DEF TypeOK
  <1>10. CASE DeadAdd \/ DeadLetterFault
    <2>1. /\ pc \in {"deadAdd", "deadAck"}
          /\ dlq' = dlq \/ AddDeadLetter
          /\ pel' \in {pel, pel \ {Current}}
          /\ UNCHANGED <<stream, trimmed, toolVars, crashes, lastRead, deliveries, seen, historyVars>>
          /\ faults' \in Nat
          /\ NextMessage \/ (pc' = "deadAck" /\ UNCHANGED <<batch, reclaiming>>)
      BY <1>10 DEF DeadAdd, DeadLetterFault, RemovePending, TypeOK
    <2>2. dlq' \in Seq(DeadLetter) /\ DOMAIN dlq \subseteq DOMAIN dlq'
      <3>1. CASE AddDeadLetter
        <4>1. [event |-> CurrentEvent, msg |-> Current, since |-> Len(stream), state |-> "kept"] \in DeadLetter
          BY <1>0, <2>1, BusBounds DEF TypeOK, DeadLetter
        <4> QED BY <3>1, <4>1, AppendProperties, LenProperties DEF AddDeadLetter, TypeOK
      <3> QED BY <2>1, <3>1 DEF TypeOK
    <2>3. batch # {}
      BY <2>1 DEF TypeOK
    <2>4. \/ /\ batch' \subseteq batch /\ reclaiming' = reclaiming
             /\ pc' = IF batch' = {} THEN "read" ELSE "bump"
          \/ pc' = "deadAck" /\ UNCHANGED <<batch, reclaiming>>
      BY <2>1, <2>3, NextMessageFact
    <2> QED BY <2>1, <2>2, <2>3, <2>4 DEF TypeOK
  <1>11. CASE ReplayFault
    BY <1>11 DEF TypeOK, ReplayFault, ToolFrame
  <1> QED BY <1>1, <1>2, <1>3, <1>4, <1>5, <1>6, <1>7, <1>8, <1>9, <1>10, <1>11 DEF Consumer, Fault

\* So do those of the operator, and of the publishers of messages.
LEMMA OperatorType ==
  ASSUME TypeOK, ReplayInv, Operator \/ \E message \in Message : Publish(message)
  PROVE  TypeOK'
  <1> USE DEF ToolFrame, groupVars, processVars, toolVars, historyVars, budgetVars
  <1>1. dlq \in Seq(DeadLetter) /\ DOMAIN dlq = 1 .. Len(dlq) /\ Len(dlq) \in Nat
        /\ stream \in Seq(Message) /\ Len(stream) \in Nat
    BY LenProperties DEF TypeOK
  <1>2. ASSUME NEW message \in Message, Publish(message) PROVE TypeOK'
    <2>1. stream' \in Seq(Message) /\ Len(stream') = Len(stream) + 1 /\ Len(stream') <= MaxMessages
      BY <1>1, <1>2, AppendProperties, BusBounds DEF Publish, Add
    <2>2. trimmed' \in 0 .. Len(stream')
      BY <1>1, <1>2, <2>1, BusAssumption, SMTT(30) DEF Publish, TypeOK
    <2>3. lastRead \in 0 .. Len(stream')
      BY <1>1, <2>1 DEF TypeOK
    <2> QED BY <1>2, <2>1, <2>2, <2>3 DEF Publish, TypeOK
  <1>3. ASSUME NEW chosen \in SUBSET Letters, ReplayList(chosen) PROVE TypeOK'
    BY <1>3 DEF TypeOK, ReplayList, Letters
  <1>4. CASE ReplayAdd
    <2> DEFINE message == [event |-> dlq[Min(toReplay)].event, ok |-> TRUE]
    <2>1. Min(toReplay) \in DOMAIN dlq
      <3>1. toReplay \subseteq DOMAIN dlq /\ toReplay # {} /\ toReplay \in SUBSET Nat
        BY <1>1, <1>4 DEF ReplayAdd, ReplayInv, TypeOK
      <3> QED BY <3>1, MinFact
    <2>2. dlq[Min(toReplay)] \in DeadLetter
      BY <1>1, <2>1, ElementOfSeq
    <2>3. message \in Message
      BY <2>2 DEF DeadLetter, Message
    <2> HIDE DEF message
    <2>4. stream' \in Seq(Message) /\ Len(stream') = Len(stream) + 1 /\ Len(stream') <= MaxMessages
      BY <1>1, <1>4, <2>3, AppendProperties, BusBounds DEF ReplayAdd, Add, message
    <2>5. lastRead \in 0 .. Len(stream') /\ trimmed \in 0 .. Len(stream')
      BY <1>1, <2>4 DEF TypeOK
    <2> QED BY <1>4, <2>4, <2>5 DEF ReplayAdd, TypeOK
  <1>5. ASSUME NEW i \in DOMAIN dlq, NEW s \in {"kept", "replayed", "purged"},
               dlq' = [dlq EXCEPT ![i].state = s]
        PROVE  dlq' \in Seq(DeadLetter) /\ DOMAIN dlq' = DOMAIN dlq
    <2>1. \A j \in 1 .. Len(dlq) : dlq[j] \in DeadLetter
      BY <1>1, ElementOfSeq
    <2>2. \A j \in 1 .. Len(dlq) : dlq'[j] \in DeadLetter
      BY <1>1, <1>5, <2>1 DEF DeadLetter
    <2>3. dlq' = [j \in 1 .. Len(dlq) |-> dlq'[j]] /\ DOMAIN dlq' = 1 .. Len(dlq)
      BY <1>1, <1>5
    <2> QED BY <1>1, <2>2, <2>3, IsASeq
  <1>6. CASE ReplayDelete
    <2>1. Min(toReplay) \in DOMAIN dlq
      <3>1. toReplay \subseteq DOMAIN dlq /\ toReplay # {} /\ toReplay \in SUBSET Nat
        BY <1>1, <1>6 DEF ReplayDelete, ReplayInv, TypeOK
      <3> QED BY <3>1, MinFact
    <2>2. dlq' \in Seq(DeadLetter) /\ DOMAIN dlq' = DOMAIN dlq
      <3>1. PICK s \in {"kept", "replayed", "purged"} : dlq' = [dlq EXCEPT ![Min(toReplay)].state = s]
        <4>1. dlq[Min(toReplay)] \in DeadLetter
          BY <1>1, <2>1, ElementOfSeq
        <4> QED BY <1>6, <4>1 DEF ReplayDelete, DeadLetter
      <3> QED BY <1>5, <2>1, <3>1
    <2> QED BY <1>6, <2>2 DEF ReplayDelete, TypeOK
  <1>7. ASSUME NEW i \in Letters, Purge(i) PROVE TypeOK'
    <2>1. i \in DOMAIN dlq /\ dlq' = [dlq EXCEPT ![i].state = "purged"]
      BY <1>7 DEF Purge, Letters
    <2>2. dlq' \in Seq(DeadLetter) /\ DOMAIN dlq' = DOMAIN dlq
      BY <1>5, <2>1
    <2> QED BY <1>7, <2>2 DEF Purge, TypeOK
  <1> QED BY <1>2, <1>3, <1>4, <1>6, <1>7 DEF Operator

-----------------------------------------------------------------------------
(* Which steps change which part of the state. *)

\* No step but these changes each part of the state.
LEMMA Changes ==
  ASSUME [Next]_vars
  PROVE  /\ stream' = stream \/ ReplayAdd \/ \E message \in Message : Publish(message)
         /\ trimmed' = trimmed \/ \E message \in Message : Publish(message)
         /\ lastRead' = lastRead \/ Read \/ ReadFault
         /\ dlq' = dlq \/ DeadAdd \/ DeadLetterFault \/ ReplayDelete \/ \E i \in Letters : Purge(i)
         /\ UNCHANGED <<deliveries, dispatched>> \/ Bump \/ BumpFault \/ Clear
         /\ fate' = fate \/ Bump \/ BumpFault \/ DropDuplicate \/ Refuse
            \/ \E outcome \in Outcomes : EndHandling(outcome)
         /\ UNCHANGED <<seen, since>> \/ DropDuplicate \/ Refuse \/ BeginHandling \/ Crash
         /\ UNCHANGED toolVars \/ ReplayAdd \/ ReplayDelete \/ ReplayFault
            \/ \E chosen \in SUBSET Letters : ReplayList(chosen)
  BY ZenonT(60) DEF Next, Consumer, Operator, Fault,
         Publish, Start, Read, Bump, Route, Reclaim, DropDuplicate, Refuse, BeginHandling, EndHandling,
         Ack, Clear, DeadAdd, DeadAck, ReplayList, ReplayAdd, ReplayDelete, Purge,
         ReclaimFault, ReadFault, BumpFault, AckFault, ClearFault, DeadLetterFault, ReplayFault, Stop, Crash,
         Add, AskDedup, Deliver, RemovePending, Goto, Frame, RaiseFrame, ToolFrame,
         vars, groupVars, processVars, toolVars, historyVars, budgetVars

\* Which steps lead the consumer to which label.
LEMMA Labels ==
  ASSUME [Next]_vars
  PROVE  /\ pc' \in {"down", "reclaim"} => UNCHANGED processVars \/ Start \/ Crash
         /\ pc' = "handle" => UNCHANGED processVars \/ Bump \/ BumpFault
         /\ pc' = "running" => UNCHANGED processVars \/ BeginHandling
         /\ pc' = "ack" => UNCHANGED processVars \/ Bump \/ BumpFault \/ DropDuplicate \/ Refuse
                                              \/ \E outcome \in Outcomes : EndHandling(outcome)
         /\ pc' = "deadAdd" => UNCHANGED processVars \/ Bump \/ BumpFault
         /\ pc' = "deadAck" => UNCHANGED processVars \/ DeadAdd
  BY DEF Next, Consumer, Operator, Fault,
         Publish, Start, Read, Bump, Route, Reclaim, DropDuplicate, Refuse, BeginHandling, EndHandling,
         Ack, Clear, DeadAdd, DeadAck, ReplayList, ReplayAdd, ReplayDelete, Purge,
         ReclaimFault, ReadFault, BumpFault, AckFault, ClearFault, DeadLetterFault, ReplayFault, Stop, Crash,
         NextMessage, TakeBatch, Goto, Frame, RaiseFrame, ToolFrame, vars, processVars

\* Steps outside of the process change no history.
LEMMA Outside ==
  ASSUME TypeOK, [Next]_vars, UNCHANGED processVars
  PROVE  UNCHANGED historyVars
  BY DEF Next, Consumer, Operator, Fault,
         Publish, Start, Read, Bump, Route, Reclaim, DropDuplicate, Refuse, BeginHandling, EndHandling,
         Ack, Clear, DeadAdd, DeadAck, ReplayList, ReplayAdd, ReplayDelete, Purge,
         ReclaimFault, ReadFault, BumpFault, AckFault, ClearFault, DeadLetterFault, ReplayFault, Stop, Crash,
         NextMessage, TakeBatch, Goto, Frame, RaiseFrame, ToolFrame, vars, processVars, historyVars

\* What becomes of the batch.
LEMMA Batches ==
  ASSUME [Next]_vars
  PROVE  /\ \/ batch' = batch \/ batch' = {} \/ NextMessage
            \/ Read \/ \E idle \in SUBSET pel : Reclaim(idle)
         /\ pc = "running" => \/ UNCHANGED processVars \/ Crash
                              \/ \E outcome \in Outcomes : EndHandling(outcome)
         /\ pc = "ack" => UNCHANGED processVars \/ batch' = {} \/ (pc' = "clear" /\ batch' = batch)
         /\ pc = "clear" => UNCHANGED processVars \/ batch' = {} \/ NextMessage
  BY DEF Next, Consumer, Operator, Fault,
         Publish, Start, Read, Bump, Route, Reclaim, DropDuplicate, Refuse, BeginHandling, EndHandling,
         Ack, Clear, DeadAdd, DeadAck, ReplayList, ReplayAdd, ReplayDelete, Purge,
         ReclaimFault, ReadFault, BumpFault, AckFault, ClearFault, DeadLetterFault, ReplayFault, Stop, Crash,
         Goto, Frame, RaiseFrame, ToolFrame, vars, processVars

\* The two steps that add to the stream leave everything else alone that the
\* invariants about messages are about.
LEMMA AddFact ==
  ASSUME TypeOK, ReplayAdd \/ \E message \in Message : Publish(message)
  PROVE  /\ Len(stream') = Len(stream) + 1
         /\ \A m \in 1 .. Len(stream) : stream'[m] = stream[m]
         /\ ReplayAdd => stream'[Len(stream')].event = dlq[Min(toReplay)].event
         /\ UNCHANGED <<groupVars, dlq, processVars, historyVars>>
  <1>1. PICK message : stream' = Append(stream, message) /\ (ReplayAdd => message.event = dlq[Min(toReplay)].event)
    BY DEF ReplayAdd, Publish, Add
  <1>2. /\ Len(stream') = Len(stream) + 1 /\ stream'[Len(stream) + 1] = message
        /\ \A m \in 1 .. Len(stream) : stream'[m] = stream[m]
    BY <1>1, AppendFact DEF TypeOK
  <1> QED BY <1>1, <1>2 DEF ReplayAdd, Publish, ToolFrame

\* What was done stays done: the stream only grows, the letters keep what
\* they say, and the histories and the group's position never go back.
LEMMA Progress ==
  ASSUME TypeOK, TypeOK', [Next]_vars
  PROVE  /\ Len(stream) <= Len(stream') /\ \A m \in 1 .. Len(stream) : stream'[m] = stream[m]
         /\ trimmed <= trimmed' /\ lastRead <= lastRead'
         /\ \A m \in Messages : dispatched[m] <= dispatched'[m]
         /\ \A m \in Messages : fate[m] # "none" => fate'[m] # "none"
         /\ Len(dlq) <= Len(dlq')
         /\ \A i \in DOMAIN dlq : /\ i \in DOMAIN dlq' /\ dlq'[i].msg = dlq[i].msg
                                  /\ dlq'[i].event = dlq[i].event /\ dlq'[i].since = dlq[i].since
  <1>0. /\ Len(stream) \in Nat /\ trimmed \in Nat /\ lastRead \in Nat
        /\ Len(dlq) \in Nat /\ dlq \in Seq(DeadLetter) /\ DOMAIN dlq = 1 .. Len(dlq)
    BY LenProperties DEF TypeOK
  <1>1. Len(stream) <= Len(stream') /\ \A m \in 1 .. Len(stream) : stream'[m] = stream[m]
    BY <1>0, Changes, AddFact
  <1>2. trimmed <= trimmed'
    BY <1>0, Changes, BusAssumption DEF Publish
  <1>3. lastRead <= lastRead'
    <2>1. CASE Read \/ ReadFault
      <3>1. Deliver
        BY <2>1 DEF Read, ReadFault
      <3>2. lastRead < lastRead' /\ lastRead' \in 1 .. Len(stream)
        BY <3>1, DeliverFact
      <3> QED BY <1>0, <3>2
    <2> QED BY <1>0, <2>1, Changes
  <1>4. \A m \in Messages : dispatched[m] <= dispatched'[m]
    <2>0. dispatched \in [Messages -> Nat]
      BY DEF TypeOK
    <2>1. CASE Bump \/ BumpFault
      <3>1. dispatched' = [dispatched EXCEPT ![Current] = dispatched[Current] + 1]
        BY <2>1, RouteFact DEF Bump, BumpFault
      <3> QED BY <2>0, <3>1
    <2>2. CASE Clear
      BY <2>0, <2>2 DEF Clear, historyVars
    <2>3. CASE dispatched' = dispatched
      BY <2>0, <2>3
    <2> QED BY <2>1, <2>2, <2>3, Changes
  <1>5. \A m \in Messages : fate[m] # "none" => fate'[m] # "none"
    <2>1. fate' = fate \/ \E f \in Fates \ {"none"} : fate' = [fate EXCEPT ![Current] = f]
      <3>1. CASE Bump \/ BumpFault
        BY <3>1, RouteFact DEF Bump, BumpFault, Fates
      <3>2. CASE DropDuplicate \/ Refuse
        BY <3>2 DEF DropDuplicate, Refuse, Fates
      <3>3. CASE \E outcome \in Outcomes : EndHandling(outcome)
        BY <3>3 DEF EndHandling, Fates, Outcomes
      <3> QED BY <3>1, <3>2, <3>3, Changes
    <2> QED BY <2>1 DEF TypeOK
  <1>6. /\ Len(dlq) <= Len(dlq')
        /\ \A i \in DOMAIN dlq : /\ i \in DOMAIN dlq' /\ dlq'[i].msg = dlq[i].msg
                                 /\ dlq'[i].event = dlq[i].event /\ dlq'[i].since = dlq[i].since
    <2>1. CASE DeadAdd \/ DeadLetterFault
      <3>1. dlq' = dlq \/ \E letter : dlq' = Append(dlq, letter)
        BY <2>1 DEF DeadAdd, DeadLetterFault, AddDeadLetter
      <3>2. CASE dlq' # dlq
        <4>1. PICK letter : dlq' = Append(dlq, letter)
          BY <3>1, <3>2
        <4>2. Len(dlq') = Len(dlq) + 1 /\ \A i \in 1 .. Len(dlq) : dlq'[i] = dlq[i]
          BY <1>0, <4>1, AppendFact
        <4>3. DOMAIN dlq' = 1 .. Len(dlq')
          BY LenProperties DEF TypeOK
        <4> QED BY <1>0, <4>2, <4>3
      <3> QED BY <1>0, <3>2
    <2>2. CASE ReplayDelete \/ \E i \in Letters : Purge(i)
      <3>1. \E i, s : dlq' = [dlq EXCEPT ![i].state = s]
        BY <2>2 DEF ReplayDelete, Purge
      <3>2. DOMAIN dlq' = DOMAIN dlq /\ Len(dlq') \in Nat /\ DOMAIN dlq' = 1 .. Len(dlq')
        BY <3>1, LenProperties DEF TypeOK
      <3>3. Len(dlq') = Len(dlq)
        BY <1>0, <3>2
      <3>4. \A i \in 1 .. Len(dlq) : dlq[i] \in DeadLetter
        BY <1>0, ElementOfSeq
      <3> QED BY <1>0, <3>1, <3>2, <3>3, <3>4 DEF DeadLetter
    <2> QED BY <1>0, <2>1, <2>2, Changes
  <1> QED BY <1>1, <1>2, <1>3, <1>4, <1>5, <1>6

\* A message's fate is decided when it is routed past the handlers, or by the
\* pipeline, and it is the current one.
LEMMA FateFact ==
  ASSUME TypeOK, [Next]_vars
  PROVE  \/ fate' = fate
         \/ pc = "bump" /\ CurrentEvent \in Foreign /\ fate' = [fate EXCEPT ![Current] = "foreign"]
         \/ /\ pc \in {"handle", "running"}
            /\ \E f \in Fates \ {"none", "foreign"} : fate' = [fate EXCEPT ![Current] = f]
            /\ UNCHANGED <<stream, batch>>
  <1>1. CASE Bump \/ BumpFault
    BY <1>1, RouteFact DEF Bump, BumpFault
  <1>2. CASE DropDuplicate \/ Refuse
    BY <1>2 DEF DropDuplicate, Refuse, Goto, Frame, Fates
  <1>3. CASE \E outcome \in Outcomes : EndHandling(outcome)
    BY <1>3 DEF EndHandling, Goto, Frame, Fates, Outcomes
  <1> QED BY <1>1, <1>2, <1>3, Changes

-----------------------------------------------------------------------------
(* Each part of the invariant is kept. *)

\* FateInv: a fate is only given to the current message, which was read, and
\* a delivery count is only raised together with the dispatches.
LEMMA FateStep ==
  ASSUME TypeOK, TypeOK', InHand, FateInv, [Next]_vars
  PROVE  FateInv'
  <1> SUFFICES ASSUME NEW m \in Messages
               PROVE  /\ fate'[m] # "none" => m <= lastRead'
                      /\ fate'[m] \notin {"none", "foreign"} => stream'[m].event \notin Foreign
                      /\ deliveries'[m] <= dispatched'[m]
    BY DEF FateInv, Finished
  <1>0. /\ Len(stream) \in Nat /\ lastRead \in 0 .. Len(stream) /\ lastRead' \in Nat /\ m \in Nat /\ m >= 1
        /\ deliveries[m] \in Nat /\ dispatched[m] \in Nat
        /\ fate \in [Messages -> Fates]
    <2>1. m \in Nat /\ m >= 1
      BY BusBounds DEF Messages
    <2>2. Len(stream) \in Nat /\ Len(stream') \in Nat
      BY LenProperties DEF TypeOK
    <2> QED BY <2>1, <2>2, SMTT(30) DEF TypeOK
  <1>1. /\ lastRead <= lastRead' /\ \A k \in 1 .. Len(stream) : stream'[k] = stream[k]
        /\ dispatched[m] <= dispatched'[m]
    BY Progress
  <1>2. /\ fate[m] # "none" => m <= lastRead
        /\ fate[m] \notin {"none", "foreign"} => stream[m].event \notin Foreign
        /\ deliveries[m] <= dispatched[m]
    BY DEF FateInv, Finished
  <1>3. fate[m] # "none" => m <= lastRead' /\ stream'[m] = stream[m]
    BY <1>0, <1>1, <1>2
  <1>4. /\ fate'[m] # "none" => m <= lastRead'
        /\ fate'[m] \notin {"none", "foreign"} => stream'[m].event \notin Foreign
    <2>1. CASE fate'[m] = fate[m]
      BY <1>2, <1>3, <2>1
    <2>2. CASE fate'[m] # fate[m]
      <3>1. m = Current /\ pc \in {"bump", "handle", "running"}
        BY <1>0, <2>2, FateFact
      <3>2. m \in 1 .. lastRead
        BY <3>1, CurrentFact DEF TypeOK
      <3>3. CASE pc = "bump"
        BY <1>0, <1>1, <2>2, <3>1, <3>2, <3>3, FateFact
      <3>4. CASE pc \in {"handle", "running"}
        <4>1. stream' = stream /\ stream[m].event \notin Foreign
          BY <2>2, <3>1, <3>4, FateFact DEF InHand, CurrentEvent
        <4> QED BY <1>0, <1>1, <3>2, <4>1
      <3> QED BY <3>1, <3>3, <3>4
    <2> QED BY <2>1, <2>2
  <1>5. deliveries'[m] <= dispatched'[m]
    <2>0. /\ dispatched \in [Messages -> Nat] /\ deliveries \in [Messages -> Nat]
          /\ deliveries'[m] \in Nat
      BY DEF TypeOK
    <2>1. CASE Bump \/ BumpFault
      <3>1. /\ dispatched' = [dispatched EXCEPT ![Current] = dispatched[Current] + 1]
            /\ \/ deliveries' = deliveries
               \/ deliveries' = [deliveries EXCEPT ![Current] = deliveries[Current] + 1]
        BY <2>1, RouteFact DEF Bump, BumpFault
      <3>2. CASE m = Current
        <4>1. dispatched'[m] = dispatched[m] + 1 /\ deliveries'[m] <= deliveries[m] + 1
          BY <1>0, <2>0, <3>1, <3>2
        <4> QED BY <1>0, <1>2, <4>1, <2>0
      <3>3. CASE m # Current
        BY <1>2, <2>0, <3>1, <3>3
      <3> QED BY <3>2, <3>3
    <2>2. CASE Clear
      BY <1>0, <1>2, <2>0, <2>2 DEF Clear, historyVars
    <2> QED BY <1>2, <2>1, <2>2, Changes
  <1> QED BY <1>4, <1>5

\* InHand: what a label promises was established by the step that led to it.
LEMMA InHandStep ==
  ASSUME TypeOK, TypeOK', InHand, FateInv, [Next]_vars
  PROVE  InHand'
  <1>0. /\ \A m \in 1 .. Len(stream) : stream'[m] = stream[m]
        /\ \A m \in Messages : dispatched[m] <= dispatched'[m]
        /\ \A m \in Messages : fate[m] # "none" => fate'[m] # "none"
        /\ \A i \in DOMAIN dlq : i \in DOMAIN dlq' /\ dlq'[i].msg = dlq[i].msg
        /\ \A m \in Messages : dispatched[m] \in Nat /\ dispatched'[m] \in Nat /\ deliveries[m] <= dispatched[m] /\ deliveries[m] \in Nat
        /\ MaxDeliveries \in Nat
    BY Progress, BusAssumption DEF TypeOK, FateInv
  <1>1. pc' \in {"down", "reclaim"} => seen' = << >>
    BY Labels DEF InHand, processVars, Start, Crash, Goto
  <1>2. ASSUME pc' \in {"handle", "running", "ack", "deadAdd", "deadAck"}, UNCHANGED processVars
        PROVE  /\ pc \in {"handle", "running"} => CurrentEvent' \notin Foreign
               /\ pc = "ack" => fate'[Current'] # "none"
               /\ pc = "deadAdd" => Poison(Current)'
               /\ pc = "deadAck" => DeadLettered(Current)'
    <2>1. /\ batch' = batch /\ pc' = pc /\ Current' = Current /\ batch # {}
          /\ UNCHANGED historyVars
      BY <1>2, Outside DEF processVars, Current, TypeOK
    <2>2. Current \in Messages /\ stream'[Current] = stream[Current]
      BY <1>0, <2>1, CurrentFact
    <2> QED BY <1>0, <2>1, <2>2 DEF InHand, CurrentEvent, Poison, DeadLettered, historyVars
  <1>3. CASE UNCHANGED processVars
    BY <1>1, <1>2, <1>3 DEF InHand, processVars
  <1>4. CASE Bump \/ BumpFault
    <2>1. /\ pc = "bump" /\ batch # {} /\ UNCHANGED stream
          /\ Current \in Messages
      BY <1>4, CurrentFact DEF Bump, BumpFault, TypeOK, Frame, RaiseFrame
    <2>2. PICK count \in {1, deliveries[Current] + 1} : Route(count)
      <3>1. CASE Bump
        <4>1. Route(deliveries'[Current]) /\ deliveries' = [deliveries EXCEPT ![Current] = deliveries[Current] + 1]
          BY <3>1 DEF Bump
        <4>2. deliveries'[Current] = deliveries[Current] + 1
          BY <2>1, <4>1 DEF TypeOK
        <4> QED BY <4>1, <4>2
      <3>2. CASE BumpFault
        BY <3>2 DEF BumpFault
      <3> QED BY <1>4, <3>1, <3>2
    <2>3. Current \in Messages /\ Current \in 1 .. Len(stream)
      BY <2>1, CurrentFact
    <2>4. /\ dispatched' = [dispatched EXCEPT ![Current] = dispatched[Current] + 1]
          /\ batch' = batch
          /\ \/ pc' = "deadAdd" /\ fate' = fate /\ (ShouldDeadLetter(count) \/ ~stream[Current].ok)
             \/ pc' = "ack" /\ fate' = [fate EXCEPT ![Current] = "foreign"]
             \/ pc' = "handle" /\ fate' = fate /\ CurrentEvent \notin Foreign
      BY <2>1, <2>2, RouteFact
    <2>5. Current' = Current /\ CurrentEvent' = CurrentEvent
      BY <2>1, <2>4 DEF Current, CurrentEvent
    <2>6. pc' = "deadAdd" => Poison(Current)'
      <3>1. count <= dispatched'[Current]
        <4>1. dispatched'[Current] = dispatched[Current] + 1
          BY <2>3, <2>4 DEF TypeOK
        <4> QED BY <1>0, <2>2, <2>3, <4>1
      <3>2. ShouldDeadLetter(count) => MaxDeliveries > 0 /\ dispatched'[Current] > MaxDeliveries
        BY <1>0, <2>2, <2>3, <3>1 DEF ShouldDeadLetter
      <3> QED BY <2>1, <2>4, <2>5, <3>2 DEF Poison
    <2>7. pc' = "ack" => fate'[Current'] # "none"
      BY <2>3, <2>4, <2>5 DEF TypeOK
    <2> QED BY <2>4, <2>5, <2>6, <2>7 DEF InHand
  <1>5. CASE DropDuplicate \/ Refuse \/ BeginHandling \/ \E outcome \in Outcomes : EndHandling(outcome)
    <2>1. /\ pc \in {"handle", "running"} /\ UNCHANGED <<stream, batch>>
          /\ \/ pc' = "running"
             \/ pc' = "ack" /\ \E f \in Fates \ {"none"} : fate' = [fate EXCEPT ![Current] = f]
      BY <1>5 DEF DropDuplicate, Refuse, BeginHandling, EndHandling, Goto, Frame, Fates, Outcomes
    <2>2. Current' = Current /\ CurrentEvent' = CurrentEvent /\ Current \in Messages
      BY <2>1, CurrentFact DEF Current, CurrentEvent, TypeOK
    <2> QED BY <2>1, <2>2 DEF InHand, TypeOK
  <1>6. CASE DeadAdd
    <2>1. /\ pc' = "deadAck" /\ batch' = batch
          /\ dlq' = Append(dlq, [event |-> CurrentEvent, msg |-> Current, since |-> Len(stream), state |-> "kept"])
      BY <1>6 DEF DeadAdd, Goto, AddDeadLetter
    <2>2. DeadLettered(Current)'
      <3> DEFINE letter == [event |-> CurrentEvent, msg |-> Current, since |-> Len(stream), state |-> "kept"]
      <3>1. Current' = Current /\ letter.msg = Current
        BY <2>1 DEF Current
      <3> HIDE DEF letter
      <3>2. Len(dlq) \in Nat
        BY LenProperties DEF TypeOK
      <3>3. dlq'[Len(dlq) + 1] = letter /\ Len(dlq') = Len(dlq) + 1
        BY <2>1, AppendFact DEF letter, TypeOK
      <3>4. DOMAIN dlq' = 1 .. Len(dlq')
        BY LenProperties DEF TypeOK
      <3> QED BY <3>1, <3>2, <3>3, <3>4 DEF DeadLettered
    <2> QED BY <2>1, <2>2 DEF InHand
  <1>7. CASE pc' \notin {"handle", "running", "ack", "deadAdd", "deadAck"}
    BY <1>1, <1>7 DEF InHand
  <1> QED BY <1>3, <1>4, <1>5, <1>6, <1>7, Labels

\* What was finished stays finished, also when it is delivered again.
LEMMA FinishedStays ==
  ASSUME TypeOK, FateInv, [Next]_vars, NEW m \in Messages, Finished(m)
  PROVE  Finished(m)'
  <1>1. fate \in [Messages -> Fates] /\ fate[m] \notin {"none", "foreign"} /\ stream[m].event \notin Foreign
    BY DEF TypeOK, FateInv, Finished
  <1>2. fate'[m] \notin {"none", "foreign"}
    BY <1>1, FateFact DEF CurrentEvent
  <1> QED BY <1>2 DEF Finished

\* A message that the dedup can trace an id to is out of the batch, or on its
\* way out, and never comes back to it.
LEMMA StaysOut ==
  ASSUME TypeOK, InHand, [Next]_vars, seen # << >>, NEW k \in 1 .. lastRead,
         k \in batch => k = Current /\ pc \in {"running", "ack", "clear"}
  PROVE  k \in batch' => k = Current' /\ pc' \in {"running", "ack", "clear"}
  <1>1. CASE k \notin batch
    <2>1. \A idle \in SUBSET pel : ~Reclaim(idle)
      BY DEF InHand, Reclaim
    <2>2. NextMessage => batch' \subseteq batch
      BY DEF NextMessage
    <2>3. Read => k \notin batch'
      <3>1. ASSUME Read PROVE k \notin FirstOf(Unread)
        <4>1. FirstOf(Unread) \subseteq lastRead + 1 .. lastRead' /\ lastRead \in Nat
          BY <3>1, DeliverFact, LenProperties, SMTT(30) DEF Read, TypeOK
        <4> QED BY <4>1
      <3> QED BY <3>1 DEF Read, TakeBatch
    <2> QED BY <1>1, <2>1, <2>2, <2>3, Batches
  <1>2. CASE k \in batch
    <2>1. NextMessage => k \notin batch'
      BY <1>2 DEF NextMessage
    <2>2. UNCHANGED processVars => k = Current' /\ pc' \in {"running", "ack", "clear"}
      BY <1>2 DEF processVars, Current
    <2>3. batch' = batch /\ pc' = "clear" => k = Current' /\ pc' \in {"running", "ack", "clear"}
      BY <1>2 DEF Current
    <2>4. \A outcome \in Outcomes : EndHandling(outcome) => k = Current' /\ pc' \in {"running", "ack", "clear"}
      BY <1>2 DEF EndHandling, Goto, Current
    <2>5. Crash => batch' = {}
      BY DEF Crash
    <2> QED BY <1>2, <2>1, <2>2, <2>3, <2>4, <2>5, Batches
  <1> QED BY <1>1, <1>2

\* SeenInv: an id enters the dedup with the message being handled, which is
\* finished before the thread lets go of it, or the process dies and forgets.
LEMMA SeenStep ==
  ASSUME TypeOK, TypeOK', InHand, FateInv, SeenInv, [Next]_vars
  PROVE  SeenInv'
  <1> DEFINE Traced(e) == \E k \in 1 .. lastRead' :
                 /\ stream'[k].event = e
                 /\ k \in batch' => k = Current' /\ pc' \in {"running", "ack", "clear"}
                 /\ Finished(k)' \/ (pc' = "running" /\ k = Current')
  <1>0. /\ \A m \in 1 .. lastRead : m \in 1 .. lastRead' /\ m \in Messages /\ stream'[m] = stream[m]
    <2>1. Len(stream) \in Nat /\ Len(stream) <= MaxMessages /\ MaxMessages \in Nat
          /\ lastRead \in 0 .. Len(stream) /\ lastRead' \in Nat
      BY LenProperties, BusBounds DEF TypeOK
    <2> QED BY <2>1, Progress DEF Messages
  <1>1. ASSUME NEW i \in DOMAIN seen, ~Crash PROVE Traced(seen[i])
    <2>1. PICK k \in 1 .. lastRead :
             /\ stream[k].event = seen[i]
             /\ k \in batch => k = Current /\ pc \in {"running", "ack", "clear"}
             /\ Finished(k) \/ (pc = "running" /\ k = Current)
      BY DEF SeenInv
    <2>2. seen # << >>
      BY EmptySeq, LenProperties, SMTT(30) DEF TypeOK
    <2>3. k \in batch' => k = Current' /\ pc' \in {"running", "ack", "clear"}
      BY <2>1, <2>2, StaysOut
    <2>4. Finished(k)' \/ (pc' = "running" /\ k = Current')
      <3>1. CASE Finished(k)
        BY <1>0, <3>1, FinishedStays
      <3>2. CASE pc = "running" /\ k = Current
        <4>1. UNCHANGED processVars => pc' = "running" /\ k = Current'
          BY <3>2 DEF processVars, Current
        <4>2. ASSUME NEW outcome \in Outcomes, EndHandling(outcome) PROVE Finished(k)'
          BY <1>0, <3>2, <4>2 DEF EndHandling, Finished, Outcomes, TypeOK
        <4> QED BY <1>1, <3>2, <4>1, <4>2, Batches
      <3> QED BY <2>1, <3>1, <3>2
    <2> QED BY <1>0, <2>1, <2>3, <2>4
  <1>2. CASE UNCHANGED seen /\ ~Crash
    BY <1>1, <1>2 DEF SeenInv
  <1>3. CASE DropDuplicate \/ Refuse \/ BeginHandling
    <2>1. /\ pc = "handle" /\ Remember(CurrentEvent) /\ batch' = batch /\ stream' = stream
          /\ pc' \in {"running", "ack"}
          /\ \/ InSeen(CurrentEvent)
             \/ pc' = "running"
             \/ pc' = "ack" /\ fate' = [fate EXCEPT ![Current] = "refused"]
      BY <1>3 DEF DropDuplicate, Refuse, BeginHandling, AskDedup, Goto, Frame
    <2>2. /\ Current \in 1 .. lastRead /\ CurrentEvent \in Events /\ Current' = Current
      BY <2>1, CurrentFact DEF TypeOK, Current
    <2>3. \A i \in DOMAIN seen' : seen'[i] = CurrentEvent \/ Holds(seen, seen'[i])
      BY <2>1, <2>2, RememberFact DEF TypeOK
    <2>4. ~Crash
      BY <2>1 DEF Crash
    <2>5. Traced(CurrentEvent)
      <3>1. CASE InSeen(CurrentEvent)
        BY <1>1, <2>4, <3>1 DEF InSeen
      <3>2. CASE pc' = "running"
        BY <1>0, <2>1, <2>2, <3>2 DEF CurrentEvent
      <3>3. CASE pc' = "ack" /\ fate' = [fate EXCEPT ![Current] = "refused"]
        <4>1. Finished(Current)'
          BY <1>0, <2>2, <3>3 DEF Finished, TypeOK
        <4> QED BY <1>0, <2>1, <2>2, <3>3, <4>1 DEF CurrentEvent
      <3> QED BY <2>1, <3>1, <3>2, <3>3
    <2>6. \A i \in DOMAIN seen' : Traced(seen'[i])
      BY <1>1, <2>3, <2>4, <2>5 DEF Holds
    <2> QED BY <2>6 DEF SeenInv
  <1>4. CASE Crash
    <2>1. seen' = << >>
      BY <1>4 DEF Crash
    <2> QED BY <2>1 DEF SeenInv
  <1> QED BY <1>2, <1>3, <1>4, Changes

\* DuplicatesWereFinished: the message a duplicate was found by is not itself,
\* since that one is in the batch and not yet handled.
LEMMA DuplicatesStep ==
  ASSUME TypeOK, TypeOK', FateInv, SeenInv, DuplicatesWereFinished, [Next]_vars
  PROVE  DuplicatesWereFinished'
  <1> SUFFICES ASSUME NEW m \in Messages, fate'[m] = "duplicate"
               PROVE  \E k \in 1 .. lastRead' : k # m /\ stream'[k].event = stream'[m].event /\ Finished(k)'
    BY DEF DuplicatesWereFinished
  <1>0. /\ \A k \in 1 .. lastRead : k \in 1 .. lastRead' /\ k \in Messages /\ stream'[k] = stream[k]
        /\ lastRead \in Nat /\ m \in Nat /\ m >= 1
    <2>1. Len(stream) \in Nat /\ Len(stream) <= MaxMessages /\ MaxMessages \in Nat
          /\ lastRead \in 0 .. Len(stream) /\ lastRead' \in Nat
      BY LenProperties, BusBounds DEF TypeOK
    <2> QED BY <2>1, Progress DEF Messages
  <1>1. CASE fate[m] = "duplicate"
    <2>1. PICK k \in 1 .. lastRead : k # m /\ stream[k].event = stream[m].event /\ Finished(k)
      BY <1>1 DEF DuplicatesWereFinished
    <2>2. m \in 1 .. lastRead
      BY <1>0, <1>1 DEF FateInv
    <2> QED BY <1>0, <2>1, <2>2, FinishedStays
  <1>2. CASE fate[m] # "duplicate"
    <2>1. DropDuplicate /\ m = Current
      <3>1. CASE Bump \/ BumpFault
        BY <1>2, <3>1, RouteFact DEF Bump, BumpFault, TypeOK
      <3>2. CASE Refuse
        BY <1>2, <3>2 DEF Refuse, TypeOK
      <3>3. CASE \E outcome \in Outcomes : EndHandling(outcome)
        BY <1>2, <3>3 DEF EndHandling, Outcomes, TypeOK
      <3>4. CASE DropDuplicate
        BY <1>2, <3>4 DEF DropDuplicate, TypeOK
      <3> QED BY <1>2, <3>1, <3>2, <3>3, <3>4, Changes
    <2>2. pc = "handle" /\ InSeen(stream[m].event) /\ m \in batch
      BY <2>1, CurrentFact DEF DropDuplicate, CurrentEvent, TypeOK
    <2>3. PICK k \in 1 .. lastRead : /\ stream[k].event = stream[m].event
                                    /\ k \notin batch /\ Finished(k)
      BY <2>2 DEF InSeen, SeenInv
    <2>4. m \in 1 .. lastRead
      BY <2>2 DEF TypeOK
    <2> QED BY <1>0, <2>2, <2>3, <2>4, FinishedStays
  <1> QED BY <1>1, <1>2

\* WindowInv: a lookup makes its id newer than all others, in the dedup and in
\* the history, and evicts at most the one with dedup_max_size newer ones.
LEMMA WindowStep ==
  ASSUME TypeOK, TypeOK', WindowInv, [Next]_vars
  PROVE  WindowInv'
  <1>0. /\ DOMAIN since \subseteq Events /\ seen \in Seq(Events) /\ Len(seen) <= DedupSize
        /\ seen' \in Seq(Events)
    BY DEF TypeOK
  <1>1. CASE UNCHANGED <<seen, since>>
    BY <1>1 DEF WindowInv, InSeen, Newer
  <1>2. CASE Crash
    <2>1. seen' = << >> /\ DOMAIN since' = {}
      BY <1>2 DEF Crash
    <2> QED BY <2>1 DEF WindowInv
  <1>3. CASE DropDuplicate \/ Refuse \/ BeginHandling
    <2> DEFINE e == CurrentEvent
    <2>1. pc = "handle" /\ Remember(e) /\ e \in Events /\ since' = SinceAsked(e)
      BY <1>3, CurrentFact DEF DropDuplicate, Refuse, BeginHandling, AskDedup, TypeOK
    <2> HIDE DEF e
    <2>2. /\ Distinct(seen)
          /\ \A i \in DOMAIN seen : seen[i] \in DOMAIN since /\ since[seen[i]] = Newer(seen, i)
          /\ \A x \in DOMAIN since :
                IsFiniteSet(since[x]) /\ (InSeen(x) \/ Cardinality(since[x]) >= DedupSize)
      BY DEF WindowInv, Distinct
    <2>3. Distinct(seen') /\ Holds(seen', e)
      BY <1>0, <2>1, <2>2, RememberFact
    <2>4. /\ \A i \in DOMAIN seen' :
               \/ seen'[i] = e /\ Newer(seen', i) = {}
               \/ \E k \in DOMAIN seen : /\ seen[k] = seen'[i] /\ seen[k] # e
                                         /\ Newer(seen', i) = Newer(seen, k) \cup {e}
          /\ \A k \in DOMAIN seen :
               Holds(seen', seen[k]) \/ Cardinality(Newer(seen, k) \cup {e}) >= DedupSize
      BY <1>0, <2>1, <2>2, RememberOrder
    <2>5. /\ DOMAIN since' = DOMAIN since \cup {e} /\ since'[e] = {}
          /\ \A x \in DOMAIN since : x # e => since'[x] = since[x] \cup {e}
      BY <2>1 DEF SinceAsked
    <2>6. \A i \in DOMAIN seen' : seen'[i] \in DOMAIN since' /\ since'[seen'[i]] = Newer(seen', i)
      <3> TAKE i \in DOMAIN seen'
      <3>1. CASE seen'[i] = e /\ Newer(seen', i) = {}
        BY <2>5, <3>1
      <3>2. ASSUME NEW k \in DOMAIN seen, seen[k] = seen'[i], seen[k] # e,
                   Newer(seen', i) = Newer(seen, k) \cup {e}
            PROVE  seen'[i] \in DOMAIN since' /\ since'[seen'[i]] = Newer(seen', i)
        <4>1. seen[k] \in DOMAIN since /\ since[seen[k]] = Newer(seen, k)
          BY <2>2
        <4> QED BY <2>5, <3>2, <4>1
      <3> QED BY <2>4, <3>1, <3>2
    <2>7. ASSUME NEW x \in DOMAIN since'
          PROVE  IsFiniteSet(since'[x]) /\ (Holds(seen', x) \/ Cardinality(since'[x]) >= DedupSize)
      <3>1. CASE x = e
        BY <2>3, <2>5, <3>1, FS_EmptySet
      <3>2. CASE x # e
        <4>1. x \in DOMAIN since /\ since'[x] = since[x] \cup {e} /\ IsFiniteSet(since[x])
          BY <2>2, <2>5, <3>2
        <4>2. /\ IsFiniteSet(since'[x]) /\ Cardinality(since[x]) \in Nat /\ Cardinality(since'[x]) \in Nat
              /\ Cardinality(since'[x]) >= Cardinality(since[x])
          <5>1. /\ IsFiniteSet(since[x] \cup {e})
                /\ Cardinality(since[x] \cup {e}) =
                      IF e \in since[x] THEN Cardinality(since[x]) ELSE Cardinality(since[x]) + 1
            BY <4>1, FS_AddElement, Zenon
          <5>2. Cardinality(since[x]) \in Nat
            BY <4>1, FS_CardinalityType
          <5> QED BY <4>1, <5>1, <5>2
        <4>3. CASE InSeen(x)
          <5>1. PICK k \in DOMAIN seen : seen[k] = x
            BY <4>3 DEF InSeen
          <5> QED BY <2>2, <2>4, <4>1, <4>2, <5>1
        <4>4. CASE ~InSeen(x)
          <5>1. Cardinality(since[x]) >= DedupSize /\ DedupSize \in Nat
            BY <2>2, <4>1, <4>4, BusAssumption
          <5> QED BY <4>2, <5>1
        <4> QED BY <4>3, <4>4
      <3> QED BY <3>1, <3>2
    <2>8. \A x \in DOMAIN since' :
            IsFiniteSet(since'[x]) /\ (InSeen(x)' \/ Cardinality(since'[x]) >= DedupSize)
      BY <2>7 DEF InSeen, Holds
    <2>9. \A i, j \in DOMAIN seen' : seen'[i] = seen'[j] => i = j
      BY <2>3 DEF Distinct
    <2> QED BY <2>6, <2>8, <2>9 DEF WindowInv
  <1> QED BY <1>1, <1>2, <1>3, Changes

\* The dedup holds an id exactly when fewer than dedup_max_size others came since.
LEMMA HeldByWindow ==
  ASSUME TypeOK, WindowInv, NEW e \in Events
  PROVE  /\ InSeen(e) => e \in DOMAIN since /\ Cardinality(since[e]) < DedupSize
         /\ ~InSeen(e) /\ e \in DOMAIN since => Cardinality(since[e]) >= DedupSize
  <1>1. ASSUME InSeen(e) PROVE e \in DOMAIN since /\ Cardinality(since[e]) < DedupSize
    <2>1. PICK i \in DOMAIN seen : seen[i] = e
      BY <1>1 DEF InSeen
    <2>2. e \in DOMAIN since /\ since[e] = Newer(seen, i)
      BY <2>1 DEF WindowInv
    <2>3. seen \in Seq(Events) /\ Len(seen) <= DedupSize /\ Len(seen) \in Nat /\ DedupSize \in Nat
      BY LenProperties, BusAssumption DEF TypeOK
    <2>4. Cardinality(Newer(seen, i)) \in Nat /\ Cardinality(Newer(seen, i)) < Len(seen)
      BY <2>1, <2>3, NewerFact
    <2> QED BY <2>2, <2>3, <2>4
  <1> QED BY <1>1 DEF WindowInv

\* What passes again has been forgotten, and what is dropped has not.
LEMMA WindowUsed ==
  ASSUME TypeOK, WindowInv, [Next]_vars, NEW e \in Events
  PROVE  /\ LetsPass(e) /\ e \in DOMAIN since => Cardinality(since[e]) >= DedupSize
         /\ Drops(e) => e \in DOMAIN since /\ Cardinality(since[e]) < DedupSize
  <1>1. ASSUME pc = "handle" PROVE Current \in Messages /\ fate \in [Messages -> Fates]
    BY <1>1, CurrentFact DEF TypeOK
  <1>2. ASSUME LetsPass(e) PROVE ~InSeen(e)
    <2>1. pc = "handle" /\ CurrentEvent = e /\ pc' # "handle"
      BY <1>2 DEF LetsPass
    <2>2. Refuse \/ BeginHandling
      <3>1. CASE pc' = "running"
        BY <2>1, <3>1, Labels DEF processVars
      <3>2. CASE pc' = "ack" /\ fate'[Current] = "refused"
        <4>1. DropDuplicate \/ Refuse
          BY <2>1, <3>2, Labels DEF processVars, Bump, BumpFault, EndHandling
        <4>2. DropDuplicate => fate'[Current] = "duplicate"
          BY <1>1, <2>1 DEF DropDuplicate
        <4> QED BY <3>2, <4>1, <4>2
      <3> QED BY <1>2, <3>1, <3>2 DEF LetsPass
    <2> QED BY <2>1, <2>2 DEF Refuse, BeginHandling
  <1>3. ASSUME Drops(e) PROVE InSeen(e)
    <2>1. pc = "handle" /\ CurrentEvent = e /\ pc' = "ack" /\ fate'[Current] = "duplicate"
      BY <1>3 DEF Drops
    <2>2. DropDuplicate \/ Refuse
      BY <2>1, Labels DEF processVars, Bump, BumpFault, EndHandling
    <2>3. Refuse => fate'[Current] = "refused"
      BY <1>1, <2>1 DEF Refuse
    <2> QED BY <2>1, <2>2, <2>3 DEF DropDuplicate
  <1> QED BY <1>2, <1>3, HeldByWindow

\* HeldInv: what is taken into the hands is pending, and leaves the pending
\* list only when it is acknowledged, and then the hands.
LEMMA HeldStep ==
  ASSUME TypeOK, TypeOK', HeldInv, [Next]_vars
  PROVE  HeldInv'
  <1>0. /\ dispatched \in [Messages -> Nat] /\ trimmed \in Nat /\ batch \subseteq Nat
        /\ pc = "bump" => batch # {}
    <2>1. dispatched \in [Messages -> Nat] /\ (pc = "bump" => batch # {})
      BY DEF TypeOK
    <2> QED BY <2>1, StreamTyped
  <1>1. CASE batch' = {}
    BY <1>1 DEF HeldInv
  <1>2. CASE Read /\ batch' # {}
    <2>1. Deliver /\ batch' = FirstOf(Unread) /\ pc' = "bump"
      BY <1>2 DEF Read, TakeBatch
    <2>2. pel' = pel \cup batch'
      BY <2>1, DeliverFact
    <2> QED BY <2>1, <2>2 DEF HeldInv
  <1>3. ASSUME NEW idle \in SUBSET pel, Reclaim(idle), batch' # {} PROVE HeldInv'
    <2> DEFINE claimed == FirstOf(idle)
    <2>1. /\ pel' = pel \ {m \in claimed : m <= trimmed}
          /\ batch' = {m \in claimed : m > trimmed} /\ pc' = "bump"
      BY <1>3 DEF Reclaim, TakeBatch
    <2>2. claimed \subseteq pel
      BY ReclaimFact
    <2>3. \A m \in pel : m \in Nat
      BY LenProperties DEF TypeOK
    <2> HIDE DEF claimed
    <2>4. \A m \in batch' : m \in claimed /\ m \in Nat /\ m > trimmed
      BY <2>1, <2>2, <2>3
    <2>5. \A m \in batch' : m \in pel'
      BY <1>0, <2>1, <2>2, <2>4
    <2> QED BY <2>1, <2>5 DEF HeldInv
  <1>4. CASE NextMessage /\ (pel' = pel \/ pel' = pel \ {Current})
    <2>1. batch' = batch \ {Current} /\ (batch' # {} => pc' = "bump")
      BY <1>4 DEF NextMessage
    <2> QED BY <1>4, <2>1 DEF HeldInv
  <1>5. CASE Bump \/ BumpFault
    <2>1. pc = "bump" /\ batch # {} /\ Current \in Messages
      BY <1>0, <1>5, CurrentFact DEF Bump, BumpFault
    <2>2. /\ dispatched' = [dispatched EXCEPT ![Current] = dispatched[Current] + 1]
          /\ UNCHANGED <<batch, pel>>
      BY <1>5, RouteFact DEF Bump, BumpFault
    <2>3. Current' = Current /\ dispatched'[Current] > 0
      BY <1>0, <2>1, <2>2 DEF Current
    <2> QED BY <2>1, <2>2, <2>3 DEF HeldInv
  <1>6. CASE pc # "bump" /\ pc' = "clear" /\ UNCHANGED <<batch, dispatched>> /\ pel' = pel \ {Current}
    <2>1. Current' = Current
      BY <1>6 DEF Current
    <2> QED BY <1>6, <2>1 DEF HeldInv
  <1>7. CASE UNCHANGED <<batch, pel, dispatched>> /\ (pc' = pc \/ pc \notin {"bump", "clear"})
    <2>1. Current' = Current
      BY <1>7 DEF Current
    <2> QED BY <1>7, <2>1 DEF HeldInv
  <1>8. pc = "read" => batch = {}
    BY DEF TypeOK
  <1>9. CASE DropDuplicate \/ Refuse \/ BeginHandling \/ (\E outcome \in Outcomes : EndHandling(outcome)) \/ DeadAdd
    BY <1>7, <1>9 DEF DropDuplicate, Refuse, BeginHandling, EndHandling, DeadAdd, Goto, groupVars, historyVars
  <1>10. CASE Ack \/ DeadAck
    BY <1>6, <1>10 DEF Ack, DeadAck, RemovePending, Goto, historyVars
  <1>11. CASE Start \/ ReclaimFault \/ ReadFault \/ AckFault \/ Stop \/ Crash
    BY <1>1, <1>7, <1>8, <1>11 DEF Start, ReclaimFault, ReadFault, AckFault, Stop, Crash, Goto, processVars, groupVars, historyVars
  <1>12. CASE Clear \/ ClearFault \/ DeadLetterFault
    BY <1>4, <1>12 DEF Clear, ClearFault, DeadLetterFault, RemovePending, groupVars
  <1>13. CASE \/ Operator \/ ReplayFault \/ UNCHANGED vars
              \/ \E message \in Message : Publish(message)
    BY <1>7, <1>13 DEF Operator, ReplayList, ReplayAdd, ReplayDelete, Purge, ReplayFault, Publish, ToolFrame,
                       vars, processVars, groupVars, historyVars
  <1> QED BY <1>1, <1>2, <1>3, <1>5, <1>9, <1>10, <1>11, <1>12, <1>13 DEF Next, Consumer, Fault

\* NothingVanishes: the commands that remove a message from the pending list
\* come after its fate, or its dead letter.
LEMMA NothingVanishesStep ==
  ASSUME TypeOK, TypeOK', InHand, NothingVanishes, [Next]_vars
  PROVE  NothingVanishes'
  <1> SUFFICES ASSUME NEW m \in 1 .. lastRead', m \notin pel', m > trimmed', fate'[m] = "none"
               PROVE  DeadLettered(m)'
    <2>1. lastRead' \in Int /\ trimmed' \in Int
      BY LenProperties DEF TypeOK
    <2> QED BY <2>1 DEF NothingVanishes
  <1>0. /\ m \in Messages /\ trimmed \in Nat /\ trimmed' \in Nat /\ lastRead \in Nat /\ lastRead' \in Nat /\ m \in Nat
        /\ trimmed <= trimmed' /\ (fate[m] # "none" => fate'[m] # "none")
    <2>1. /\ Len(stream') \in Nat /\ Len(stream') <= MaxMessages /\ MaxMessages \in Nat
          /\ lastRead' \in 0 .. Len(stream') /\ trimmed' \in Nat /\ trimmed \in Nat /\ lastRead \in Nat
      BY LenProperties, BusBounds DEF TypeOK
    <2>2. m \in Messages
      BY <2>1 DEF Messages
    <2> QED BY <2>1, <2>2, Progress
  <1>1. fate[m] = "none" /\ ~(m <= trimmed)
    BY <1>0
  <1>2. DeadLettered(m) => DeadLettered(m)'
    BY Progress DEF DeadLettered
  <1>3. CASE m \in 1 .. lastRead /\ m \notin pel
    BY <1>1, <1>2, <1>3 DEF NothingVanishes
  <1>4. CASE m \in 1 .. lastRead /\ m \in pel
    <2>1. CASE Read \/ ReadFault
      BY <1>4, <2>1, DeliverFact DEF Read, ReadFault
    <2>2. ASSUME NEW idle \in SUBSET pel, Reclaim(idle) PROVE FALSE
      BY <1>1, <1>4, <2>2 DEF Reclaim, Frame
    <2>3. CASE Ack \/ AckFault
      BY <1>1, <1>4, <2>3 DEF Ack, AckFault, RemovePending, groupVars, InHand
    <2>4. CASE DeadAck \/ DeadLetterFault
      BY <1>2, <1>4, <2>4 DEF DeadAck, DeadLetterFault, RemovePending, groupVars, InHand
    <2>5. \/ pel' = pel \/ Read \/ ReadFault \/ (\E idle \in SUBSET pel : Reclaim(idle))
          \/ Ack \/ AckFault \/ DeadAck \/ DeadLetterFault
      BY DEF Next, Consumer, Operator, Fault,
         Publish, Start, Bump, Route, DropDuplicate, Refuse, BeginHandling, EndHandling, Clear, DeadAdd,
         ReplayList, ReplayAdd, ReplayDelete, Purge, ReclaimFault, BumpFault, ClearFault, ReplayFault, Stop, Crash,
         Frame, RaiseFrame, ToolFrame, vars, groupVars
    <2> QED BY <1>4, <2>1, <2>2, <2>3, <2>4, <2>5
  <1>5. CASE m \notin 1 .. lastRead
    <2>1. Read \/ ReadFault
      BY <1>5, Changes
    <2>2. Deliver /\ trimmed' = trimmed
      BY <2>1 DEF Read, ReadFault, Frame, RaiseFrame
    <2>3. m \in lastRead + 1 .. lastRead'
      BY <1>0, <1>5
    <2> QED BY <1>1, <2>2, <2>3, DeliverFact
  <1> QED BY <1>3, <1>4, <1>5

\* The types of the letters and of the replay.
LEMMA LettersTyped ==
  ASSUME TypeOK
  PROVE  /\ dlq \in Seq(DeadLetter) /\ \A i \in DOMAIN dlq : dlq[i] \in DeadLetter
         /\ toReplay \subseteq DOMAIN dlq /\ toReplay \in SUBSET Nat
  <1>1. dlq \in Seq(DeadLetter) /\ toReplay \subseteq DOMAIN dlq
    BY DEF TypeOK
  <1>2. DOMAIN dlq \subseteq Nat
    BY <1>1, LenProperties
  <1> QED BY <1>1, <1>2, ElementOfSeq

\* A new dead letter is the current message's, which is poison.
LEMMA NewLetter ==
  ASSUME TypeOK, TypeOK', [Next]_vars, NEW i \in DOMAIN dlq', i \notin DOMAIN dlq
  PROVE  /\ pc = "deadAdd" /\ UNCHANGED stream
         /\ dlq'[i] = [event |-> CurrentEvent, msg |-> Current, since |-> Len(stream), state |-> "kept"]
  <1> DEFINE letter == [event |-> CurrentEvent, msg |-> Current, since |-> Len(stream), state |-> "kept"]
  <1>1. ~(ReplayDelete \/ \E j \in Letters : Purge(j))
    BY DEF ReplayDelete, Purge
  <1>2. pc = "deadAdd" /\ UNCHANGED stream /\ dlq' = Append(dlq, letter)
    BY <1>1, Changes DEF DeadAdd, DeadLetterFault, AddDeadLetter, Frame, RaiseFrame
  <1> HIDE DEF letter
  <1>3. Len(dlq) \in Nat /\ DOMAIN dlq = 1 .. Len(dlq)
    BY LenProperties DEF TypeOK
  <1>4. dlq'[Len(dlq) + 1] = letter /\ Len(dlq') = Len(dlq) + 1
    BY <1>2, AppendFact DEF TypeOK
  <1>5. DOMAIN dlq' = 1 .. Len(dlq')
    BY LenProperties DEF TypeOK
  <1>6. i = Len(dlq) + 1
    BY <1>3, <1>4, <1>5
  <1> QED BY <1>2, <1>4, <1>6 DEF letter

\* The copy of a letter stays in the history of the stream.
LEMMA ReaddedStays ==
  ASSUME TypeOK, TypeOK', [Next]_vars, NEW i \in DOMAIN dlq, Readded(i)
  PROVE  Readded(i)'
  <1>1. PICK m \in dlq[i].since + 1 .. Len(stream) : stream[m].event = dlq[i].event
    BY DEF Readded
  <1>2. /\ dlq[i].since \in Nat /\ Len(stream) \in Nat /\ Len(stream') \in Nat
    <2>1. dlq[i] \in DeadLetter
      BY LettersTyped
    <2>2. Len(stream') \in Nat
      BY LenProperties DEF TypeOK
    <2> QED BY <2>1, <2>2, StreamTyped, BusBounds DEF DeadLetter
  <1>3. m \in 1 .. Len(stream) /\ m \in dlq[i].since + 1 .. Len(stream')
    BY <1>1, <1>2, Progress
  <1> QED BY <1>1, <1>3, Progress DEF Readded

\* ReplayInv: the letter to delete is the one that was just added.
LEMMA ReplayStep ==
  ASSUME TypeOK, TypeOK', ReplayInv, [Next]_vars
  PROVE  ReplayInv'
  <1>0. /\ Len(stream) \in Nat /\ Len(stream') \in Nat /\ lastRead \in Nat /\ lastRead' \in Nat
        /\ Len(stream) <= Len(stream') /\ lastRead <= lastRead'
        /\ dlq \in Seq(DeadLetter) /\ DOMAIN dlq = 1 .. Len(dlq)
    <2>1. stream \in Seq(Message) /\ stream' \in Seq(Message) /\ dlq \in Seq(DeadLetter)
      BY DEF TypeOK
    <2>2. Len(stream) \in Nat /\ Len(stream') \in Nat /\ DOMAIN dlq = 1 .. Len(dlq)
      BY <2>1, LenProperties
    <2>3. lastRead \in Nat /\ lastRead' \in Nat
      BY <2>2 DEF TypeOK
    <2> QED BY <2>1, <2>2, <2>3, Progress
  <1>1. ASSUME NEW i \in DOMAIN dlq'
        PROVE  dlq'[i].msg <= lastRead' /\ dlq'[i].since <= Len(stream')
    <2>1. CASE i \in DOMAIN dlq
      <3>1. dlq[i] \in DeadLetter
        BY <1>0, <2>1, ElementOfSeq
      <3>2. dlq[i].msg \in Nat /\ dlq[i].since \in Nat
        BY <3>1, BusBounds DEF DeadLetter, Messages
      <3>3. dlq'[i].msg = dlq[i].msg /\ dlq'[i].since = dlq[i].since
        BY <2>1, Progress
      <3> QED BY <1>0, <2>1, <3>2, <3>3 DEF ReplayInv
    <2>2. CASE i \notin DOMAIN dlq
      <3>1. /\ pc = "deadAdd" /\ dlq'[i].msg = Current /\ dlq'[i].since = Len(stream)
        BY <2>2, NewLetter
      <3>2. Current \in 1 .. lastRead
        BY <3>1, CurrentFact DEF TypeOK
      <3> QED BY <1>0, <3>1, <3>2
    <2> QED BY <2>1, <2>2
  <1>2. CASE UNCHANGED toolVars
    <2>1. replayPc # "idle" => toReplay # {}
      BY DEF ReplayInv
    <2>2. ASSUME replayPc = "del" PROVE Readded(Min(toReplay))'
      <3>1. Min(toReplay) \in DOMAIN dlq
        <4>1. toReplay \subseteq DOMAIN dlq /\ toReplay # {} /\ toReplay \in SUBSET Nat
          BY <2>1, <2>2, LettersTyped
        <4> QED BY <4>1, MinFact
      <3>2. Readded(Min(toReplay))
        BY <2>2 DEF ReplayInv
      <3>3. \A i \in DOMAIN dlq : Readded(i) => Readded(i)'
        BY ReaddedStays
      <3>4. toReplay' = toReplay
        BY <1>2 DEF toolVars
      <3> QED BY <3>1, <3>2, <3>3, <3>4 DEF Readded
    <2> QED BY <1>1, <1>2, <2>1, <2>2 DEF ReplayInv, toolVars
  <1>3. CASE ReplayAdd
    <2> DEFINE i == Min(toReplay)
    <2>1. toReplay' = toReplay /\ toReplay # {} /\ replayPc' = "del" /\ dlq' = dlq
      BY <1>3 DEF ReplayAdd, ReplayInv
    <2>2. i \in DOMAIN dlq
      <3>1. toReplay \subseteq DOMAIN dlq /\ toReplay \in SUBSET Nat
        BY LettersTyped
      <3> QED BY <2>1, <3>1, MinFact
    <2>3. dlq[i].since \in Nat /\ dlq[i].since <= Len(stream)
      <3>1. dlq[i] \in DeadLetter
        BY <1>0, <2>2, ElementOfSeq
      <3> QED BY <2>2, <3>1, BusBounds DEF DeadLetter, ReplayInv
    <2> HIDE DEF i
    <2>4. Len(stream') = Len(stream) + 1 /\ stream'[Len(stream')].event = dlq[i].event
      BY <1>3, AddFact DEF i
    <2>5. Len(stream') \in dlq[i].since + 1 .. Len(stream')
      BY <1>0, <2>3, <2>4
    <2>6. Readded(Min(toReplay))'
      BY <2>1, <2>4, <2>5 DEF Readded, i
    <2> QED BY <1>1, <2>1, <2>6 DEF ReplayInv
  <1>4. CASE ReplayDelete \/ ReplayFault \/ \E chosen \in SUBSET Letters : ReplayList(chosen)
    <2>1. (replayPc' = "idle" \/ (replayPc' = "add" /\ toReplay' # {}))
      BY <1>4 DEF ReplayDelete, ReplayFault, ReplayList
    <2> QED BY <1>1, <2>1 DEF ReplayInv
  <1> QED BY <1>2, <1>3, <1>4, Changes

\* OnlyPoisonDeadLettered and DeadLettersKept.
LEMMA LettersStep ==
  ASSUME TypeOK, TypeOK', InHand, ReplayInv, OnlyPoisonDeadLettered, DeadLettersKept, [Next]_vars
  PROVE  OnlyPoisonDeadLettered' /\ DeadLettersKept'
  <1>0. /\ \A m \in 1 .. Len(stream) : stream'[m] = stream[m]
        /\ \A m \in Messages : /\ dispatched[m] \in Nat /\ dispatched'[m] \in Nat
                               /\ dispatched[m] <= dispatched'[m]
        /\ dlq \in Seq(DeadLetter) /\ MaxDeliveries \in Nat
        /\ Len(stream) \in Nat /\ lastRead \in 0 .. Len(stream)
    BY LenProperties, Progress, BusAssumption DEF TypeOK
  <1>1. ASSUME NEW m \in 1 .. Len(stream), m \in Messages, Poison(m)
        PROVE  Poison(m)'
    BY <1>0, <1>1 DEF Poison
  <1>2. ASSUME NEW i \in DOMAIN dlq' PROVE Poison(dlq[i].msg)'
    <2>1. CASE i \in DOMAIN dlq
      <3>1. dlq[i].msg \in Messages /\ dlq[i].msg <= lastRead
        <4>1. dlq[i] \in DeadLetter
          BY <1>0, <2>1, ElementOfSeq, LenProperties
        <4> QED BY <2>1, <4>1 DEF DeadLetter, ReplayInv
      <3>2. dlq[i].msg \in 1 .. Len(stream)
        BY <1>0, <3>1 DEF Messages
      <3>3. Poison(dlq[i].msg)
        BY <2>1 DEF OnlyPoisonDeadLettered
      <3>4. PICK m \in 1 .. Len(stream) : m = dlq[i].msg
        BY <3>2
      <3>5. dlq'[i].msg = m
        BY <2>1, <3>4, Progress
      <3>6. Poison(m)'
        BY <1>1, <3>1, <3>3, <3>4
      <3> QED BY <3>5, <3>6 DEF Poison
    <2>2. CASE i \notin DOMAIN dlq
      <3>1. pc = "deadAdd" /\ dlq'[i].msg = Current
        BY <2>2, NewLetter
      <3>2. Current \in 1 .. Len(stream) /\ Current \in Messages /\ Poison(Current)
        BY <3>1, CurrentFact DEF TypeOK, InHand
      <3>3. PICK m \in 1 .. Len(stream) : m = Current
        BY <3>2
      <3>4. Poison(m)'
        BY <1>1, <3>2, <3>3
      <3> QED BY <3>1, <3>3, <3>4 DEF Poison
    <2> QED BY <2>1, <2>2
  <1>3. ASSUME NEW i \in DOMAIN dlq', dlq'[i].state = "replayed" PROVE Readded(i)'
    <2>1. i \in DOMAIN dlq
      BY <1>3, NewLetter
    <2>2. CASE dlq[i].state = "replayed"
      BY <2>1, <2>2, ReaddedStays DEF DeadLettersKept
    <2>3. CASE dlq[i].state # "replayed"
      <3>1. ReplayDelete
        <4>1. ~(DeadAdd \/ DeadLetterFault)
          <5>1. ASSUME DeadAdd \/ DeadLetterFault PROVE dlq'[i] = dlq[i]
            <6>1. CASE dlq' # dlq
              <7> DEFINE letter == [event |-> CurrentEvent, msg |-> Current, since |-> Len(stream), state |-> "kept"]
              <7>1. dlq' = Append(dlq, letter)
                BY <5>1, <6>1 DEF DeadAdd, DeadLetterFault, AddDeadLetter
              <7> HIDE DEF letter
              <7>2. i \in 1 .. Len(dlq)
                BY <1>0, <2>1, LenProperties
              <7> QED BY <1>0, <7>1, <7>2, AppendFact
            <6> QED BY <6>1
          <5> QED BY <1>3, <2>3, <5>1
        <4>2. ASSUME NEW j \in Letters, Purge(j) PROVE FALSE
          BY <1>3, <2>1, <2>3, <4>2 DEF Purge
        <4> QED BY <1>3, <2>3, <4>1, <4>2, Changes
      <3>2. i = Min(toReplay) /\ replayPc = "del"
        BY <1>3, <2>1, <2>3, <3>1 DEF ReplayDelete
      <3> QED BY <2>1, <3>2, ReaddedStays DEF ReplayInv
    <2> QED BY <2>2, <2>3
  <1> QED BY <1>2, <1>3 DEF OnlyPoisonDeadLettered, DeadLettersKept

-----------------------------------------------------------------------------
(* The bus implements MessageChannel. *)

\* The bus starts as the channel does.
LEMMA ChannelInit == Init => Channel!Init
  <1> SUFFICES ASSUME Init PROVE Channel!Init
    OBVIOUS
  <1>1. Len(stream) = 0 /\ trimmed = 0 /\ lastRead = 0 /\ dispatched = [m \in Messages |-> 0]
    BY EmptySeq DEF Init
  <1>2. Ended = {} /\ Settled = {}
    BY <1>1 DEF Ended, Settled
  <1> QED BY <1>1, <1>2 DEF Channel!Init

\* The types the mapping relies on.
LEMMA ChannelTypes ==
  ASSUME TypeOK
  PROVE  /\ Len(stream) \in Nat /\ lastRead \in Nat /\ lastRead <= Len(stream)
         /\ trimmed \in Nat /\ trimmed <= Len(stream)
         /\ dispatched \in [Messages -> Nat]
         /\ \A m \in 1 .. lastRead : m \in Messages /\ m \in 1 .. Len(stream)
  BY LenProperties, BusBounds DEF TypeOK, Messages

\* A message has a dead letter, or not, as before: but for the current one,
\* when it gets its letter.
LEMMA LettersFact ==
  ASSUME TypeOK, TypeOK', [Next]_vars
  PROVE  /\ \A m : DeadLettered(m) => DeadLettered(m)'
         /\ \A m : DeadLettered(m)' => DeadLettered(m) \/ (pc = "deadAdd" /\ m = Current)
  <1>1. \A m : DeadLettered(m) => DeadLettered(m)'
    BY Progress DEF DeadLettered
  <1>2. ASSUME NEW m, NEW i \in DOMAIN dlq', dlq'[i].msg = m
        PROVE  DeadLettered(m) \/ (pc = "deadAdd" /\ m = Current)
    <2>1. CASE i \in DOMAIN dlq
      BY <1>2, <2>1, Progress DEF DeadLettered
    <2>2. CASE i \notin DOMAIN dlq
      BY <1>2, <2>2, NewLetter
    <2> QED BY <2>1, <2>2
  <1> QED BY <1>1, <1>2 DEF DeadLettered

\* Both additions to the stream send a message.
LEMMA SendStep ==
  ASSUME IInv, IInv', [Next]_vars, ReplayAdd \/ \E message \in Message : Publish(message)
  PROVE  Channel!Send
  <1>1. Len(stream') = Len(stream) + 1 /\ UNCHANGED <<groupVars, dlq, processVars, historyVars>>
    BY AddFact DEF IInv
  <1>2. trimmed' \in trimmed .. Len(stream')
    <2>1. TypeOK /\ TypeOK'
      BY DEF IInv
    <2>2. trimmed' \in 0 .. Len(stream') /\ Len(stream') \in Nat
      BY <2>1, LenProperties DEF TypeOK
    <2>3. trimmed <= trimmed' /\ trimmed \in Nat
      BY <2>1, Progress, ChannelTypes
    <2> QED BY <2>2, <2>3
  <1>3. UNCHANGED <<Ended, Settled, dispatched>>
    BY <1>1 DEF Ended, Settled, DeadLettered, groupVars, historyVars
  <1> QED BY <1>1, <1>2, <1>3 DEF Channel!Send

\* XREADGROUP passes over what was trimmed.
LEMMA ReadLoses ==
  ASSUME IInv, IInv', [Next]_vars, Read \/ ReadFault
  PROVE  \E lost \in SUBSET Messages : Channel!Lose(lost)
  <1> DEFINE lost == {m \in lastRead + 1 .. lastRead' : m \notin FirstOf(Unread)}
  <1>1. Deliver /\ UNCHANGED <<stream, trimmed, dispatched, fate, dlq>>
    BY DEF Read, ReadFault, Frame, RaiseFrame, historyVars
  <1>2. /\ lastRead \in Nat /\ lastRead' \in Nat /\ lastRead < lastRead' /\ trimmed \in Nat
        /\ FirstOf(Unread) \subseteq lastRead + 1 .. lastRead'
        /\ \A m \in lastRead + 1 .. lastRead' : m <= trimmed \/ m \in FirstOf(Unread)
        /\ pel' = pel \cup FirstOf(Unread)
        /\ \A m \in 1 .. lastRead' : m \in Messages
    <2>1. TypeOK
      BY DEF IInv
    <2>2. /\ lastRead' \in 1 .. Len(stream) /\ lastRead < lastRead'
          /\ FirstOf(Unread) \subseteq lastRead + 1 .. lastRead'
          /\ \A m \in lastRead + 1 .. lastRead' : m <= trimmed \/ m \in FirstOf(Unread)
          /\ pel' = pel \cup FirstOf(Unread)
      BY <1>1, <2>1, DeliverFact
    <2>3. Len(stream) \in Nat /\ Len(stream) <= MaxMessages /\ MaxMessages \in Nat
      BY <2>1, LenProperties, BusBounds DEF TypeOK
    <2>4. \A m \in 1 .. lastRead' : m \in Messages
      BY <2>2, <2>3 DEF Messages
    <2> QED BY <2>1, <2>2, <2>3, <2>4, ChannelTypes
  <1>3. pel \subseteq 1 .. lastRead
    BY DEF IInv, TypeOK
  <1>4. \A m \in lastRead + 1 .. lastRead' : fate[m] = "none" /\ ~DeadLettered(m)
    <2> SUFFICES ASSUME NEW m \in lastRead + 1 .. lastRead' PROVE fate[m] = "none" /\ ~DeadLettered(m)
      OBVIOUS
    <2>1. m \in Messages /\ ~(m <= lastRead)
      BY <1>2
    <2>2. fate[m] = "none"
      BY <2>1 DEF IInv, FateInv
    <2>3. ~DeadLettered(m)
      BY <2>1 DEF IInv, ReplayInv, DeadLettered
    <2> QED BY <2>2, <2>3
  <1>5. \A m : m \in 1 .. lastRead' <=> m \in 1 .. lastRead \/ m \in lastRead + 1 .. lastRead'
    BY <1>2
  <1>6. Ended' = Ended
    BY <1>1, <1>4, <1>5 DEF Ended, DeadLettered
  <1>7. Settled' = Settled \cup lost
    <2>1. \A m \in lastRead + 1 .. lastRead' : m \notin 1 .. lastRead
      BY <1>2
    <2> QED BY <1>2, <1>3, <1>5, <2>1 DEF Settled
  <1>8. lost \subseteq 1 .. trimmed /\ lost \subseteq Messages
    BY <1>2
  <1> HIDE DEF lost
  <1>9. Channel!Lose(lost)
    BY <1>1, <1>6, <1>7, <1>8 DEF Channel!Lose
  <1> QED BY <1>8, <1>9

\* XAUTOCLAIM forgets what was trimmed.
LEMMA ReclaimLoses ==
  ASSUME IInv, IInv', [Next]_vars, NEW idle \in SUBSET pel, Reclaim(idle)
  PROVE  \E lost \in SUBSET Messages : Channel!Lose(lost)
  <1> DEFINE lost == {m \in FirstOf(idle) : m <= trimmed}
  <1>1. pel' = pel \ lost /\ UNCHANGED <<stream, trimmed, lastRead, dispatched, fate, dlq>>
    BY DEF Reclaim, Frame, historyVars
  <1>2. FirstOf(idle) \subseteq pel /\ pel \subseteq 1 .. lastRead
    BY ReclaimFact DEF IInv, TypeOK
  <1>3. lost \subseteq 1 .. lastRead /\ lost \subseteq Messages /\ lost \subseteq 1 .. trimmed
    <2>1. lastRead \in Nat /\ trimmed \in Nat /\ \A m \in 1 .. lastRead : m \in Messages
      BY ChannelTypes DEF IInv
    <2>2. \A m \in lost : m \in 1 .. lastRead /\ m <= trimmed
      BY <1>2
    <2> HIDE DEF lost
    <2>3. \A m \in lost : m \in Messages /\ m \in 1 .. trimmed
      BY <2>1, <2>2
    <2> QED BY <2>2, <2>3
  <1> HIDE DEF lost
  <1>4. Ended' = Ended
    BY <1>1 DEF Ended, DeadLettered
  <1>5. Settled' = Settled \cup lost
    BY <1>1, <1>3 DEF Settled
  <1>6. Channel!Lose(lost)
    BY <1>1, <1>3, <1>4, <1>5 DEF Channel!Lose
  <1> QED BY <1>3, <1>6

\* Where the current message is in the channel's eyes.
LEMMA CurrentIsOpen ==
  ASSUME IInv, batch # {}, pc # "clear"
  PROVE  Current \in Messages /\ Channel!Open(Current)
  <1>1. Current \in batch /\ Current \in 1 .. lastRead
    BY CurrentFact DEF IInv
  <1>2. Current \in pel
    BY <1>1 DEF IInv, HeldInv
  <1> QED BY <1>1, <1>2, ChannelTypes DEF IInv, Settled, Channel!Open

\* A delivery, counted or not, is an offer; what nobody subscribed to is over.
LEMMA OfferStep ==
  ASSUME IInv, IInv', [Next]_vars, Bump \/ BumpFault
  PROVE  \E m \in Messages : Channel!Offer(m)
  <1>1. pc = "bump" /\ batch # {} /\ TypeOK
    BY DEF IInv, TypeOK, Bump, BumpFault
  <1>2. /\ dispatched' = [dispatched EXCEPT ![Current] = dispatched[Current] + 1]
        /\ UNCHANGED <<lastRead, pel, dlq>>
        /\ fate' = fate \/ fate' = [fate EXCEPT ![Current] = "foreign"]
    BY <1>1, RouteFact DEF Bump, BumpFault
  <1>3. UNCHANGED <<stream, trimmed>>
    BY DEF Bump, BumpFault, Frame, RaiseFrame
  <1>4. Current \in Messages /\ Channel!Open(Current) /\ Current \in 1 .. lastRead
    BY <1>1, CurrentIsOpen, CurrentFact
  <1>5. Settled' = Settled
    BY <1>2 DEF Settled
  <1>6. Ended' = Ended \/ Ended' = Ended \cup {Current}
    <2>1. CASE fate' = fate
      BY <1>2, <2>1 DEF Ended, DeadLettered
    <2>2. CASE fate' = [fate EXCEPT ![Current] = "foreign"]
      <3>1. fate \in [Messages -> Fates] /\ \A m \in 1 .. lastRead : m \in Messages
        BY <1>1, ChannelTypes DEF TypeOK
      <3>2. \A m \in 1 .. lastRead : fate'[m] # "none" <=> fate[m] # "none" \/ m = Current
        BY <2>2, <3>1
      <3>3. \A m : DeadLettered(m)' <=> DeadLettered(m)
        BY <1>2 DEF DeadLettered
      <3> QED BY <1>2, <1>4, <3>2, <3>3 DEF Ended
    <2> QED BY <1>2, <2>1, <2>2
  <1> QED BY <1>2, <1>3, <1>4, <1>5, <1>6 DEF Channel!Offer

\* The pipeline's answers are ends of an attempt.
LEMMA EndStep ==
  ASSUME IInv, IInv', [Next]_vars,
         DropDuplicate \/ Refuse \/ \E outcome \in Outcomes : EndHandling(outcome)
  PROVE  \E m \in Messages : Channel!End(m)
  <1>1. TypeOK /\ batch # {} /\ pc \in {"handle", "running"}
    BY DEF IInv, TypeOK, DropDuplicate, Refuse, EndHandling
  <1>2. /\ UNCHANGED <<stream, trimmed, lastRead, pel, dlq, dispatched>>
        /\ \E f \in Fates \ {"none"} : fate' = [fate EXCEPT ![Current] = f]
    BY DEF DropDuplicate, Refuse, EndHandling, Frame, groupVars, Fates, Outcomes
  <1>3. Current \in Messages /\ Channel!Open(Current) /\ Current \in 1 .. lastRead /\ dispatched[Current] > 0
    BY <1>1, CurrentIsOpen, CurrentFact DEF IInv, HeldInv
  <1>4. Settled' = Settled
    BY <1>2 DEF Settled
  <1>5. Ended' = Ended \cup {Current}
    <2>1. fate \in [Messages -> Fates] /\ \A m \in 1 .. lastRead : m \in Messages
      BY <1>1, ChannelTypes DEF TypeOK
    <2>2. \A m \in 1 .. lastRead : fate'[m] # "none" <=> fate[m] # "none" \/ m = Current
      BY <1>2, <2>1
    <2>3. \A m : DeadLettered(m)' <=> DeadLettered(m)
      BY <1>2 DEF DeadLettered
    <2> QED BY <1>2, <1>3, <2>2, <2>3 DEF Ended
  <1> QED BY <1>2, <1>3, <1>4, <1>5 DEF Channel!End

\* XACK settles, after the fate or the dead letter.
LEMMA SettleStep ==
  ASSUME IInv, [Next]_vars, batch # {}, pc \in {"ack", "deadAck"}, RemovePending,
         UNCHANGED <<stream, trimmed, dlq, fate, dispatched>>
  PROVE  \E m \in Messages : Channel!Settle(m)
  <1>1. Current \in Messages /\ Channel!Open(Current) /\ Current \in 1 .. lastRead
    BY CurrentIsOpen, CurrentFact DEF IInv
  <1>2. Current \in Ended
    BY <1>1 DEF IInv, InHand, Ended
  <1>3. pel' = pel \ {Current} /\ lastRead' = lastRead
    BY DEF RemovePending
  <1>4. Ended' = Ended
    BY <1>3 DEF Ended, DeadLettered
  <1>5. Settled' = Settled \cup {Current}
    BY <1>1, <1>3 DEF Settled
  <1> QED BY <1>1, <1>2, <1>4, <1>5 DEF Channel!Settle

\* The dead letter ends the attempts; it may be added more than once.
LEMMA LetterStep ==
  ASSUME IInv, IInv', [Next]_vars, batch # {}, pc = "deadAdd",
         UNCHANGED <<stream, trimmed, lastRead, pel, fate, dispatched>>
  PROVE  [Channel!Next]_(Channel!vars)
  <1>0. TypeOK /\ TypeOK'
    BY DEF IInv
  <1>1. Current \in Messages /\ Channel!Open(Current) /\ Current \in 1 .. lastRead /\ dispatched[Current] > 0
    BY CurrentIsOpen, CurrentFact DEF IInv, HeldInv
  <1>2. Settled' = Settled
    BY DEF Settled
  <1>3. Ended' = Ended \/ Ended' = Ended \cup {Current}
    <2>1. \A m : (DeadLettered(m) => DeadLettered(m)') /\ (DeadLettered(m)' => DeadLettered(m) \/ m = Current)
      BY <1>0, LettersFact
    <2>2. CASE DeadLettered(Current)'
      BY <1>1, <2>1, <2>2 DEF Ended
    <2>3. CASE ~DeadLettered(Current)'
      BY <2>1, <2>3 DEF Ended
    <2> QED BY <2>2, <2>3
  <1>4. CASE Ended' = Ended \cup {Current}
    <2>1. Channel!End(Current)
      BY <1>1, <1>2, <1>4 DEF Channel!End
    <2> QED BY <1>1, <2>1 DEF Channel!Next
  <1>5. CASE Ended' = Ended
    BY <1>2, <1>5 DEF Channel!vars
  <1> QED BY <1>3, <1>4, <1>5

\* All other steps mean nothing to the channel.
LEMMA QuietStep ==
  ASSUME IInv, IInv', [Next]_vars, pc # "deadAdd",
         UNCHANGED <<stream, trimmed, lastRead, pel, fate, dispatched>>
  PROVE  UNCHANGED Channel!vars
  <1>1. \A m : DeadLettered(m)' <=> DeadLettered(m)
    BY LettersFact DEF IInv
  <1>2. Ended' = Ended /\ Settled' = Settled
    BY <1>1 DEF Ended, Settled
  <1> QED BY <1>2 DEF Channel!vars

\* Every step is one of the channel's, or stutters.
LEMMA ChannelStep == IInv /\ IInv' /\ [Next]_vars => [Channel!Next]_(Channel!vars)
  <1> SUFFICES ASSUME IInv, IInv', [Next]_vars PROVE [Channel!Next]_(Channel!vars)
    OBVIOUS
  <1>0. pc \in {"ack", "deadAdd", "deadAck"} => batch # {}
    BY DEF IInv, TypeOK
  <1>1. CASE ReplayAdd \/ \E message \in Message : Publish(message)
    BY <1>1, SendStep DEF Channel!Next
  <1>2. CASE Read \/ ReadFault \/ \E idle \in SUBSET pel : Reclaim(idle)
    BY <1>2, ReadLoses, ReclaimLoses DEF Channel!Next
  <1>3. CASE Bump \/ BumpFault
    BY <1>3, OfferStep DEF Channel!Next
  <1>4. CASE DropDuplicate \/ Refuse \/ \E outcome \in Outcomes : EndHandling(outcome)
    BY <1>4, EndStep DEF Channel!Next
  <1>5. CASE /\ pc \in {"ack", "deadAck"}
             /\ RemovePending \/ UNCHANGED <<lastRead, pel>>
             /\ UNCHANGED <<stream, trimmed, dlq, fate, dispatched>>
    <2>1. CASE RemovePending
      BY <1>0, <1>5, <2>1, SettleStep DEF Channel!Next
    <2>2. CASE UNCHANGED <<lastRead, pel>>
      BY <1>5, <2>2, QuietStep
    <2> QED BY <1>5, <2>1, <2>2
  <1>6. CASE UNCHANGED <<stream, trimmed, lastRead, pel, fate, dispatched>>
    BY <1>0, <1>6, LetterStep, QuietStep
  <1>7. CASE Ack \/ AckFault \/ DeadAck
    BY <1>5, <1>7 DEF Ack, AckFault, DeadAck, Frame, RaiseFrame, RemovePending, groupVars, historyVars
  <1>8. CASE DeadLetterFault
    BY <1>5, <1>6, <1>8 DEF DeadLetterFault, RaiseFrame, groupVars, historyVars
  <1>9. CASE Start \/ BeginHandling \/ Clear \/ DeadAdd \/ ReclaimFault \/ ClearFault \/ Stop \/ Crash
    BY <1>6, <1>9 DEF Start, BeginHandling, Clear, DeadAdd, ReclaimFault, ClearFault, Stop, Crash,
                      Frame, RaiseFrame, groupVars, historyVars
  <1>10. CASE \/ \E chosen \in SUBSET Letters : ReplayList(chosen)
              \/ ReplayDelete \/ (\E i \in Letters : Purge(i)) \/ ReplayFault \/ UNCHANGED vars
    BY <1>6, <1>10 DEF ReplayList, ReplayDelete, Purge, ReplayFault, ToolFrame, vars, groupVars, historyVars
  <1> QED BY <1>1, <1>2, <1>3, <1>4, <1>7, <1>8, <1>9, <1>10 DEF Next, Consumer, Operator, Fault

-----------------------------------------------------------------------------
(* The theorems. *)

\* The invariant holds when the bus starts.
LEMMA InitIInv == Init => IInv
  <1> SUFFICES ASSUME Init PROVE IInv
    OBVIOUS
  <1>1. TypeOK
    <2>1. /\ stream \in Seq(Message) /\ dlq \in Seq(DeadLetter) /\ seen \in Seq(Events)
          /\ Len(stream) = 0 /\ Len(seen) = 0
      BY EmptySeq DEF Init
    <2>2. MaxMessages \in Nat /\ DedupSize \in Nat
      BY BusAssumption, BusBounds
    <2>3. /\ deliveries \in [Messages -> Nat] /\ dispatched \in [Messages -> Nat]
          /\ fate \in [Messages -> Fates]
          /\ DOMAIN since \subseteq Events /\ since \in [DOMAIN since -> SUBSET Events]
      BY DEF Init, Fates
    <2>4. /\ trimmed \in 0 .. Len(stream) /\ lastRead \in 0 .. Len(stream) /\ toReplay \subseteq DOMAIN dlq
          /\ pel \subseteq 1 .. lastRead /\ batch \subseteq 1 .. lastRead
      BY <2>1 DEF Init
    <2>5. /\ pc = "down" /\ batch = {} /\ reclaiming \in BOOLEAN /\ replayPc = "idle"
          /\ faults \in Nat /\ crashes \in Nat
      BY DEF Init
    <2> QED BY <2>1, <2>2, <2>3, <2>4, <2>5 DEF TypeOK
  <1>3. InHand /\ HeldInv /\ FateInv /\ SeenInv
    BY DEF Init, InHand, HeldInv, FateInv, Finished, SeenInv
  <1>4. WindowInv
    BY DEF Init, WindowInv
  <1>5. ReplayInv /\ NothingVanishes /\ DuplicatesWereFinished /\ OnlyPoisonDeadLettered /\ DeadLettersKept
    BY DEF Init, ReplayInv, NothingVanishes, DuplicatesWereFinished, OnlyPoisonDeadLettered, DeadLettersKept
  <1> QED BY <1>1, <1>3, <1>4, <1>5 DEF IInv

\* Every step keeps it.
LEMMA NextIInv == IInv /\ [Next]_vars => IInv'
  <1> SUFFICES ASSUME IInv, [Next]_vars PROVE IInv'
    OBVIOUS
  <1>1. TypeOK'
    <2>1. CASE UNCHANGED vars
      BY <2>1 DEF IInv, TypeOK, vars, groupVars, processVars, toolVars, historyVars, budgetVars
    <2> QED BY <2>1, ConsumerType, OperatorType DEF IInv, Next
  <1> QED BY <1>1, InHandStep, HeldStep, FateStep, SeenStep, WindowStep, ReplayStep, NothingVanishesStep,
             DuplicatesStep, LettersStep DEF IInv

\* The inductive invariant holds, whatever the messages, the sizes of batch,
\* dedup and stream, and the faults and crashes.
THEOREM Invariance == Spec => []IInv
  BY InitIInv, NextIInv, PTL DEF Spec

\* The bus, the group, the process and the tools keep to their types: the
\* dedup to its size, the pending entries to what was delivered.
THEOREM TypeCorrectness == Spec => []TypeOK
  BY Invariance, PTL DEF IInv

\* At least once: no message leaves the pending list unhandled, unless it was
\* dead-lettered or trimmed.
THEOREM AtLeastOnce == Spec => []NothingVanishes
  BY Invariance, PTL DEF IInv

\* A dropped duplicate is one of a message that was finished.
THEOREM DuplicatesAreDuplicates == Spec => []DuplicatesWereFinished
  BY Invariance, PTL DEF IInv

\* One process lets an event pass its dedup again exactly when at least
\* dedup_max_size other ids were looked up since its own last lookup, whatever
\* dedup_max_size is: never earlier, and nothing that old is dropped.
THEOREM DedupKeepsWindow == Spec => WindowDecides
  <1> DEFINE Decided == \A e \in Events :
        /\ LetsPass(e) /\ e \in DOMAIN since => Cardinality(since[e]) >= DedupSize
        /\ Drops(e) => e \in DOMAIN since /\ Cardinality(since[e]) < DedupSize
  <1>1. IInv /\ [Next]_vars => [Decided]_vars
    <2> SUFFICES ASSUME IInv, [Next]_vars PROVE Decided
      OBVIOUS
    <2> QED BY WindowUsed DEF IInv
  <1> QED BY <1>1, Invariance, PTL DEF Spec, WindowDecides

\* Dead letters are of poison only.
THEOREM PoisonOnly == Spec => []OnlyPoisonDeadLettered
  BY Invariance, PTL DEF IInv

\* A replay loses no dead letter.
THEOREM ReplayLosesNothing == Spec => []DeadLettersKept
  BY Invariance, PTL DEF IInv

\* The bus is an at-least-once channel: whatever raises and whenever its
\* process dies, a message that the group has acknowledged was dealt with, or
\* trimmed, and is never dispatched again.
THEOREM BusImplementsChannel == Spec => ImplementsChannel
  BY ChannelInit, ChannelStep, Invariance, PTL DEF Spec, ImplementsChannel, Channel!Spec
=============================================================================
