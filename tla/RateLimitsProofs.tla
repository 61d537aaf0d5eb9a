-------------------------- MODULE RateLimitsProofs --------------------------
(***************************************************************************)
(* What module RateLimits promises, proved for every policy, clock and     *)
(* number of rows: no stretch of time holds more sends than was allowed,   *)
(* and the readiness shown is the decision of the triggers.                *)
(***************************************************************************)
EXTENDS RateLimits, FiniteSetTheorems, WellFoundedInduction, TLAPS

USE RateBounds, PoliciesAreSettings

-----------------------------------------------------------------------------
(* Counting *)

\* A part of an interval can be counted, and counts at most as much as what
\* it is a part of.
LEMMA PartsCount ==
  ASSUME NEW n \in Nat, NEW S \in SUBSET (1 .. n), NEW T \in SUBSET S
  PROVE  /\ IsFiniteSet(S) /\ Cardinality(S) \in Nat
         /\ Cardinality(T) \in Nat /\ Cardinality(T) <= Cardinality(S)
<1>1. IsFiniteSet(1 .. n)
  BY FS_Interval
<1>2. IsFiniteSet(S)
  BY <1>1, FS_Subset
<1>3. IsFiniteSet(T) /\ Cardinality(T) <= Cardinality(S)
  BY <1>2, FS_Subset
<1> QED BY <1>2, <1>3, FS_CardinalityType

\* A set of numbers that has a member has a least one: the intervals below
\* its members are finite, and one of them includes no other.
LEMMA LeastNumber ==
  ASSUME NEW S \in SUBSET Nat, S # {}
  PROVE  \E m \in S : \A n \in S : m <= n
<1> DEFINE below == {0 .. n : n \in S}
<1>1. below \subseteq FiniteSubsetsOf(Nat) /\ below # {}
  <2>1. \A n \in S : 0 .. n \in SUBSET Nat /\ IsFiniteSet(0 .. n)
    BY FS_Interval
  <2> QED BY <2>1 DEF FiniteSubsetsOf
<1>2. IsWellFoundedOn(StrictSubsetOrdering(Nat), FiniteSubsetsOf(Nat))
  BY FS_StrictSubsetOrderingWellFounded
<1>3. PICK b \in below : \A c \in below : ~ (<<c, b>> \in StrictSubsetOrdering(Nat))
  <2> HIDE DEF below
  <2> QED BY <1>1, <1>2, WFMin
<1>4. PICK m \in S : b = 0 .. m
  OBVIOUS
<1>5. ASSUME NEW n \in S, n < m PROVE FALSE
  <2>1. 0 .. n \in below /\ 0 .. n \in SUBSET Nat /\ b \in SUBSET Nat
    BY <1>4
  <2>2. 0 .. n \subseteq 0 .. m /\ m \in 0 .. m /\ m \notin 0 .. n
    BY <1>5
  <2>3. <<0 .. n, b>> \in StrictSubsetOrdering(Nat)
    BY <1>4, <2>1, <2>2 DEF StrictSubsetOrdering
  <2> QED BY <1>3, <2>1, <2>3
<1> QED BY <1>5

\* And of numbers up to n, a greatest.
LEMMA GreatestNumber ==
  ASSUME NEW n \in Nat, NEW S \in SUBSET (1 .. n), S # {}
  PROVE  \E m \in S : \A i \in S : i <= m
<1> DEFINE bounds == {b \in Nat : \A i \in S : i <= b}
<1>1. n \in bounds
  OBVIOUS
<1>2. PICK m \in bounds : \A b \in bounds : m <= b
  <2>1. bounds \in SUBSET Nat /\ bounds # {}
    BY <1>1
  <2> HIDE DEF bounds
  <2> QED BY <2>1, LeastNumber
<1>3. CASE m \in S
  BY <1>2, <1>3
<1>4. CASE m \notin S
  <2>1. m >= 1
    <3>1. PICK i \in S : i \in 1 .. n
      OBVIOUS
    <3>2. m \in Nat /\ i <= m
      BY <1>2
    <3> QED BY <3>1, <3>2
  <2>2. \A i \in S : i <= m - 1
    BY <1>2, <1>4
  <2>3. m - 1 \in bounds
    BY <1>2, <2>1, <2>2
  <2> QED BY <1>2, <2>3
<1> QED BY <1>3, <1>4

-----------------------------------------------------------------------------
(* The rows of the ledger *)

RowType ==
  [at : Nat, domain : Domain, status : {"reserved", "dispatched", "failed_pre_dispatch"},
   under : Policies]

RateTypeOK ==
  /\ \E n \in Nat : ledger \in [1 .. n -> RowType]
  /\ policy \in Policies
  /\ now \in Nat
  /\ policies \in Nat

\* Rows are numbered in the order of their times, none of which is to come.
TimesAscend ==
  \A i, j \in DOMAIN ledger : Row(i).at <= now /\ (i <= j => Row(i).at <= Row(j).at)

RateInv == RateTypeOK /\ TimesAscend

LEMMA InitRate == Init => RateInv
<1> SUFFICES ASSUME Init PROVE RateInv
  OBVIOUS
<1>1. ledger = [i \in 1 .. 0 |-> i] /\ DOMAIN ledger = {}
  BY DEF Init
<1>2. ledger \in [1 .. 0 -> RowType]
  BY <1>1
<1> QED BY <1>1, <1>2 DEF Init, RateInv, RateTypeOK, TimesAscend

\* What a reservation makes of the ledger.
LEMMA ReservedLedger ==
  ASSUME RateInv, NEW d \in Domain, ReserveApprovedSend(d), NEW n \in Nat, DOMAIN ledger = 1 .. n
  PROVE  /\ ledger' \in [1 .. n + 1 -> RowType]
         /\ \A i \in 1 .. n : ledger'[i] = ledger[i]
         /\ ledger'[n + 1] = [at |-> now, domain |-> d, status |-> "reserved", under |-> policy]
<1>1. Cardinality(DOMAIN ledger) = n
  BY FS_Interval
<1>2. ledger \in [1 .. n -> RowType] /\ now \in Nat /\ policy \in Policies
  BY DEF RateInv, RateTypeOK
<1> DEFINE new == [at |-> now, domain |-> d, status |-> "reserved", under |-> policy]
<1>3. new \in RowType
  BY <1>2 DEF RowType
<1>4. ledger' = [i \in 1 .. n + 1 |-> IF i \in 1 .. n THEN ledger[i] ELSE new]
  BY <1>1 DEF ReserveApprovedSend
<1> HIDE DEF new
<1>5. n + 1 \notin 1 .. n /\ n + 1 \in 1 .. n + 1 /\ 1 .. n \subseteq 1 .. n + 1
  OBVIOUS
<1> QED BY <1>2, <1>3, <1>4, <1>5 DEF new

\* What a row keeps when its send is dispatched or fails.
LEMMA MovedLedger ==
  ASSUME RateInv, NEW k \in DOMAIN ledger, NEW s \in {"dispatched", "failed_pre_dispatch"},
         Moves(k, s), NEW n \in Nat, DOMAIN ledger = 1 .. n
  PROVE  /\ ledger' \in [1 .. n -> RowType]
         /\ \A i \in 1 .. n : /\ Row(i).at' = Row(i).at /\ Row(i).domain' = Row(i).domain
                              /\ Row(i).under' = Row(i).under
         /\ \A i \in 1 .. n \ {k} : ledger'[i] = ledger[i]
         /\ ledger'[k].status = s
<1>1. ledger \in [1 .. n -> RowType]
  BY DEF RateInv, RateTypeOK
<1>2. ledger' = [ledger EXCEPT ![k] = [ledger[k] EXCEPT !.status = s]]
  BY DEF Moves
<1>3. [ledger[k] EXCEPT !.status = s] \in RowType
  BY <1>1 DEF RowType
<1> QED BY <1>1, <1>2, <1>3 DEF RowType, Row

LEMMA NextRate == RateInv /\ [Next]_vars => RateInv'
<1> SUFFICES ASSUME RateInv, [Next]_vars PROVE RateInv'
  OBVIOUS
<1>1. PICK n \in Nat : ledger \in [1 .. n -> RowType]
  BY DEF RateInv, RateTypeOK
<1>2. now \in Nat /\ policy \in Policies /\ policies \in Nat /\ DOMAIN ledger = 1 .. n
  BY <1>1 DEF RateInv, RateTypeOK
<1>3. ASSUME NEW d \in Domain, ReserveApprovedSend(d) PROVE RateInv'
  <2>1. /\ ledger' \in [1 .. n + 1 -> RowType]
        /\ \A i \in 1 .. n : ledger'[i] = ledger[i]
        /\ ledger'[n + 1] = [at |-> now, domain |-> d, status |-> "reserved", under |-> policy]
    BY <1>2, <1>3, ReservedLedger
  <2>2. UNCHANGED <<policy, now, policies>>
    BY <1>3 DEF ReserveApprovedSend
  <2>3. TimesAscend'
    <3> SUFFICES ASSUME NEW i \in 1 .. n + 1, NEW j \in 1 .. n + 1
                 PROVE  /\ ledger'[i].at <= now
                        /\ i <= j => ledger'[i].at <= ledger'[j].at
      BY <2>1, <2>2 DEF TimesAscend, Row
    <3>1. (i \in 1 .. n \/ i = n + 1) /\ (j \in 1 .. n \/ j = n + 1) /\ n + 1 \notin 1 .. n
      OBVIOUS
    <3>2. \A k \in 1 .. n : ledger'[k].at <= now
      BY <1>2, <2>1 DEF RateInv, TimesAscend, Row
    <3>3. ledger'[n + 1].at = now
      BY <2>1
    <3>4. CASE i \in 1 .. n /\ j \in 1 .. n
      BY <1>2, <2>1, <3>2, <3>4 DEF RateInv, TimesAscend, Row
    <3>5. CASE j = n + 1
      BY <1>2, <3>1, <3>2, <3>3, <3>5
    <3>6. CASE i = n + 1 /\ j \in 1 .. n
      BY <1>2, <3>3, <3>6
    <3> QED BY <3>1, <3>4, <3>5, <3>6
  <2>4. n + 1 \in Nat
    OBVIOUS
  <2> QED BY <1>2, <2>1, <2>2, <2>3, <2>4 DEF RateInv, RateTypeOK
<1>4. ASSUME NEW k \in DOMAIN ledger, MarkFailedBeforeDispatch(k) \/ MarkDispatchStarted(k)
      PROVE  RateInv'
  <2>1. PICK s \in {"dispatched", "failed_pre_dispatch"} : Moves(k, s)
    BY <1>4 DEF MarkFailedBeforeDispatch, MarkDispatchStarted
  <2>2. /\ ledger' \in [1 .. n -> RowType]
        /\ \A i \in 1 .. n : Row(i).at' = Row(i).at
    BY <1>2, <2>1, MovedLedger
  <2>3. UNCHANGED <<policy, now, policies>>
    BY <2>1 DEF Moves
  <2>4. TimesAscend'
    BY <1>2, <2>2, <2>3 DEF RateInv, TimesAscend
  <2> QED BY <1>2, <2>2, <2>3, <2>4 DEF RateInv, RateTypeOK
<1>5. ASSUME NEW settings \in Policies, UpdateCommunicationSettings(settings) PROVE RateInv'
  <2>1. ledger' = ledger /\ now' = now /\ policy' = settings /\ policies' = policies + 1
    BY <1>5 DEF UpdateCommunicationSettings
  <2> QED BY <1>1, <1>2, <2>1 DEF RateInv, RateTypeOK, TimesAscend, Row
<1>6. ASSUME Tick PROVE RateInv'
  <2>1. \A i \in 1 .. n : ledger[i].at \in Nat
    BY <1>1 DEF RowType
  <2>2. TimesAscend'
    BY <1>2, <1>6, <2>1 DEF Tick, RateInv, TimesAscend, Row
  <2> QED BY <1>6, <2>2 DEF Tick, RateInv, RateTypeOK
<1>7. ASSUME UNCHANGED vars PROVE RateInv'
  BY <1>7 DEF vars, RateInv, RateTypeOK, TimesAscend, Row
<1> QED BY <1>3, <1>4, <1>5, <1>6, <1>7 DEF Next

LEMMA RateInvariance == Spec => []RateInv
BY InitRate, NextRate, PTL DEF Spec

-----------------------------------------------------------------------------
(* Pacing *)

Earlier(j) == {i \in Counted : i <= j}
Stretch(j, start) == {i \in Earlier(j) : Row(i).at >= start}
SameDay(j) == {i \in Earlier(j) : Day(Row(i).at) = Day(Row(j).at)}
SameDomain(j) == {i \in SameDay(j) : Row(i).domain = Row(j).domain}

\* The limits of the policy row j was reserved under, looking back from it.
Paced(j) ==
  /\ \A start \in 0 .. Row(j).at :
       start + HourLength > Row(j).at => Cardinality(Stretch(j, start)) <= Row(j).under.hourly
  /\ Cardinality(SameDay(j)) <= Row(j).under.daily
  /\ Cardinality(SameDomain(j)) <= Row(j).under.domainDaily
  /\ \A i \in Earlier(j) \ {j} :
       Row(i).domain = Row(j).domain => Gap(i, j) >= Row(j).under.cooldown

LEMMA PacingIsPaced == PacingHolds <=> \A j \in Counted : Paced(j)
BY Zenon DEF PacingHolds, Paced, Earlier, Stretch, SameDay, SameDomain

LEMMA PacingIsPacedNext == PacingHolds' <=> \A j \in Counted' : Paced(j)'
BY Zenon DEF PacingHolds, Paced, Earlier, Stretch, SameDay, SameDomain

LEMMA PolicyIsNatural ==
  ASSUME NEW p \in Policies
  PROVE  /\ p.daily \in Nat /\ p.hourly \in Nat /\ p.domainDaily \in Nat /\ p.cooldown \in Nat
         /\ p.paused \in BOOLEAN
OBVIOUS

\* A row stays paced while no row before it is added and none changes what it
\* is counted by; fewer may count.
LEMMA PacedPersists ==
  ASSUME NEW n \in Nat, ledger \in [1 .. n -> RowType], NEW j \in 1 .. n, Paced(j),
         Earlier(j)' \subseteq Earlier(j),
         \A i \in 1 .. n : /\ Row(i).at' = Row(i).at /\ Row(i).domain' = Row(i).domain
                           /\ Row(i).under' = Row(i).under
  PROVE  Paced(j)'
<1>1. Earlier(j) \subseteq 1 .. n /\ Row(j).under \in Policies
  BY DEF Earlier, Counted, Row, RowType
<1>2. ASSUME NEW S \in SUBSET Earlier(j), NEW T \in SUBSET S, NEW limit \in Nat,
             Cardinality(S) <= limit
      PROVE  Cardinality(T) <= limit
  <2>1. Cardinality(S) \in Nat /\ Cardinality(T) \in Nat /\ Cardinality(T) <= Cardinality(S)
    BY <1>1, PartsCount
  <2> QED BY <1>2, <2>1
<1>3. \A start : Stretch(j, start) \in SUBSET Earlier(j) /\ Stretch(j, start)' \subseteq Stretch(j, start)
  BY <1>1 DEF Stretch
<1>4. SameDay(j) \in SUBSET Earlier(j) /\ SameDay(j)' \subseteq SameDay(j)
  BY <1>1 DEF SameDay
<1>5. SameDomain(j) \in SUBSET Earlier(j) /\ SameDomain(j)' \subseteq SameDomain(j)
  BY <1>1, <1>4 DEF SameDomain, SameDay
<1>6. /\ Row(j).under.daily \in Nat /\ Row(j).under.hourly \in Nat
      /\ Row(j).under.domainDaily \in Nat
  BY <1>1, PolicyIsNatural
<1>7. ASSUME NEW start \in 0 .. Row(j).at, start + HourLength > Row(j).at
      PROVE  Cardinality(Stretch(j, start)') <= Row(j).under.hourly
  BY <1>2, <1>3, <1>6, <1>7 DEF Paced
<1>8. Cardinality(SameDay(j)') <= Row(j).under.daily
  BY <1>2, <1>4, <1>6 DEF Paced
<1>9. Cardinality(SameDomain(j)') <= Row(j).under.domainDaily
  BY <1>2, <1>5, <1>6 DEF Paced
<1>10. \A i \in (Earlier(j) \ {j})' :
         Row(i).domain' = Row(j).domain' => Gap(i, j)' >= Row(j).under'.cooldown
  BY <1>1 DEF Paced, Gap
<1> QED BY <1>7, <1>8, <1>9, <1>10 DEF Paced

\* A row reserved now is paced, because the triggers accepted it.
LEMMA ReservationIsPaced ==
  ASSUME RateInv, NEW n \in Nat, ledger \in [1 .. n -> RowType],
         NEW d \in Domain, ReserveApprovedSend(d)
  PROVE  Paced(n + 1)'
<1> DEFINE k == n + 1
<1>0. /\ DOMAIN ledger = 1 .. n /\ k \notin 1 .. n /\ Accepted(now, d) /\ now \in Nat
      /\ policy \in Policies
  BY DEF ReserveApprovedSend, RateInv, RateTypeOK
<1>1. /\ ledger' \in [1 .. k -> RowType]
      /\ \A i \in 1 .. n : ledger'[i] = ledger[i]
      /\ ledger'[k] = [at |-> now, domain |-> d, status |-> "reserved", under |-> policy]
  BY <1>0, ReservedLedger
<1>2. Row(k).at' = now /\ Row(k).domain' = d /\ Row(k).under' = policy
  BY <1>1 DEF Row
<1>3. Counted \subseteq 1 .. n /\ Counted' = Counted \cup {k}
  <2>1. ledger'[k].status # "failed_pre_dispatch"
    BY <1>1
  <2> QED BY <1>0, <1>1, <2>1 DEF Counted
<1>4. Earlier(k)' = Counted \cup {k}
  <2>1. \A i \in Counted \cup {k} : i <= k
    BY <1>3
  <2> QED BY <1>3, <2>1 DEF Earlier
<1>5. \A i \in Counted :
        /\ Row(i)' = ledger[i] /\ ledger[i].at \in Nat /\ ledger[i].at <= now /\ i # k
  BY <1>0, <1>1, <1>3 DEF Row, RowType, RateInv, TimesAscend
<1>6. ASSUME NEW S \in SUBSET (1 .. n), NEW T \in SUBSET (S \cup {k}), NEW limit \in Nat,
             Cardinality(S) < limit
      PROVE  Cardinality(T) <= limit
  <2>1. IsFiniteSet(S) /\ Cardinality(S) \in Nat
    BY PartsCount
  <2>2. IsFiniteSet(S \cup {k}) /\ Cardinality(S \cup {k}) = Cardinality(S) + 1
    BY <1>0, <2>1, FS_AddElement
  <2>3. IsFiniteSet(T) /\ Cardinality(T) <= Cardinality(S \cup {k})
    BY <2>2, FS_Subset
  <2>4. Cardinality(T) \in Nat
    BY <2>3, FS_CardinalityType
  <2> QED BY <1>6, <2>1, <2>2, <2>3, <2>4
<1>7. policy.daily \in Nat /\ policy.hourly \in Nat /\ policy.domainDaily \in Nat /\ policy.cooldown \in Nat
  BY <1>0, PolicyIsNatural
<1> HIDE DEF k
<1>8. ASSUME NEW start \in 0 .. now, start + HourLength > now
      PROVE  Cardinality(Stretch(k, start)') <= policy.hourly
  <2>1. Stretch(k, start)' \subseteq InHour(now) \cup {k}
    <3>1. ASSUME NEW i \in Counted, Row(i).at' >= start
          PROVE  i \in InHour(now)
      <4>1. ledger[i].at >= start /\ ledger[i].at \in Nat /\ ledger[i].at <= now
        BY <1>5, <3>1
      <4>2. ledger[i].at + HourLength > now
        BY <1>0, <1>8, <4>1
      <4> QED BY <4>1, <4>2 DEF InHour
    <3> QED BY <1>4, <3>1 DEF Stretch
  <2>2. InHour(now) \in SUBSET (1 .. n) /\ Cardinality(InHour(now)) < policy.hourly
    BY <1>0, <1>3 DEF InHour, Accepted
  <2> QED BY <1>6, <1>7, <2>1, <2>2
<1>9. SameDay(k)' \subseteq InDay(now) \cup {k}
  BY <1>2, <1>4, <1>5 DEF SameDay, InDay
<1>10. Cardinality(SameDay(k)') <= policy.daily
  <2>1. InDay(now) \in SUBSET (1 .. n) /\ Cardinality(InDay(now)) < policy.daily
    BY <1>0, <1>3 DEF InDay, Accepted
  <2> QED BY <1>6, <1>7, <1>9, <2>1
<1>11. Cardinality(SameDomain(k)') <= policy.domainDaily
  <2>1. SameDomain(k)' \subseteq (InDay(now) \cap ToDomain(d)) \cup {k}
    BY <1>2, <1>4, <1>5, <1>9 DEF SameDomain, SameDay, ToDomain
  <2>2. /\ InDay(now) \cap ToDomain(d) \in SUBSET (1 .. n)
        /\ Cardinality(InDay(now) \cap ToDomain(d)) < policy.domainDaily
    BY <1>0, <1>3 DEF InDay, Accepted
  <2> QED BY <1>6, <1>7, <2>1, <2>2
<1>12. ASSUME NEW i \in Counted, Row(i).domain' = d
       PROVE  now - Row(i).at' >= policy.cooldown
  <2>1. i \notin Cooling(now, d) /\ i \in ToDomain(d)
    BY <1>0, <1>5, <1>12 DEF Accepted, ToDomain
  <2>2. ~ (ledger[i].at + policy.cooldown > now /\ ledger[i].at <= now)
    BY <2>1 DEF Cooling
  <2>3. ledger[i].at \in Nat /\ ledger[i].at <= now /\ Row(i).at' = ledger[i].at
    BY <1>5
  <2> QED BY <1>0, <1>7, <2>2, <2>3
<1>13. Paced(k)'
  BY <1>2, <1>4, <1>8, <1>10, <1>11, <1>12 DEF Paced, Gap
<1> QED BY <1>13 DEF k

LEMMA NextPaced == RateInv /\ PacingHolds /\ [Next]_vars => PacingHolds'
<1> SUFFICES ASSUME RateInv, \A j \in Counted : Paced(j), [Next]_vars
             PROVE  \A j \in Counted' : Paced(j)'
  BY PacingIsPaced, PacingIsPacedNext
<1>1. PICK n \in Nat : ledger \in [1 .. n -> RowType]
  BY DEF RateInv, RateTypeOK
<1>2. Counted \subseteq 1 .. n /\ DOMAIN ledger = 1 .. n
  BY <1>1 DEF Counted
<1>3. ASSUME NEW d \in Domain, ReserveApprovedSend(d), NEW j \in Counted' PROVE Paced(j)'
  <2>1. ledger' \in [1 .. n + 1 -> RowType] /\ \A i \in 1 .. n : ledger'[i] = ledger[i]
    BY <1>2, <1>3, ReservedLedger
  <2>2. j \in 1 .. n \/ j = n + 1
    BY <2>1 DEF Counted
  <2>3. CASE j \in 1 .. n
    <3>1. \A i \in 1 .. n : i \in Counted' <=> i \in Counted
      BY <1>2, <2>1 DEF Counted
    <3>2. \A i \in Counted' : i <= j => i \in 1 .. n
      BY <2>1, <2>3 DEF Counted
    <3>3. Earlier(j)' \subseteq Earlier(j)
      BY <3>1, <3>2 DEF Earlier
    <3>4. j \in Counted
      BY <1>3, <2>3, <3>1
    <3> QED BY <1>1, <2>1, <2>3, <3>3, <3>4, PacedPersists DEF Row
  <2>4. CASE j = n + 1
    BY <1>1, <1>3, <2>4, ReservationIsPaced
  <2> QED BY <2>2, <2>3, <2>4
<1>4. ASSUME NEW k \in DOMAIN ledger, MarkFailedBeforeDispatch(k) \/ MarkDispatchStarted(k),
             NEW j \in Counted'
      PROVE  Paced(j)'
  <2>1. PICK s \in {"dispatched", "failed_pre_dispatch"} : Moves(k, s) /\ ledger[k].status = "reserved"
    BY <1>4 DEF MarkFailedBeforeDispatch, MarkDispatchStarted
  <2>2. /\ ledger' \in [1 .. n -> RowType]
        /\ \A i \in 1 .. n : /\ Row(i).at' = Row(i).at /\ Row(i).domain' = Row(i).domain
                             /\ Row(i).under' = Row(i).under
        /\ \A i \in 1 .. n \ {k} : ledger'[i] = ledger[i]
    BY <1>2, <2>1, MovedLedger
  <2>3. Counted' \subseteq Counted
    BY <1>2, <2>1, <2>2 DEF Counted
  <2>4. Earlier(j)' \subseteq Earlier(j) /\ j \in 1 .. n
    BY <1>2, <1>4, <2>3 DEF Earlier
  <2> QED BY <1>1, <1>4, <2>2, <2>3, <2>4, PacedPersists
<1>5. ASSUME ledger' = ledger, NEW j \in Counted' PROVE Paced(j)'
  <2>1. Counted' = Counted
    BY <1>5 DEF Counted
  <2>2. Earlier(j)' \subseteq Earlier(j) /\ j \in 1 .. n /\ j \in Counted
    BY <1>2, <1>5, <2>1 DEF Earlier
  <2> QED BY <1>1, <1>5, <2>2, PacedPersists DEF Row
<1>6. (\E settings \in Policies : UpdateCommunicationSettings(settings)) \/ Tick \/ UNCHANGED vars
        => ledger' = ledger
  BY DEF UpdateCommunicationSettings, Tick, vars
<1> QED BY <1>3, <1>4, <1>5, <1>6 DEF Next

\* The triggers of migrations.ts look back from each row when it is inserted;
\* rows are inserted in the order of their times, so that every stretch of
\* time, day and cooldown keeps to what was allowed.
THEOREM SendsArePaced == Spec => []PacingHolds
<1>1. Init => PacingHolds
  BY DEF Init, PacingHolds, Counted
<1>2. RateInv /\ PacingHolds /\ [Next]_vars => PacingHolds'
  BY NextPaced
<1> QED BY <1>1, <1>2, RateInvariance, PTL DEF Spec

-----------------------------------------------------------------------------
(* Readiness *)

\* The last time the readiness asks for is that of the last row.
LEMMA LastOfRows ==
  ASSUME RateInv, NEW S \in SUBSET Counted, S # {}
  PROVE  \E k \in S : LastOf(S) = ledger[k].at /\ \A i \in S : ledger[i].at <= LastOf(S)
<1>1. PICK n \in Nat : ledger \in [1 .. n -> RowType]
  BY DEF RateInv, RateTypeOK
<1>2. S \in SUBSET (1 .. n)
  BY <1>1 DEF Counted
<1>3. PICK k \in S : \A i \in S : i <= k
  BY <1>2, GreatestNumber
<1>4. \A i \in S : ledger[i].at <= ledger[k].at
  BY <1>1, <1>2, <1>3 DEF RateInv, TimesAscend, Row
<1>5. \E t \in {ledger[i].at : i \in S} : \A i \in S : ledger[i].at <= t
  BY <1>4
<1>6. LastOf(S) \in {ledger[i].at : i \in S} /\ \A i \in S : ledger[i].at <= LastOf(S)
  BY <1>5 DEF LastOf
<1> QED BY <1>6

\* #draftReadiness looks at the last row of the domain, the trigger at all.
LEMMA CooldownsAgree ==
  ASSUME RateInv, NEW d \in Domain
  PROVE  CoolingEnds(now, d) <=> Cooling(now, d) = {}
<1>1. PICK n \in Nat : ledger \in [1 .. n -> RowType]
  BY DEF RateInv, RateTypeOK
<1>2. now \in Nat /\ policy.cooldown \in Nat /\ ToDomain(d) \in SUBSET Counted
  BY PolicyIsNatural DEF RateInv, RateTypeOK, ToDomain
<1>3. \A i \in Counted : ledger[i].at \in Nat /\ ledger[i].at <= now
  BY <1>1 DEF Counted, RowType, RateInv, TimesAscend, Row
<1>4. CASE ToDomain(d) = {}
  BY <1>4 DEF CoolingEnds, Cooling
<1>5. CASE ToDomain(d) # {}
  <2>1. PICK k \in ToDomain(d) :
          /\ LastOf(ToDomain(d)) = ledger[k].at
          /\ \A i \in ToDomain(d) : ledger[i].at <= ledger[k].at
    BY <1>2, <1>5, LastOfRows
  <2>2. Cooling(now, d) = {} <=> ~ ledger[k].at + policy.cooldown > now
    BY <1>2, <1>3, <2>1 DEF Cooling
  <2> QED BY <1>5, <2>1, <2>2 DEF CoolingEnds
<1> QED BY <1>4, <1>5

\* The window's counting and the triggers' never disagree, at no boundary of
\* an hour, a day or a cooldown (#draftReadiness, migrations.ts:1073-1112).
THEOREM ReadinessAgrees == Spec => []ReadinessIsHonest
<1>1. RateInv => ReadinessIsHonest
  <2> SUFFICES ASSUME RateInv, NEW d \in Domain PROVE Ready(now, d) <=> Accepted(now, d)
    BY DEF ReadinessIsHonest
  <2>1. PICK n \in Nat : ledger \in [1 .. n -> RowType]
    BY DEF RateInv, RateTypeOK
  <2>2. /\ InDay(now) \in SUBSET (1 .. n) /\ InHour(now) \in SUBSET (1 .. n)
        /\ InDay(now) \cap ToDomain(d) \in SUBSET (1 .. n)
    BY <2>1 DEF InDay, InHour, Counted
  <2>3. /\ Cardinality(InDay(now)) \in Nat /\ Cardinality(InHour(now)) \in Nat
        /\ Cardinality(InDay(now) \cap ToDomain(d)) \in Nat
    BY <2>2, PartsCount
  <2>4. policy.daily \in Nat /\ policy.hourly \in Nat /\ policy.domainDaily \in Nat
    BY PolicyIsNatural DEF RateInv, RateTypeOK
  <2> QED BY <2>3, <2>4, CooldownsAgree DEF Ready, Accepted
<1> QED BY <1>1, RateInvariance, PTL
=============================================================================
