---------------------------- MODULE CreditsProofs ----------------------------
(***************************************************************************)
(* The properties of the run "credits", proved of the module it checks     *)
(* (MCCredits).  The ledger of Bright Data comes first, for any limit,     *)
(* threshold, cooldown, age of a stale reservation and number of workers.  *)
(* Then the run as a whole: a behaviour of it is one of the ledger, of a   *)
(* key pool, of a transport or of a token, as its account says, and the    *)
(* theorems of AccountsProofs are used with the constants of each          *)
(* instance.                                                               *)
(***************************************************************************)
EXTENDS MCCredits, Sequences, FiniteSetTheorems, TLAPS

-----------------------------------------------------------------------------
(* The ledger (BrightDataBudget).                                          *)

USE LedgerAssumption

LEMMA PeriodType == \A m \in Nat : Period(m) \in Nat
BY DEF Period

LEMMA PeriodBounds ==
  ASSUME NEW a \in Nat
  PROVE  Period(a) * MonthLength <= a /\ a < (Period(a) + 1) * MonthLength
BY DEF Period

LEMMA MultiplesAreOrdered ==
  ASSUME NEW p \in Nat, NEW q \in Nat, NEW a \in Nat, NEW b \in Nat,
         NEW k \in Nat \ {0}, p * k <= a, a < b, b <= q * k
  PROVE  p < q
<1> SUFFICES ASSUME p >= q PROVE FALSE
  OBVIOUS
<1>1. PICK d \in Nat : p = q + d
  <2>1. p - q \in Nat /\ p = q + (p - q)
    OBVIOUS
  <2> QED BY <2>1
<1>2. p * k = q * k + d * k
  BY <1>1
<1>3. d * k >= 0 /\ q * k \in Int /\ d * k \in Int
  OBVIOUS
<1> QED BY <1>2, <1>3

\* Months follow each other: a later moment is not in an earlier month, and one
\* less than the age of a stale reservation later is in the next one at most.
LEMMA PeriodsFollow ==
  ASSUME NEW a \in Nat, NEW b \in Nat
  PROVE  /\ a <= b => Period(a) <= Period(b)
         /\ a < b + Stale => Period(a) <= Period(b) + 1
<1> DEFINE p == Period(a)
           q == Period(b)
<1>1. /\ p \in Nat /\ q \in Nat
      /\ p * MonthLength <= a /\ b < (q + 1) * MonthLength
  BY PeriodType, PeriodBounds
<1>2. (q + 1) * MonthLength \in Nat /\ (q + 2) * MonthLength \in Nat
      /\ (q + 2) * MonthLength = (q + 1) * MonthLength + MonthLength
  BY <1>1
<1> HIDE DEF p, q
<1>3. ASSUME a <= b PROVE p < q + 1
  <2>1. a < (q + 1) * MonthLength
    BY <1>1, <1>2, <1>3
  <2>2. q + 1 \in Nat
    BY <1>1
  <2> QED BY <1>1, <1>2, <2>1, <2>2, MultiplesAreOrdered
<1>4. ASSUME a < b + Stale PROVE p < q + 2
  <2>1. a < (q + 2) * MonthLength
    BY <1>1, <1>2, <1>4
  <2>2. q + 2 \in Nat
    BY <1>1
  <2> QED BY <1>1, <1>2, <2>1, <2>2, MultiplesAreOrdered
<1>5. (a <= b => p <= q) /\ (a < b + Stale => p <= q + 1)
  BY <1>1, <1>3, <1>4
<1> QED BY <1>5 DEF p, q

\* The records of the file that the operations produce are well formed.
Typed(l) == l \in Ledgers /\ IsFiniteSet(l.reserved)

Good(l) ==
  /\ Typed(l) /\ Sound(l) /\ Covers(l, spent - carried)
  /\ CarriedFit(l) /\ Timely(l)

LEMMA MomentsAreNat ==
  ASSUME TypeOK, NEW m \in Moments
  PROVE  /\ m \in Nat \ {0} /\ m <= now /\ now \in Nat
         /\ Period(m) \in Nat /\ Period(now) \in Nat /\ Period(m) <= Period(now)
<1>1. m \in Nat \ {0} /\ m <= now /\ now \in Nat
  BY DEF Moments, TypeOK
<1> QED BY <1>1, PeriodType, PeriodsFollow

LEMMA UnsettledFinite ==
  ASSUME NEW l, Typed(l)
  PROVE  /\ IsFiniteSet(Unsettled(l)) /\ Cardinality(Unsettled(l)) \in Nat
         /\ Cardinality(l.reserved) \in Nat
         /\ Cardinality(Unsettled(l)) <= Cardinality(l.reserved)
<1>1. Unsettled(l) \subseteq l.reserved
  BY DEF Unsettled
<1> QED BY <1>1, FS_Subset, FS_CardinalityType DEF Typed

\* Turning the month keeps the ledger sound: the requests in flight move to
\* the new period, and with them those the provider has billed already.
LEMMA RolledOverGood ==
  ASSUME TypeOK, Inv, NEW m \in Moments, Loadable(m)
  PROVE  Good(RolledOver(m)) /\ RolledOver(m).period = Period(m)
<1>1. /\ m \in Nat \ {0} /\ m <= now /\ now \in Nat
      /\ Period(m) \in Nat /\ Period(now) \in Nat /\ Period(m) <= Period(now)
  BY MomentsAreNat
<1>2. /\ IsFiniteSet(ledger.reserved) /\ Cardinality(ledger.reserved) \in Nat
      /\ ledger \in Ledgers /\ ledger.period \in Nat /\ ledger.billed \in Nat
      /\ ledger.failures \in Nat /\ ledger.period <= Period(m)
  BY FS_CardinalityType DEF TypeOK, Ledgers, Loadable
<1>3. CASE ~Turns(m)
  BY <1>1, <1>2, <1>3 DEF RolledOver, Turns, Good, Typed, TypeOK, Inv
<1>4. CASE Turns(m)
  <2> DEFINE l == RolledOver(m)
  <2>1. /\ l \in Ledgers
        /\ l.reserved = ledger.reserved /\ l.at = ledger.at
        /\ l.billed = 0 /\ l.successes = 0 /\ l.period = Period(m)
        /\ l.attempts = Cardinality(ledger.reserved)
        /\ l.failures = ledger.failures /\ l.openUntil = ledger.openUntil
    BY <1>1, <1>2, <1>4 DEF RolledOver, Ledgers
  <2>2. ledger.period < Period(m)
    BY <1>4 DEF Turns
  <2> HIDE DEF l
  <2>3. Typed(l) /\ Sound(l)
    BY <1>2, <2>1 DEF Typed, Sound, Inv
  <2>4. Covers(l, spent - carried)
    <3>1. Unsettled(l) = Unsettled(ledger) /\ Charged(l) = 0 /\ Charged(ledger) = 0
      BY <1>1, <1>2, <2>1, <2>2 DEF Unsettled, Charged
    <3> QED BY <3>1 DEF Covers, Inv
  <2>5. CarriedFit(l)
    BY <1>1, <1>2, <2>1, <2>2 DEF CarriedFit, Inv
  <2>6. Timely(l)
    <3>1. ASSUME NEW r \in l.reserved PROVE Period(l.at[r]) <= l.period
      <4>1. Period(ledger.at[r]) <= ledger.period /\ ledger.at[r] \in Nat
        BY <2>1, <3>1 DEF Inv, Timely, TypeOK, Ledgers
      <4> QED BY <1>1, <1>2, <2>1, <2>2, <4>1, PeriodType
    <3> QED BY <1>1, <2>1, <3>1 DEF Timely, Inv
  <2> QED BY <2>1, <2>3, <2>4, <2>5, <2>6 DEF Good, l
<1> QED BY <1>3, <1>4

\* Giving up stale reservations keeps it sound: each counts as billed and as
\* failed, so nothing the provider billed gets lost.  While the ledger is in an
\* earlier month, none of them was billed in this one.
LEMMA ExpiredGood ==
  ASSUME TypeOK, NEW m \in Moments, NEW l, Good(l), l.period = Period(m)
  PROVE  Good(Expired(l, m)) /\ Expired(l, m).period = Period(m)
<1> DEFINE old == StaleOnes(l, m)
           n == Cardinality(old)
           kept == l.reserved \ old
           e == Expired(l, m)
<1>0. /\ m \in Nat \ {0} /\ m <= now /\ now \in Nat
      /\ Period(m) \in Nat /\ Period(now) \in Nat /\ Period(m) <= Period(now)
  BY MomentsAreNat
<1>1. old \subseteq l.reserved
  BY DEF StaleOnes
<1>2. IsFiniteSet(l.reserved) /\ IsFiniteSet(old) /\ n \in Nat
  BY <1>1, FS_Subset, FS_CardinalityType DEF Good, Typed
<1>3. CASE n = 0
  BY <1>3 DEF Expired
<1>4. CASE n # 0
  <2>1. /\ IsFiniteSet(kept) /\ Cardinality(kept) \in Nat
        /\ Cardinality(kept) = Cardinality(l.reserved) - n
    <3>1. l.reserved \cap old = old
      BY <1>1
    <3> QED BY <1>2, <3>1, FS_Difference, FS_CardinalityType
  <2>2. Cardinality(l.reserved) \in Nat
    BY <1>2, FS_CardinalityType
  <2>4. /\ l.failures \in Nat /\ l.openUntil \in Nat /\ l.billed \in Nat
        /\ l.successes \in Nat /\ l.attempts \in Nat
        /\ l.reserved \subseteq Requests /\ l.at \in [Requests -> Nat]
    BY DEF Good, Typed, Ledgers
  <2>5. Opened(l, l.failures + n, m) \in Nat
    BY <1>0, <1>2, <2>4 DEF Opened
  <2>6. /\ e \in Ledgers
        /\ e.reserved = kept /\ e.at = l.at /\ e.period = l.period
        /\ e.billed = l.billed + n
        /\ e.failures = l.failures + n
        /\ e.openUntil = Opened(l, l.failures + n, m)
        /\ e.successes = l.successes
        /\ e.attempts = l.attempts
    <3>1. e = [l EXCEPT !.reserved = kept, !.billed = l.billed + n,
                        !.failures = l.failures + n,
                        !.openUntil = Opened(l, l.failures + n, m)]
      BY <1>4 DEF Expired
    <3>2. l \in Ledgers /\ kept \in SUBSET Requests
      BY DEF Good, Typed, Ledgers
    <3>3. l.billed + n \in Nat /\ l.failures + n \in Nat
      BY <1>2, <2>4
    <3> HIDE DEF kept, n, e
    <3>4. e \in Ledgers
      BY <2>5, <3>1, <3>2, <3>3 DEF Ledgers
    <3> QED BY <3>1, <3>2, <3>4 DEF Ledgers
  <2>7. /\ l.billed + Cardinality(l.reserved) <= Limit
        /\ l.failures < Threshold
             => l.failures + Cardinality(l.reserved) <= Threshold
        /\ l.failures >= Threshold
             => Cardinality(l.reserved) <= 1 /\ l.openUntil # 0
        /\ l.successes + Cardinality(l.reserved) <= l.attempts
    BY DEF Good, Sound
  <2>8. l.failures + n >= Threshold
          => Cardinality(kept) <= 1 /\ Opened(l, l.failures + n, m) # 0
    <3> HIDE DEF kept, n
    <3> QED BY <1>0, <1>2, <2>1, <2>2, <2>4, <2>7 DEF Opened
  <2>9. Typed(e) /\ Sound(e)
    <3>1. Typed(e)
      BY <2>1, <2>6 DEF Typed
    <3> HIDE DEF kept, n, e
    <3> QED BY <1>2, <2>1, <2>2, <2>4, <2>6, <2>7, <2>8, <3>1 DEF Sound
  <2>10. Timely(l) /\ CarriedFit(l) /\ Covers(l, spent - carried)
    BY DEF Good
  <2>11. Timely(e)
    BY <2>6, <2>10 DEF Timely
  <2>12. CarriedFit(e)
    <3> HIDE DEF kept, n, e
    <3> QED BY <1>2, <2>4, <2>6, <2>10 DEF CarriedFit, TypeOK
  <2>13. Covers(e, spent - carried)
    <3>1. Unsettled(e) = Unsettled(l) \ old
      BY <2>6 DEF Unsettled
    <3>2. IsFiniteSet(Unsettled(l)) /\ Cardinality(Unsettled(l)) \in Nat
      BY UnsettledFinite DEF Good
    <3> HIDE DEF kept, n, e, old
    <3>3. CASE l.period = Period(now)
      <4>1. /\ IsFiniteSet(Unsettled(e)) /\ Cardinality(Unsettled(e)) \in Nat
            /\ Cardinality(Unsettled(e))
                 = Cardinality(Unsettled(l)) - Cardinality(Unsettled(l) \cap old)
        <5>1. /\ IsFiniteSet(Unsettled(l) \ old)
              /\ Cardinality(Unsettled(l) \ old)
                   = Cardinality(Unsettled(l)) - Cardinality(Unsettled(l) \cap old)
          BY <3>2, FS_Difference
        <5>2. Cardinality(Unsettled(l) \ old) \in Nat
          BY <5>1, FS_CardinalityType
        <5> QED BY <3>1, <5>1, <5>2
      <4>2. /\ Cardinality(Unsettled(l) \cap old) <= Cardinality(old)
            /\ Cardinality(Unsettled(l) \cap old) \in Nat
        <5>1. Unsettled(l) \cap old \subseteq old
          OBVIOUS
        <5> QED BY <1>2, <5>1, FS_Subset, FS_CardinalityType
      <4>3. Charged(e) = l.billed + n /\ Charged(l) = l.billed
        BY <2>6, <3>3 DEF Charged
      <4>4. spent - carried <= l.billed + Cardinality(Unsettled(l))
        BY <2>10, <4>3 DEF Covers
      <4>5. spent - carried \in Int /\ n = Cardinality(old)
        BY DEF TypeOK, n
      <4> QED BY <1>2, <2>4, <3>2, <4>1, <4>2, <4>3, <4>4, <4>5 DEF Covers
    <3>4. CASE l.period # Period(now)
      <4>1. ASSUME NEW r \in Unsettled(l) PROVE r \notin old
        <5> SUFFICES ASSUME r \in old PROVE FALSE
          OBVIOUS
        <5>1. /\ r \in l.reserved /\ l.at[r] + Stale <= m
              /\ paid[r] # 0 /\ Period(paid[r]) = Period(now)
          BY <4>1 DEF Unsettled, PaidThisMonth, old, StaleOnes
        <5>2. paid[r] \in Nat /\ l.at[r] \in Nat
          BY <2>4, <5>1 DEF TypeOK
        <5>3. paid[r] < l.at[r] + Stale
          BY <2>10, <5>1 DEF Timely
        <5>4. paid[r] <= m
          BY <1>0, <5>1, <5>2, <5>3
        <5>5. Period(paid[r]) <= Period(m)
          BY <1>0, <5>2, <5>4, PeriodsFollow
        <5>6. Period(now) <= Period(m)
          BY <5>1, <5>5
        <5>7. Period(m) # Period(now)
          BY <3>4
        <5> QED BY <1>0, <5>6, <5>7
      <4>2. Unsettled(e) = Unsettled(l)
        BY <3>1, <4>1
      <4>3. Charged(e) = 0 /\ Charged(l) = 0
        BY <2>6, <3>4 DEF Charged
      <4> QED BY <2>10, <4>2, <4>3 DEF Covers
    <3> QED BY <3>3, <3>4
  <2> QED BY <2>6, <2>9, <2>11, <2>12, <2>13 DEF Good
<1> QED BY <1>2, <1>3, <1>4

\* What reserve_request decides on is sound.
LEMMA CurrentGood ==
  ASSUME TypeOK, Inv, NEW m \in Moments, Loadable(m)
  PROVE  Good(Current(m)) /\ Current(m).period = Period(m)
<1>1. Good(RolledOver(m)) /\ RolledOver(m).period = Period(m)
  BY RolledOverGood
<1> DEFINE l == RolledOver(m)
<1> HIDE DEF l
<1>2. Good(l) /\ l.period = Period(m)
  BY <1>1 DEF l
<1>3. Good(Expired(l, m)) /\ Expired(l, m).period = Period(m)
  BY <1>2, ExpiredGood
<1> QED BY <1>3 DEF l, Current

\* A ledger that differs from a good one in what nobody charges is good.
LEMMA GoodLedgerKept ==
  ASSUME TypeOK, Inv, NEW l, Good(l), initialized,
         UNCHANGED <<now, initialized, process, bills>>,
         ledger' \in Ledgers,
         ledger'.reserved = l.reserved, ledger'.billed = l.billed,
         ledger'.failures = l.failures, ledger'.successes = l.successes,
         ledger'.attempts = l.attempts, ledger'.at = l.at,
         ledger'.period = l.period,
         l.failures >= Threshold => ledger'.openUntil # 0
  PROVE  TypeOK' /\ Inv'
<1>1. /\ now' = now /\ initialized' = initialized /\ process' = process
      /\ paid' = paid /\ spent' = spent /\ carried' = carried
  BY DEF bills
<1>2. TypeOK'
  BY <1>1 DEF TypeOK, Good, Typed
<1>3. Sound(ledger)'
  BY <1>1 DEF Good, Sound
<1>4. Unsettled(ledger)' = Unsettled(l) /\ Charged(ledger)' = Charged(l)
  BY <1>1 DEF Unsettled, Charged, PaidThisMonth, Period
<1>5. Covers(ledger, spent - carried)'
  BY <1>1, <1>4 DEF Good, Covers
<1>6. CarriedFit(ledger)' /\ Timely(ledger)'
  BY <1>1 DEF Good, CarriedFit, Timely, Period
<1> QED BY <1>1, <1>2, <1>3, <1>5, <1>6 DEF Inv

\* A granted reservation takes room that was left, both of the limit and of
\* the circuit.
LEMMA ReserveSound ==
  ASSUME TypeOK, Inv, NEW r \in Requests, NEW m \in Moments, Reserve(r, m)
  PROVE  TypeOK' /\ Inv'
<1> DEFINE l == Current(m)
<1>0. /\ m \in Nat \ {0} /\ m <= now /\ now \in Nat
      /\ Period(m) \in Nat /\ Period(now) \in Nat /\ Period(m) <= Period(now)
  BY MomentsAreNat
<1>1. Good(l) /\ l.period = Period(m)
  BY CurrentGood DEF Reserve
<1>2. r \notin l.reserved
  BY DEF Reserve, Current, Expired, RolledOver, TypeOK, Ledgers
<1>3. /\ Granted(l, m) /\ initialized
      /\ paid' = [paid EXCEPT ![r] = 0]
      /\ process' = [process EXCEPT ![r] = "reserved"]
      /\ UNCHANGED <<now, initialized, spent, carried>>
  BY DEF Reserve, Loadable
<1>4. ledger' = [Settled(l) EXCEPT !.reserved = @ \union {r},
                                   !.at = [@ EXCEPT ![r] = m],
                                   !.attempts = @ + 1]
  BY DEF Reserve
<1> HIDE DEF l
<1>5. /\ l.failures \in Nat /\ l.openUntil \in Nat /\ l.billed \in Nat
      /\ l.successes \in Nat /\ l.attempts \in Nat /\ l.at \in [Requests -> Nat]
      /\ l.reserved \in SUBSET Requests /\ IsFiniteSet(l.reserved) /\ l \in Ledgers
  BY <1>1 DEF Good, Typed, Ledgers
<1>6. /\ Settled(l) \in Ledgers
      /\ Settled(l).reserved = l.reserved
      /\ Settled(l).billed = l.billed
      /\ Settled(l).failures = l.failures
      /\ Settled(l).successes = l.successes
      /\ Settled(l).attempts = l.attempts
      /\ Settled(l).at = l.at /\ Settled(l).period = l.period
      /\ l.failures >= Threshold => Settled(l).openUntil = l.openUntil
  BY <1>5 DEF Settled, Closes, Ledgers
<1> HIDE DEF Settled
<1>7. /\ ledger' \in Ledgers
      /\ ledger'.reserved = l.reserved \union {r}
      /\ ledger'.billed = l.billed
      /\ ledger'.failures = l.failures
      /\ ledger'.successes = l.successes
      /\ ledger'.attempts = l.attempts + 1
      /\ ledger'.at = [l.at EXCEPT ![r] = m] /\ ledger'.period = l.period
      /\ l.failures >= Threshold => ledger'.openUntil = l.openUntil
  <2>1. /\ l.reserved \union {r} \in SUBSET Requests
        /\ [Settled(l).at EXCEPT ![r] = m] \in [Requests -> Nat]
        /\ l.attempts + 1 \in Nat
    BY <1>0, <1>5, <1>6 DEF Ledgers
  <2>2. ledger' \in Ledgers
    BY <1>4, <1>6, <2>1 DEF Ledgers
  <2> QED BY <1>4, <1>6, <2>2 DEF Ledgers
<1>8. /\ IsFiniteSet(ledger'.reserved)
      /\ Cardinality(ledger'.reserved) = Cardinality(l.reserved) + 1
      /\ Cardinality(l.reserved) \in Nat
  <2>1. Cardinality(l.reserved) \in Nat
    BY <1>5, FS_CardinalityType
  <2>2. /\ IsFiniteSet(l.reserved \union {r})
        /\ Cardinality(l.reserved \union {r}) = Cardinality(l.reserved) + 1
    BY <1>2, <1>5, FS_AddElement
  <2> QED BY <1>7, <2>1, <2>2
<1>9. TypeOK'
  BY <1>3, <1>7, <1>8 DEF TypeOK
<1>10. Sound(ledger)'
  BY <1>1, <1>3, <1>5, <1>7, <1>8
  DEF Good, Sound, Granted, Exhausted, Capacity
<1>11. Covers(ledger, spent - carried)'
  <2>1. {q \in ledger'.reserved : PaidThisMonth(q)'} = Unsettled(l)
    BY <1>2, <1>3, <1>5, <1>7 DEF TypeOK, Unsettled, PaidThisMonth
  <2>2. Unsettled(ledger)' = Unsettled(l)
    BY <2>1 DEF Unsettled
  <2>3. Charged(ledger)' = Charged(l)
    BY <1>3, <1>7 DEF Charged, Period
  <2>4. Covers(l, spent - carried)
    BY <1>1 DEF Good
  <2> QED BY <1>3, <2>2, <2>3, <2>4 DEF Covers
<1>12. CarriedFit(ledger)'
  BY <1>1, <1>3, <1>7 DEF Good, CarriedFit, Period
<1>13. Timely(ledger)'
  <2>1. Timely(l)
    BY <1>1 DEF Good
  <2>2. Period(now)' = Period(now)
    BY <1>3 DEF Period
  <2>3. ASSUME NEW q \in ledger'.reserved
        PROVE  /\ ledger'.at[q] <= now /\ Period(ledger'.at[q]) <= ledger'.period
               /\ paid'[q] # 0 => paid'[q] <= now /\ paid'[q] < ledger'.at[q] + Stale
    <3>1. CASE q = r
      <4>1. ledger'.at[q] = m /\ paid'[q] = 0
        BY <1>3, <1>5, <1>7, <3>1 DEF TypeOK
      <4> QED BY <1>0, <1>1, <1>7, <4>1
    <3>2. CASE q # r
      <4>1. q \in l.reserved /\ ledger'.at[q] = l.at[q] /\ paid'[q] = paid[q]
        BY <1>3, <1>5, <1>7, <3>2 DEF TypeOK
      <4> QED BY <1>7, <2>1, <4>1 DEF Timely
    <3> QED BY <3>1, <3>2
  <2>4. \A q \in ledger'.reserved : Period(ledger.at[q])' <= ledger'.period
    BY <2>3 DEF Period
  <2> QED BY <1>0, <1>1, <1>3, <1>7, <2>2, <2>3, <2>4 DEF Timely
<1> QED BY <1>3, <1>9, <1>10, <1>11, <1>12, <1>13 DEF Inv

\* A refusal writes at most the deadline of the circuit.
LEMMA RefuseSound ==
  ASSUME TypeOK, Inv, NEW m \in Moments, RefuseReserve(m)
  PROVE  TypeOK' /\ Inv'
<1> DEFINE l == Current(m)
<1>1. Good(l)
  BY CurrentGood DEF RefuseReserve
<1>2. /\ ledger' = Refused(l, m) /\ initialized /\ m \in Nat \ {0}
      /\ UNCHANGED <<now, initialized, process, bills>>
  BY MomentsAreNat DEF RefuseReserve, Loadable
<1> HIDE DEF l
<1>3. /\ ledger' \in Ledgers
      /\ ledger'.reserved = l.reserved
      /\ ledger'.billed = l.billed
      /\ ledger'.failures = l.failures
      /\ ledger'.successes = l.successes
      /\ ledger'.attempts = l.attempts
      /\ ledger'.at = l.at /\ ledger'.period = l.period
      /\ l.failures >= Threshold => ledger'.openUntil # 0
  <2>1. \/ ledger' = l
        \/ ledger' = [l EXCEPT !.openUntil = m + Cooldown]
        \/ l.failures < Threshold /\ ledger' = [l EXCEPT !.openUntil = 0]
    BY <1>2 DEF Refused, Settled, Closes
  <2>2. m + Cooldown \in Nat \ {0}
    BY <1>2
  <2> QED BY <1>1, <2>1, <2>2 DEF Good, Typed, Sound, Ledgers
<1> QED BY <1>1, <1>2, <1>3, GoodLedgerKept DEF Good, Typed

\* The provider bills a request that is reserved: one more is covered.
LEMMA BillSound ==
  ASSUME TypeOK, Inv, NEW r \in Requests, Bill(r)
  PROVE  TypeOK' /\ Inv'
<1> DEFINE before == Unsettled(ledger)
           after == Unsettled(ledger)'
<1>1. /\ r \in ledger.reserved /\ paid[r] = 0 /\ now < ledger.at[r] + Stale
      /\ paid' = [paid EXCEPT ![r] = now]
      /\ spent' = spent + 1
      /\ UNCHANGED <<now, initialized, ledger, process, carried>>
  BY DEF Bill
<1>2. now \in Nat \ {0} /\ ledger.reserved \subseteq Requests
      /\ paid \in [Requests -> Nat]
  BY DEF TypeOK, Ledgers
<1>3. after = before \union {r} /\ r \notin before
  BY <1>1, <1>2 DEF Unsettled, PaidThisMonth, Period
<1>4. IsFiniteSet(before)
  BY UnsettledFinite DEF TypeOK, Typed
<1> HIDE DEF before, after
<1>5. Cardinality(after) = Cardinality(before) + 1 /\ Cardinality(before) \in Nat
  BY <1>3, <1>4, FS_AddElement, FS_CardinalityType
<1>6. TypeOK'
  BY <1>1, <1>2 DEF TypeOK
<1>7. Covers(ledger, spent - carried)'
  <2>1. Charged(ledger)' = Charged(ledger) /\ Charged(ledger) \in Nat
    BY <1>1 DEF Charged, Period, TypeOK, Ledgers
  <2>2. spent - carried <= Charged(ledger) + Cardinality(before)
    BY DEF Inv, Covers, before
  <2>3. spent' - carried' = spent - carried + 1 /\ spent - carried \in Int
    BY <1>1 DEF TypeOK
  <2>4. spent' - carried' <= Charged(ledger)' + Cardinality(after)
    BY <1>5, <2>1, <2>2, <2>3
  <2> QED BY <2>4 DEF Covers, after
<1>8. Timely(ledger)'
  <2>1. \A q \in ledger.reserved :
           paid'[q] # 0 => paid'[q] <= now /\ paid'[q] < ledger.at[q] + Stale
    BY <1>1, <1>2 DEF Inv, Timely
  <2> QED BY <1>1, <2>1 DEF Inv, Timely, Period
<1>9. Sound(ledger)' /\ CarriedFit(ledger)'
  BY <1>1 DEF Inv, Sound, CarriedFit, Period
<1>10. (~initialized => ledger.reserved = {} /\ carried = 0)'
  BY <1>1 DEF Inv
<1> QED BY <1>6, <1>7, <1>8, <1>9, <1>10 DEF Inv

\* A finished request leaves the reservations; unless it is known to be free
\* it is charged, and unless it succeeded it counts against the circuit.  A bill
\* of this month that an older ledger is charged with is carried.
LEMMA FinishSound ==
  ASSUME TypeOK, Inv, NEW r \in Requests, NEW m \in Moments,
         NEW billed \in BOOLEAN, NEW succeeded \in BOOLEAN,
         Finish(r, m, billed, succeeded)
  PROVE  TypeOK' /\ Inv'
<1> DEFINE before == Unsettled(ledger)
           after == Unsettled(ledger)'
           inRow == IF succeeded THEN 0 ELSE ledger.failures + 1
           late == PaidThisMonth(r) /\ ledger.period < Period(now)
<1>0. /\ m \in Nat \ {0} /\ m <= now /\ now \in Nat
      /\ Period(m) \in Nat /\ Period(now) \in Nat /\ Period(m) <= Period(now)
  BY MomentsAreNat
<1>1. /\ r \in ledger.reserved /\ initialized
      /\ paid[r] # 0 => billed
      /\ ledger' = Finished(ledger, r, m, billed, succeeded)
      /\ process' = [process EXCEPT ![r] = "none"]
      /\ carried' = IF late THEN carried + 1 ELSE carried
      /\ UNCHANGED <<now, initialized, paid, spent>>
  BY DEF Finish, Loadable
<1>2. /\ ledger.failures \in Nat /\ ledger.openUntil \in Nat
      /\ ledger.billed \in Nat /\ ledger.successes \in Nat
      /\ ledger.attempts \in Nat /\ ledger.reserved \in SUBSET Requests
      /\ IsFiniteSet(ledger.reserved) /\ ledger.period \in Nat
      /\ ledger.at \in [Requests -> Nat] /\ carried \in Nat /\ spent \in Nat
      /\ paid \in [Requests -> Nat]
  BY DEF TypeOK, Ledgers
<1>3. Opened(ledger, ledger.failures + 1, m) \in Nat
  BY <1>0, <1>2 DEF Opened
<1>4. /\ ledger' \in Ledgers
      /\ ledger'.reserved = ledger.reserved \ {r}
      /\ ledger'.billed = IF billed THEN ledger.billed + 1 ELSE ledger.billed
      /\ ledger'.failures = inRow
      /\ ledger'.successes = IF succeeded THEN ledger.successes + 1
                             ELSE ledger.successes
      /\ ledger'.attempts = ledger.attempts
      /\ ledger'.at = ledger.at /\ ledger'.period = ledger.period
      /\ ledger'.openUntil = IF succeeded THEN 0
                             ELSE Opened(ledger, ledger.failures + 1, m)
  <2>1. ledger \in Ledgers
    BY DEF TypeOK
  <2> DEFINE b == IF billed THEN ledger.billed + 1 ELSE ledger.billed
             c == IF succeeded THEN ledger.successes + 1 ELSE ledger.successes
             o == IF succeeded THEN 0 ELSE Opened(ledger, ledger.failures + 1, m)
  <2>2. b \in Nat /\ c \in Nat /\ inRow \in Nat /\ o \in Nat
    BY <1>2, <1>3
  <2>3. ledger' = [ledger EXCEPT !.reserved = ledger.reserved \ {r},
                                 !.billed = b, !.successes = c,
                                 !.failures = inRow, !.openUntil = o]
    BY <1>1 DEF Finished
  <2>4. ledger.reserved \ {r} \in SUBSET Requests
    BY <1>2
  <2> HIDE DEF b, c, o, inRow
  <2>5. ledger' \in Ledgers
    BY <2>1, <2>2, <2>3, <2>4 DEF Ledgers
  <2>6. /\ ledger'.reserved = ledger.reserved \ {r}
        /\ ledger'.billed = b /\ ledger'.successes = c
        /\ ledger'.failures = inRow /\ ledger'.openUntil = o
        /\ ledger'.attempts = ledger.attempts
        /\ ledger'.at = ledger.at /\ ledger'.period = ledger.period
    BY <2>1, <2>3, <2>5 DEF Ledgers
  <2> QED BY <2>5, <2>6 DEF b, c, o
<1> HIDE DEF late
<1>5. /\ IsFiniteSet(ledger'.reserved)
      /\ Cardinality(ledger'.reserved) = Cardinality(ledger.reserved) - 1
      /\ Cardinality(ledger.reserved) \in Nat
      /\ Cardinality(ledger'.reserved) \in Nat
  <2>1. /\ Cardinality(ledger.reserved) \in Nat
        /\ IsFiniteSet(ledger.reserved \ {r})
        /\ Cardinality(ledger.reserved \ {r}) = Cardinality(ledger.reserved) - 1
    BY <1>1, <1>2, FS_RemoveElement, FS_CardinalityType
  <2>2. Cardinality(ledger.reserved \ {r}) \in Nat
    BY <2>1, FS_CardinalityType
  <2> QED BY <1>4, <2>1, <2>2
<1>6. after = before \ {r}
  BY <1>1, <1>4 DEF Unsettled, PaidThisMonth, Period
<1>7. IsFiniteSet(before)
  BY UnsettledFinite DEF TypeOK, Typed
<1>8. r \in before <=> PaidThisMonth(r)
  BY <1>1 DEF Unsettled
<1>9. PaidThisMonth(r) => billed
  BY <1>1 DEF PaidThisMonth
<1> HIDE DEF before, after
<1>10. /\ Cardinality(before) \in Nat
       /\ Cardinality(after) = IF r \in before THEN Cardinality(before) - 1
                               ELSE Cardinality(before)
  BY <1>6, <1>7, FS_RemoveElement, FS_CardinalityType
<1>11. ledger.billed + Cardinality(ledger.reserved) <= Limit
  BY DEF Inv, Sound
<1>12. Sound(ledger)'
  <2>1. ledger'.failures >= Threshold
          => Cardinality(ledger'.reserved) <= 1 /\ ledger'.openUntil # 0
    <3> SUFFICES ASSUME ledger'.failures >= Threshold
                 PROVE  Cardinality(ledger'.reserved) <= 1
                        /\ ledger'.openUntil # 0
      OBVIOUS
    <3>1. ~succeeded /\ ledger'.openUntil = m + Cooldown
      BY <1>2, <1>4 DEF Opened
    <3>2. Cardinality(ledger'.reserved) <= 1
      BY <1>2, <1>4, <1>5, <3>1 DEF Inv, Sound
    <3> QED BY <1>0, <3>1, <3>2
  <2>2. ledger'.failures < Threshold
           => ledger'.failures + Cardinality(ledger'.reserved) <= Threshold
    BY <1>2, <1>4, <1>5 DEF Inv, Sound
  <2>3. /\ ledger'.billed + Cardinality(ledger'.reserved) <= Limit
        /\ ledger'.successes + Cardinality(ledger'.reserved)
             <= ledger'.attempts
    BY <1>2, <1>4, <1>5 DEF Inv, Sound
  <2> QED BY <2>1, <2>2, <2>3 DEF Sound
<1>13. Covers(ledger, spent - carried)'
  <2>1. spent - carried <= Charged(ledger) + Cardinality(before)
    BY DEF Inv, Covers, before
  <2>2. Charged(ledger)' = IF ledger.period = Period(now) THEN ledger'.billed ELSE 0
    BY <1>1, <1>4 DEF Charged, Period
  <2>3. Charged(ledger) = IF ledger.period = Period(now) THEN ledger.billed ELSE 0
    BY DEF Charged
  <2>4. ledger.period <= Period(now)
    BY DEF Inv, Timely
  <2>5. late <=> (PaidThisMonth(r) /\ ledger.period # Period(now))
    BY <1>0, <1>2, <2>4 DEF late
  <2>6. spent' - carried' <= Charged(ledger)' + Cardinality(after)
    <3>1. CASE late
      BY <1>1, <1>2, <1>8, <1>10, <2>1, <2>2, <2>3, <2>5, <3>1
    <3>2. CASE ~late /\ PaidThisMonth(r)
      BY <1>1, <1>2, <1>4, <1>8, <1>9, <1>10, <2>1, <2>2, <2>3, <2>5, <3>2
    <3>3. CASE ~late /\ ~PaidThisMonth(r)
      BY <1>1, <1>2, <1>4, <1>8, <1>10, <2>1, <2>2, <2>3, <3>3
    <3> QED BY <3>1, <3>2, <3>3
  <2> QED BY <2>6 DEF Covers, after
<1>14. CarriedFit(ledger)'
  <2>1. CASE late
    <3>1. PaidThisMonth(r) /\ ledger.period < Period(now) /\ carried' = carried + 1
      BY <1>1, <2>1 DEF late
    <3>2. /\ paid[r] \in Nat /\ ledger.at[r] \in Nat /\ paid[r] < ledger.at[r] + Stale
          /\ Period(ledger.at[r]) <= ledger.period /\ Period(paid[r]) = Period(now)
      BY <1>1, <1>2, <3>1 DEF Inv, Timely, PaidThisMonth
    <3>3. /\ Period(paid[r]) <= Period(ledger.at[r]) + 1
          /\ Period(ledger.at[r]) \in Nat
      BY <3>2, PeriodsFollow, PeriodType
    <3>4. Period(now) <= ledger.period + 1
      BY <1>0, <1>2, <3>2, <3>3
    <3>5. carried <= ledger.billed
      BY <1>2, <3>1 DEF Inv, CarriedFit
    <3>6. ledger'.billed = ledger.billed + 1
      BY <1>4, <1>9, <3>1
    <3>7. ledger.billed + 1 <= Limit
      BY <1>2, <1>4, <1>5, <1>11
    <3> QED BY <1>1, <1>2, <1>4, <3>1, <3>4, <3>5, <3>6, <3>7 DEF CarriedFit, Period
  <2>2. CASE ~late
    <3>1. carried' = carried /\ ledger.billed <= ledger'.billed
      BY <1>1, <1>2, <1>4, <2>2
    <3>2. Period(now)' = Period(now) /\ ledger'.period = ledger.period
          /\ ledger'.billed \in Nat
      BY <1>1, <1>2, <1>4 DEF Period
    <3> QED BY <1>2, <3>1, <3>2 DEF Inv, CarriedFit
  <2> QED BY <2>1, <2>2
<1>15. Timely(ledger)'
  BY <1>1, <1>4 DEF Inv, Timely, Period
<1>16. TypeOK'
  BY <1>1, <1>2, <1>4, <1>5 DEF TypeOK
<1> QED BY <1>1, <1>12, <1>13, <1>14, <1>15, <1>16 DEF Inv

-----------------------------------------------------------------------------
LEMMA InitSound ==
  ASSUME TypeOK, Inv, NEW m \in Moments, NEW baseline \in 0 .. Limit,
         Initialize(m, baseline)
  PROVE  TypeOK' /\ Inv'
<1>0. /\ m \in Nat \ {0} /\ m <= now /\ now \in Nat
      /\ Period(m) \in Nat /\ Period(now) \in Nat /\ Period(m) <= Period(now)
  BY MomentsAreNat
<1>1. /\ ledger' = [EmptyLedger EXCEPT !.period = Period(m),
                                       !.billed = baseline]
      /\ initialized' = TRUE
      /\ spent' = IF Period(m) = Period(now) THEN baseline ELSE 0
      /\ UNCHANGED <<now, process, paid, carried>>
      /\ carried = 0
  BY DEF Initialize, Inv
<1>2. baseline \in Nat /\ baseline <= Limit
  OBVIOUS
<1>3. /\ ledger' \in Ledgers /\ ledger'.reserved = {}
      /\ ledger'.billed = baseline /\ ledger'.failures = 0
      /\ ledger'.successes = 0 /\ ledger'.attempts = 0
      /\ ledger'.period = Period(m)
  BY <1>0, <1>1, <1>2 DEF EmptyLedger, Ledgers
<1>4. Unsettled(ledger)' = {}
  BY <1>3 DEF Unsettled
<1>5. Cardinality({}) = 0 /\ IsFiniteSet({})
  BY FS_EmptySet
<1>6. Charged(ledger)' = spent'
  BY <1>1, <1>3 DEF Charged, Period
<1>7. TypeOK'
  BY <1>1, <1>2, <1>3, <1>5 DEF TypeOK
<1>8. Sound(ledger)'
  BY <1>2, <1>3, <1>5 DEF Sound
<1>9. Covers(ledger, spent - carried)'
  <2>1. Cardinality(Unsettled(ledger)') = 0
    BY <1>4, <1>5
  <2>2. spent' \in Nat /\ carried' = 0
    BY <1>1, <1>2
  <2>3. spent' - carried' <= Charged(ledger)' + Cardinality(Unsettled(ledger)')
    <3> DEFINE c == Charged(ledger)'
               u == Cardinality(Unsettled(ledger)')
    <3> HIDE DEF c, u
    <3>1. c = spent' /\ u = 0
      BY <1>6, <2>1 DEF c, u
    <3>2. \A x \in Nat : x - 0 <= x + 0
      OBVIOUS
    <3>3. spent' - 0 <= spent' + 0
      BY <2>2, <3>2
    <3>4. spent' - carried' <= c + u
      BY <2>2, <3>1, <3>3
    <3> QED BY <3>4 DEF c, u
  <2> QED BY <2>3 DEF Covers
<1>10. CarriedFit(ledger)' /\ Timely(ledger)'
  BY <1>0, <1>1, <1>3 DEF CarriedFit, Timely, Period
<1> QED BY <1>1, <1>7, <1>8, <1>9, <1>10 DEF Inv

\* When the month turns, the provider's count starts again; what the ledger was
\* charged with belongs to the month before.
LEMMA TickSound ==
  ASSUME TypeOK, Inv, Tick
  PROVE  TypeOK' /\ Inv'
<1>1. /\ now' = now + 1 /\ now \in Nat \ {0}
      /\ UNCHANGED <<initialized, ledger, process, paid>>
      /\ IF Period(now + 1) = Period(now) THEN UNCHANGED <<spent, carried>>
         ELSE spent' = 0 /\ carried' = 0
  BY DEF Tick, TypeOK
<1>2. /\ Period(now)' = Period(now + 1) /\ Period(now) <= Period(now + 1)
      /\ Period(now) \in Nat /\ Period(now + 1) \in Nat
  <2>1. Period(now)' = Period(now + 1)
    BY <1>1 DEF Period
  <2>2. now + 1 \in Nat /\ now \in Nat /\ now <= now + 1
    BY <1>1
  <2> QED BY <2>1, <2>2, PeriodType, PeriodsFollow
<1>3. TypeOK'
  BY <1>1 DEF TypeOK
<1>4. Sound(ledger)'
  BY <1>1 DEF Inv, Sound
<1>5. Timely(ledger)'
  <2>1. ledger.period <= Period(now)'
    BY <1>2 DEF Inv, Timely, TypeOK, Ledgers
  <2>2. ASSUME NEW q \in ledger.reserved
        PROVE  /\ ledger.at[q] <= now' /\ Period(ledger.at[q]) <= ledger.period
               /\ paid[q] # 0 => paid[q] <= now' /\ paid[q] < ledger.at[q] + Stale
    <3>1. ledger.at[q] \in Nat /\ paid[q] \in Nat
      BY DEF TypeOK, Ledgers
    <3> QED BY <1>1, <3>1 DEF Inv, Timely
  <2> QED BY <1>1, <2>1, <2>2 DEF Timely, Period
<1>6. CASE Period(now + 1) = Period(now)
  <2>1. Period(now)' = Period(now) /\ spent' = spent /\ carried' = carried
    BY <1>1, <1>2, <1>6
  <2>2. Unsettled(ledger)' = Unsettled(ledger)
    <3>1. ASSUME NEW q \in ledger.reserved
          PROVE  PaidThisMonth(q)' <=> PaidThisMonth(q)
      <4>1. paid'[q] = paid[q] /\ Period(paid[q])' = Period(paid[q])
        BY <1>1 DEF Period
      <4> QED BY <2>1, <4>1 DEF PaidThisMonth
    <3> QED BY <1>1, <3>1 DEF Unsettled
  <2>3. Charged(ledger)' = Charged(ledger)
    BY <1>1, <2>1 DEF Charged
  <2>4. Covers(ledger, spent - carried)'
    BY <1>1, <2>1, <2>2, <2>3 DEF Covers, Inv
  <2>5. CarriedFit(ledger)'
    BY <1>1, <2>1 DEF CarriedFit, Inv
  <2>6. (~initialized => ledger.reserved = {} /\ carried = 0)'
    BY <1>1, <2>1 DEF Inv
  <2> QED BY <1>3, <1>4, <1>5, <2>4, <2>5, <2>6 DEF Inv
<1>7. CASE Period(now + 1) # Period(now)
  <2>1. spent' = 0 /\ carried' = 0
    BY <1>1, <1>7
  <2>2. Cardinality(Unsettled(ledger)') \in Nat
    <3>1. /\ Unsettled(ledger)' \subseteq ledger.reserved
          /\ IsFiniteSet(ledger.reserved)
      BY <1>1 DEF Unsettled, TypeOK
    <3> QED BY <3>1, FS_Subset, FS_CardinalityType
  <2>3. Charged(ledger)' \in Nat
    BY <1>1 DEF Charged, TypeOK, Ledgers
  <2>4. Covers(ledger, spent - carried)'
    BY <2>1, <2>2, <2>3 DEF Covers
  <2>5. CarriedFit(ledger)'
    BY <2>1 DEF CarriedFit
  <2>6. (~initialized => ledger.reserved = {} /\ carried = 0)'
    BY <1>1, <2>1 DEF Inv
  <2> QED BY <1>3, <1>4, <1>5, <2>4, <2>5, <2>6 DEF Inv
<1> QED BY <1>6, <1>7

\* The inductive invariant of the ledger.
THEOREM LedgerSound == Spec => [](TypeOK /\ Inv)
<1>1. Init => TypeOK /\ Inv
  <2> SUFFICES ASSUME Init PROVE TypeOK /\ Inv
    OBVIOUS
  <2>1. /\ ledger \in Ledgers /\ ledger.reserved = {}
        /\ ledger.billed = 0 /\ ledger.failures = 0 /\ ledger.period = 0
        /\ ledger.successes = 0 /\ ledger.attempts = 0 /\ spent = 0
        /\ carried = 0 /\ now = 1
    BY DEF Init, EmptyLedger, Ledgers
  <2>2. Cardinality({}) = 0 /\ IsFiniteSet({})
    BY FS_EmptySet
  <2>3. Cardinality(Unsettled(ledger)) = 0
    <3>1. Unsettled(ledger) = {}
      BY <2>1 DEF Unsettled
    <3> QED BY <2>2, <3>1
  <2>4. TypeOK
    <3>1. IsFiniteSet(ledger.reserved)
      BY <2>1, <2>2
    <3>2. now \in Nat \ {0}
      BY <2>1
    <3>5. initialized \in BOOLEAN
      BY DEF Init
    <3>3. process \in [Requests -> {"none", "reserved"}]
      BY DEF Init
    <3>4. paid \in [Requests -> Nat]
      <4>1. paid = [r \in Requests |-> 0]
        BY DEF Init
      <4> QED BY <4>1
    <3> QED BY <2>1, <3>1, <3>2, <3>3, <3>4, <3>5 DEF TypeOK
  <2>5. Period(now) \in Nat
    BY <2>1, PeriodType
  <2>6. Sound(ledger)
    BY <2>1, <2>2 DEF Sound
  <2>7. Covers(ledger, spent - carried)
    BY <2>1, <2>3 DEF Covers, Charged
  <2>8. CarriedFit(ledger) /\ Timely(ledger)
    BY <2>1, <2>5 DEF CarriedFit, Timely
  <2> QED BY <2>1, <2>4, <2>6, <2>7, <2>8 DEF Inv
<1>2. TypeOK /\ Inv /\ [Next]_vars => (TypeOK /\ Inv)'
  <2> SUFFICES ASSUME TypeOK, Inv, [Next]_vars PROVE TypeOK' /\ Inv'
    OBVIOUS
  <2>1. ASSUME NEW m \in Moments, NEW baseline \in 0 .. Limit,
               Initialize(m, baseline)
        PROVE  TypeOK' /\ Inv'
    BY <2>1, InitSound
  <2>2. ASSUME NEW m \in Moments, RefuseReserve(m) PROVE TypeOK' /\ Inv'
    BY <2>2, RefuseSound
  <2>3. ASSUME NEW m \in Moments, NEW r \in Requests, Reserve(r, m)
        PROVE  TypeOK' /\ Inv'
    BY <2>3, ReserveSound
  <2>4. ASSUME NEW m \in Moments, NEW r \in Requests, NEW billed \in BOOLEAN,
               NEW succeeded \in BOOLEAN, Finish(r, m, billed, succeeded)
        PROVE  TypeOK' /\ Inv'
    BY <2>4, FinishSound
  <2>5. ASSUME NEW r \in Requests, Bill(r) PROVE TypeOK' /\ Inv'
    BY <2>5, BillSound
  <2>6. ASSUME UNCHANGED <<ledger, bills, initialized, now>>,
               process' \in [Requests -> {"none", "reserved"}]
        PROVE  TypeOK' /\ Inv'
    <3>1. /\ ledger' = ledger /\ initialized' = initialized /\ now' = now
          /\ paid' = paid /\ spent' = spent /\ carried' = carried
      BY <2>6 DEF bills
    <3>2. TypeOK'
      BY <2>6, <3>1 DEF TypeOK
    <3>3. Inv'
      BY <3>1 DEF Inv, Sound, Covers, Charged, Unsettled, PaidThisMonth, CarriedFit,
                  Timely, Period
    <3> QED BY <3>2, <3>3
  <2>7. ASSUME NEW m \in Moments, NEW r \in Requests, FinishUnavailable(r, m)
        PROVE  TypeOK' /\ Inv'
    BY <2>6, <2>7 DEF FinishUnavailable, TypeOK
  <2>8. ASSUME NEW r \in Requests, Crash(r) PROVE TypeOK' /\ Inv'
    BY <2>6, <2>8 DEF Crash, TypeOK
  <2>9. CASE Tick
    BY <2>9, TickSound
  <2>10. CASE UNCHANGED vars
    BY <2>6, <2>10 DEF vars, TypeOK
  <2> QED
    BY <2>1, <2>2, <2>3, <2>4, <2>5, <2>7, <2>8, <2>9, <2>10 DEF Next
<1> QED BY <1>1, <1>2, PTL DEF Spec

\* The ledger is always a well formed file.
THEOREM TypeCorrect == Spec => []TypeOK
BY LedgerSound, PTL

\* No number of workers, crashes and late answers exceeds the monthly limit.
THEOREM LimitIsKept == Spec => []LimitKept
<1>1. TypeOK /\ Inv => LimitKept
  BY DEF Inv, Sound, LimitKept
<1> QED BY <1>1, LedgerSound, PTL

\* The money: what the provider bills in a month stays within the limit and
\* what was charged to the month before.
THEOREM BillIsBounded == Spec => []BillWithinLimit
<1>1. TypeOK /\ Inv => BillWithinLimit
  <2> SUFFICES ASSUME TypeOK, Inv PROVE BillWithinLimit
    OBVIOUS
  <2>1. /\ Cardinality(ledger.reserved) \in Nat
        /\ Cardinality(Unsettled(ledger)) \in Nat
        /\ Cardinality(Unsettled(ledger)) <= Cardinality(ledger.reserved)
    BY UnsettledFinite DEF TypeOK, Typed
  <2>2. /\ spent - carried <= Charged(ledger) + Cardinality(Unsettled(ledger))
        /\ ledger.billed + Cardinality(ledger.reserved) <= Limit
    BY DEF Inv, Sound, Covers
  <2>3. /\ ledger.billed \in Nat /\ spent \in Nat /\ carried \in Nat
        /\ Charged(ledger) \in Nat /\ Charged(ledger) <= ledger.billed
    BY DEF TypeOK, Ledgers, Charged
  <2>4. carried <= Limit
    BY <2>3 DEF Inv, CarriedFit
  <2> QED BY <2>1, <2>2, <2>3, <2>4 DEF BillWithinLimit
<1> QED BY <1>1, LedgerSound, PTL

\* A tripped circuit is probed by one request at a time.
THEOREM OneProbe == Spec => []SingleProbe
<1>1. TypeOK /\ Inv => SingleProbe
  BY DEF Inv, Sound, SingleProbe
<1> QED BY <1>1, LedgerSound, PTL

\* The counters agree, right after the month turned as well.
THEOREM CountersAgree == Spec => []AttemptsCover
<1>1. TypeOK /\ Inv => AttemptsCover
  BY DEF Inv, Sound, AttemptsCover
<1> QED BY <1>1, LedgerSound, PTL

\* The branch of reserve_request that reopens a tripped circuit without a
\* deadline is never needed as long as the settings stay the same.
THEOREM DeadlineKept == Spec => []TrippedHasDeadline
<1>1. TypeOK /\ Inv => TrippedHasDeadline
  BY DEF Inv, Sound, TrippedHasDeadline
<1> QED BY <1>1, LedgerSound, PTL

HIDE LedgerAssumption

-----------------------------------------------------------------------------
(* The theorems on the accounts, with the constants of the instances.  No  *)
(* instance of the run has locks.                                          *)

\* The keys in rotation, the tokens, HSReplay with its proxy and Scrape.do, the browsers.
OfRotation == INSTANCE AccountsProofs WITH
  Workers <- MCWorkers, Keys <- 1 .. 3, Limit <- MCLimit,
  Quota <- MCQuota, Costs <- MCCosts, AttemptLimit <- 3, MaxPeriods <- 2, MaxLost <- 0,
  Requests <- {"a", "b"}, Legacy <- {}, Managers <- {"m", "n"}, MonthlyQuota <- 1, Rate <- 1,
  Lifetime <- 2, Interval <- 2, Window <- 2, MonthLength <- 2, MaxWait <- 1, MaxTime <- 3,
  Tasks <- Transports!Tasks, SourceOf <- Transports!SourceOf, KeyOf <- Transports!KeyOf,
  Channels <- <<"curl_cffi", "scrape_do">>, Proxied <- {"curl_cffi"},
  MaxRequests <- 2, MaxCredits <- 2, AnswerCosts <- {1, 3}, TriesPerChannel <- 1,
  PageSources <- Transports!Sources, SiteOf <- [s \in Transports!Sources |-> "x"],
  Backends <- <<"patch", "gone", "flare">>, BrowserProxied <- {"patch"},
  Missing <- {"gone"}, Rounds <- 2, FailureThreshold <- 2, Faults <- {"timeout"},
  Jobs <- {}, Resources <- {}, Stages <- <<>>, Mode <- <<>>, Nobody <- "-", MaxFaults <- 0,
  pc <- 0, stage <- 0, todo <- 0, held <- 0, skipped <- 0, described <- 0, faults <- 0,
  spent <- credits, now <- clock

\* The keys with ample quotas, a legacy key, HSReplay by the proxy alone.
OfSpending == INSTANCE AccountsProofs WITH
  Workers <- MCWorkers, Keys <- 1 .. 2, Limit <- [k \in 1 .. 2 |-> 2],
  Quota <- MCAmpleQuota, Costs <- MCCosts, AttemptLimit <- 3, MaxPeriods <- 2, MaxLost <- 1,
  Requests <- {"a", "b"}, Legacy <- {"b"}, Managers <- {"m"}, MonthlyQuota <- 1, Rate <- 1,
  Lifetime <- 2, Interval <- 2, Window <- 2, MonthLength <- 2, MaxWait <- 1, MaxTime <- 2,
  Tasks <- {"a", "b"}, SourceOf <- Transports!SourceOf, KeyOf <- Transports!KeyOf,
  Channels <- <<"flaresolverr", "curl_cffi">>, Proxied <- {"curl_cffi", "flaresolverr"},
  MaxRequests <- 0, MaxCredits <- 0, AnswerCosts <- {1}, TriesPerChannel <- 2,
  PageSources <- Transports!Sources, SiteOf <- [s \in Transports!Sources |-> "x"],
  Backends <- <<"patch", "gone", "flare">>, BrowserProxied <- {"patch"},
  Missing <- {"gone"}, Rounds <- 2, FailureThreshold <- 2, Faults <- {"timeout"},
  Jobs <- {}, Resources <- {}, Stages <- <<>>, Mode <- <<>>, Nobody <- "-", MaxFaults <- 0,
  pc <- 0, stage <- 0, todo <- 0, held <- 0, skipped <- 0, described <- 0, faults <- 0,
  spent <- credits, now <- clock

\* HSReplay without the proxy.
OfScraping == INSTANCE AccountsProofs WITH
  Workers <- MCWorkers, Keys <- 1 .. 2, Limit <- [k \in 1 .. 2 |-> 2],
  Quota <- MCAmpleQuota, Costs <- MCCosts, AttemptLimit <- 3, MaxPeriods <- 2, MaxLost <- 1,
  Requests <- {"a", "b"}, Legacy <- {"b"}, Managers <- {"m"}, MonthlyQuota <- 1, Rate <- 1,
  Lifetime <- 2, Interval <- 2, Window <- 2, MonthLength <- 2, MaxWait <- 1, MaxTime <- 2,
  Tasks <- {"a", "b"}, SourceOf <- Transports!SourceOf, KeyOf <- Transports!KeyOf,
  Channels <- <<"direct_unproxied", "scrape_do">>, Proxied <- {},
  MaxRequests <- 3, MaxCredits <- 3, AnswerCosts <- {1, 3}, TriesPerChannel <- 2,
  PageSources <- Transports!Sources, SiteOf <- [s \in Transports!Sources |-> "x"],
  Backends <- <<"patch", "gone", "flare">>, BrowserProxied <- {"patch"},
  Missing <- {"gone"}, Rounds <- 2, FailureThreshold <- 2, Faults <- {"timeout"},
  Jobs <- {}, Resources <- {}, Stages <- <<>>, Mode <- <<>>, Nobody <- "-", MaxFaults <- 0,
  pc <- 0, stage <- 0, todo <- 0, held <- 0, skipped <- 0, described <- 0, faults <- 0,
  spent <- credits, now <- clock

\* The pools the theorems speak of are those of the run.
LEMMA SameRotation ==
  /\ OfRotation!Init <=> Rotation!Init
  /\ [OfRotation!Next]_(OfRotation!vars) <=> [Rotation!Next]_(Rotation!vars)
  /\ OfRotation!PoolAssumption <=> Rotation!PoolAssumption
  /\ OfRotation!TypeOK <=> Rotation!TypeOK
  /\ OfRotation!FewKeysOutWithoutCause <=> Rotation!FewKeysOutWithoutCause
  /\ OfRotation!ExhaustedStaysOutStep <=> Rotation!ExhaustedStaysOutStep
<1>1. OfRotation!Init <=> Rotation!Init
  BY Zenon DEF
    OfRotation!Min, OfRotation!Resting, OfRotation!Empty, OfRotation!Init, Rotation!Min,
    Rotation!Resting, Rotation!Empty, Rotation!Init
<1>2. [OfRotation!Next]_(OfRotation!vars) <=> [Rotation!Next]_(Rotation!vars)
  BY Zenon DEF
    OfRotation!Min, OfRotation!vars, OfRotation!Resting, OfRotation!Available,
    OfRotation!First, OfRotation!Empty, OfRotation!Outdated, OfRotation!Merged,
    OfRotation!Acquire, OfRotation!Answer, OfRotation!Fail, OfRotation!Reported,
    OfRotation!Report, OfRotation!Marked, OfRotation!MarkExhausted, OfRotation!Snapshot,
    OfRotation!Die, OfRotation!LoseFile, OfRotation!TurnPeriod, OfRotation!Next,
    Rotation!Min, Rotation!vars, Rotation!Resting, Rotation!Available, Rotation!First,
    Rotation!Empty, Rotation!Outdated, Rotation!Merged, Rotation!Acquire, Rotation!Answer,
    Rotation!Fail, Rotation!Reported, Rotation!Report, Rotation!Marked,
    Rotation!MarkExhausted, Rotation!Snapshot, Rotation!Die, Rotation!LoseFile,
    Rotation!TurnPeriod, Rotation!Next
<1>3. OfRotation!PoolAssumption <=> Rotation!PoolAssumption
  BY Zenon DEF
    OfRotation!IsFiniteSet, OfRotation!PoolAssumption, Rotation!IsFiniteSet,
    Rotation!PoolAssumption
<1>4. OfRotation!TypeOK <=> Rotation!TypeOK
  BY Zenon DEF
    OfRotation!Files, OfRotation!WorkerStates, OfRotation!TypeOK, Rotation!Files,
    Rotation!WorkerStates, Rotation!TypeOK
<1>5. OfRotation!FewKeysOutWithoutCause <=> Rotation!FewKeysOutWithoutCause
  BY Zenon DEF
    OfRotation!Cardinality, OfRotation!Min, OfRotation!Available, OfRotation!First,
    OfRotation!Empty, OfRotation!Outdated, OfRotation!Merged, OfRotation!OutWithoutCause,
    OfRotation!FewKeysOutWithoutCause, Rotation!Cardinality, Rotation!Min,
    Rotation!Available, Rotation!First, Rotation!Empty, Rotation!Outdated, Rotation!Merged,
    Rotation!OutWithoutCause, Rotation!FewKeysOutWithoutCause
<1>6. OfRotation!ExhaustedStaysOutStep <=> Rotation!ExhaustedStaysOutStep
  BY Zenon DEF
    OfRotation!Min, OfRotation!Available, OfRotation!First, OfRotation!Empty,
    OfRotation!Outdated, OfRotation!Merged, OfRotation!ExhaustedStaysOutStep, Rotation!Min,
    Rotation!Available, Rotation!First, Rotation!Empty, Rotation!Outdated, Rotation!Merged,
    Rotation!ExhaustedStaysOutStep
<1> QED BY <1>1, <1>2, <1>3, <1>4, <1>5, <1>6

\* So are the pools with ample quotas.
LEMMA SameSpending ==
  /\ OfSpending!Init <=> Spending!Init
  /\ [OfSpending!Next]_(OfSpending!vars) <=> [Spending!Next]_(Spending!vars)
  /\ OfSpending!PoolAssumption <=> Spending!PoolAssumption
  /\ OfSpending!TypeOK <=> Spending!TypeOK
  /\ OfSpending!OverspendBounded <=> Spending!OverspendBounded
  /\ OfSpending!BillsCounted <=> Spending!BillsCounted
<1>1. OfSpending!Init <=> Spending!Init
  BY Zenon DEF
    OfSpending!Min, OfSpending!Resting, OfSpending!Empty, OfSpending!Init, Spending!Min,
    Spending!Resting, Spending!Empty, Spending!Init
<1>2. [OfSpending!Next]_(OfSpending!vars) <=> [Spending!Next]_(Spending!vars)
  BY Zenon DEF
    OfSpending!Min, OfSpending!vars, OfSpending!Resting, OfSpending!Available,
    OfSpending!First, OfSpending!Empty, OfSpending!Outdated, OfSpending!Merged,
    OfSpending!Acquire, OfSpending!Answer, OfSpending!Fail, OfSpending!Reported,
    OfSpending!Report, OfSpending!Marked, OfSpending!MarkExhausted, OfSpending!Snapshot,
    OfSpending!Die, OfSpending!LoseFile, OfSpending!TurnPeriod, OfSpending!Next,
    Spending!Min, Spending!vars, Spending!Resting, Spending!Available, Spending!First,
    Spending!Empty, Spending!Outdated, Spending!Merged, Spending!Acquire, Spending!Answer,
    Spending!Fail, Spending!Reported, Spending!Report, Spending!Marked,
    Spending!MarkExhausted, Spending!Snapshot, Spending!Die, Spending!LoseFile,
    Spending!TurnPeriod, Spending!Next
<1>3. OfSpending!PoolAssumption <=> Spending!PoolAssumption
  BY Zenon DEF
    OfSpending!IsFiniteSet, OfSpending!PoolAssumption, Spending!IsFiniteSet,
    Spending!PoolAssumption
<1>4. OfSpending!TypeOK <=> Spending!TypeOK
  BY Zenon DEF
    OfSpending!Files, OfSpending!WorkerStates, OfSpending!TypeOK, Spending!Files,
    Spending!WorkerStates, Spending!TypeOK
<1>5. OfSpending!OverspendBounded <=> Spending!OverspendBounded
  BY Zenon DEF
    OfSpending!Cardinality, OfSpending!Max, OfSpending!OverspendBounded,
    Spending!Cardinality, Spending!Max, Spending!OverspendBounded
<1>6. OfSpending!BillsCounted <=> Spending!BillsCounted
  BY Zenon DEF
    OfSpending!Cardinality, OfSpending!Max, OfSpending!Min, OfSpending!Available,
    OfSpending!First, OfSpending!Empty, OfSpending!Outdated, OfSpending!Merged,
    OfSpending!Unreported, OfSpending!OnTheWay, OfSpending!BillsCounted,
    Spending!Cardinality, Spending!Max, Spending!Min, Spending!Available, Spending!First,
    Spending!Empty, Spending!Outdated, Spending!Merged, Spending!Unreported,
    Spending!OnTheWay, Spending!BillsCounted
<1> QED BY <1>1, <1>2, <1>3, <1>4, <1>5, <1>6

\* So is HSReplay with its proxy and Scrape.do.
LEMMA SameHsReplay ==
  /\ OfRotation!Hs!Init <=> Transports!HsReplay!Init
  /\ [OfRotation!Hs!Next]_(OfRotation!Hs!vars) <=> [Transports!HsReplay!Next]_(Transports!HsReplay!vars)
  /\ OfRotation!Hs!TransportAssumption <=> Transports!HsReplay!TransportAssumption
  /\ OfRotation!Hs!TypeOK <=> Transports!HsReplay!TypeOK
  /\ OfRotation!Hs!OneProbe <=> Transports!HsReplay!OneProbe
  /\ OfRotation!Hs!OneFetchPerSnapshot <=> Transports!HsReplay!OneFetchPerSnapshot
  /\ OfRotation!Hs!ScrapeBudgetKept <=> Transports!HsReplay!ScrapeBudgetKept
  /\ OfRotation!Hs!AttributionIsTrue <=> Transports!HsReplay!AttributionIsTrue
  /\ OfRotation!Hs!GivesUpRightly <=> Transports!HsReplay!GivesUpRightly
  /\ OfRotation!Hs!RefusedProxyRestsStep <=> Transports!HsReplay!RefusedProxyRestsStep
<1>1. OfRotation!Hs!Init <=> Transports!HsReplay!Init
  BY Zenon DEF
    OfRotation!Hs!None, OfRotation!Hs!Keys, OfRotation!Hs!SourcesOf, OfRotation!Hs!NewTask,
    OfRotation!Hs!NoProbe, OfRotation!Hs!Init, Transports!HsReplay!None,
    Transports!HsReplay!Keys, Transports!HsReplay!SourcesOf, Transports!HsReplay!NewTask,
    Transports!HsReplay!NoProbe, Transports!HsReplay!Init
<1>2. [OfRotation!Hs!Next]_(OfRotation!Hs!vars) <=> [Transports!HsReplay!Next]_(Transports!HsReplay!vars)
  BY Zenon DEF
    OfRotation!Hs!vars, OfRotation!Hs!None, OfRotation!Hs!budgetVars, OfRotation!Hs!Label,
    OfRotation!Hs!Set, OfRotation!Hs!Released, OfRotation!Hs!Failed, OfRotation!Hs!Refused,
    OfRotation!Hs!Ended, OfRotation!Hs!Got, OfRotation!Hs!Call, OfRotation!Hs!Enter,
    OfRotation!Hs!GiveUp, OfRotation!Hs!TryIndependent, OfRotation!Hs!Send,
    OfRotation!Hs!TryProxied, OfRotation!Hs!ProbeEnds, OfRotation!Hs!ProbeSeen,
    OfRotation!Hs!Answer, OfRotation!Hs!AnswerFails, OfRotation!Hs!AskAgain,
    OfRotation!Hs!ProxyRefuses, OfRotation!Hs!PageRefused, OfRotation!Hs!MayReserve,
    OfRotation!Hs!Reserve, OfRotation!Hs!Accounted, OfRotation!Hs!Scraped,
    OfRotation!Hs!ScrapeBreaks, OfRotation!Hs!Cancel, OfRotation!Hs!Next,
    Transports!HsReplay!vars, Transports!HsReplay!None, Transports!HsReplay!budgetVars,
    Transports!HsReplay!Label, Transports!HsReplay!Set, Transports!HsReplay!Released,
    Transports!HsReplay!Failed, Transports!HsReplay!Refused, Transports!HsReplay!Ended,
    Transports!HsReplay!Got, Transports!HsReplay!Call, Transports!HsReplay!Enter,
    Transports!HsReplay!GiveUp, Transports!HsReplay!TryIndependent, Transports!HsReplay!Send,
    Transports!HsReplay!TryProxied, Transports!HsReplay!ProbeEnds,
    Transports!HsReplay!ProbeSeen, Transports!HsReplay!Answer,
    Transports!HsReplay!AnswerFails, Transports!HsReplay!AskAgain,
    Transports!HsReplay!ProxyRefuses, Transports!HsReplay!PageRefused,
    Transports!HsReplay!MayReserve, Transports!HsReplay!Reserve,
    Transports!HsReplay!Accounted, Transports!HsReplay!Scraped,
    Transports!HsReplay!ScrapeBreaks, Transports!HsReplay!Cancel, Transports!HsReplay!Next
<1>3. OfRotation!Hs!TransportAssumption <=> Transports!HsReplay!TransportAssumption
  BY Zenon DEF
    OfRotation!Hs!IsFiniteSet, OfRotation!Hs!None, OfRotation!Hs!TransportAssumption,
    Transports!HsReplay!IsFiniteSet, Transports!HsReplay!None,
    Transports!HsReplay!TransportAssumption
<1>4. OfRotation!Hs!TypeOK <=> Transports!HsReplay!TypeOK
  BY Zenon DEF
    OfRotation!Hs!None, OfRotation!Hs!Keys, OfRotation!Hs!SourcesOf, OfRotation!Hs!Labels,
    OfRotation!Hs!TypeOK, Transports!HsReplay!None, Transports!HsReplay!Keys,
    Transports!HsReplay!SourcesOf, Transports!HsReplay!Labels, Transports!HsReplay!TypeOK
<1>5. OfRotation!Hs!OneProbe <=> Transports!HsReplay!OneProbe
  BY Zenon DEF
    OfRotation!Hs!Label, OfRotation!Hs!OneProbe, Transports!HsReplay!Label,
    Transports!HsReplay!OneProbe
<1>6. OfRotation!Hs!OneFetchPerSnapshot <=> Transports!HsReplay!OneFetchPerSnapshot
  BY Zenon DEF
    OfRotation!Hs!None, OfRotation!Hs!OneFetchPerSnapshot, Transports!HsReplay!None,
    Transports!HsReplay!OneFetchPerSnapshot
<1>7. OfRotation!Hs!ScrapeBudgetKept <=> Transports!HsReplay!ScrapeBudgetKept
  BY Zenon DEF
    OfRotation!Hs!Cardinality, OfRotation!Hs!MaxCost, OfRotation!Hs!ScrapeBudgetKept,
    Transports!HsReplay!Cardinality, Transports!HsReplay!MaxCost,
    Transports!HsReplay!ScrapeBudgetKept
<1>8. OfRotation!Hs!AttributionIsTrue <=> Transports!HsReplay!AttributionIsTrue
  BY Zenon DEF
    OfRotation!Hs!SourcesOf, OfRotation!Hs!AttributionIsTrue, Transports!HsReplay!SourcesOf,
    Transports!HsReplay!AttributionIsTrue
<1>9. OfRotation!Hs!GivesUpRightly <=> Transports!HsReplay!GivesUpRightly
  BY Zenon DEF
    OfRotation!Hs!Labels, OfRotation!Hs!GivesUpRightly, Transports!HsReplay!Labels,
    Transports!HsReplay!GivesUpRightly
<1>10. OfRotation!Hs!RefusedProxyRestsStep <=> Transports!HsReplay!RefusedProxyRestsStep
  BY Zenon DEF
    OfRotation!Hs!RefusedProxyRestsStep, Transports!HsReplay!RefusedProxyRestsStep
<1> QED BY <1>1, <1>2, <1>3, <1>4, <1>5, <1>6, <1>7, <1>8, <1>9, <1>10

\* So is HSReplay by the proxy alone.
LEMMA SameProxyOnly ==
  /\ OfSpending!Hs!Init <=> Transports!ProxyOnly!Init
  /\ [OfSpending!Hs!Next]_(OfSpending!Hs!vars) <=> [Transports!ProxyOnly!Next]_(Transports!ProxyOnly!vars)
  /\ OfSpending!Hs!TransportAssumption <=> Transports!ProxyOnly!TransportAssumption
  /\ OfSpending!Hs!TypeOK <=> Transports!ProxyOnly!TypeOK
  /\ OfSpending!Hs!OneProbe <=> Transports!ProxyOnly!OneProbe
  /\ OfSpending!Hs!OneFetchPerSnapshot <=> Transports!ProxyOnly!OneFetchPerSnapshot
  /\ OfSpending!Hs!GivesUpRightly <=> Transports!ProxyOnly!GivesUpRightly
  /\ OfSpending!Hs!AttributionIsTrue <=> Transports!ProxyOnly!AttributionIsTrue
  /\ OfSpending!Hs!RefusedProxyRestsStep <=> Transports!ProxyOnly!RefusedProxyRestsStep
<1>1. OfSpending!Hs!Init <=> Transports!ProxyOnly!Init
  BY Zenon DEF
    OfSpending!Hs!None, OfSpending!Hs!Keys, OfSpending!Hs!SourcesOf, OfSpending!Hs!NewTask,
    OfSpending!Hs!NoProbe, OfSpending!Hs!Init, Transports!ProxyOnly!None,
    Transports!ProxyOnly!Keys, Transports!ProxyOnly!SourcesOf, Transports!ProxyOnly!NewTask,
    Transports!ProxyOnly!NoProbe, Transports!ProxyOnly!Init
<1>2. [OfSpending!Hs!Next]_(OfSpending!Hs!vars) <=> [Transports!ProxyOnly!Next]_(Transports!ProxyOnly!vars)
  BY Zenon DEF
    OfSpending!Hs!vars, OfSpending!Hs!None, OfSpending!Hs!budgetVars, OfSpending!Hs!Label,
    OfSpending!Hs!Set, OfSpending!Hs!Released, OfSpending!Hs!Failed, OfSpending!Hs!Refused,
    OfSpending!Hs!Ended, OfSpending!Hs!Got, OfSpending!Hs!Call, OfSpending!Hs!Enter,
    OfSpending!Hs!GiveUp, OfSpending!Hs!TryIndependent, OfSpending!Hs!Send,
    OfSpending!Hs!TryProxied, OfSpending!Hs!ProbeEnds, OfSpending!Hs!ProbeSeen,
    OfSpending!Hs!Answer, OfSpending!Hs!AnswerFails, OfSpending!Hs!AskAgain,
    OfSpending!Hs!ProxyRefuses, OfSpending!Hs!PageRefused, OfSpending!Hs!MayReserve,
    OfSpending!Hs!Reserve, OfSpending!Hs!Accounted, OfSpending!Hs!Scraped,
    OfSpending!Hs!ScrapeBreaks, OfSpending!Hs!Cancel, OfSpending!Hs!Next,
    Transports!ProxyOnly!vars, Transports!ProxyOnly!None, Transports!ProxyOnly!budgetVars,
    Transports!ProxyOnly!Label, Transports!ProxyOnly!Set, Transports!ProxyOnly!Released,
    Transports!ProxyOnly!Failed, Transports!ProxyOnly!Refused, Transports!ProxyOnly!Ended,
    Transports!ProxyOnly!Got, Transports!ProxyOnly!Call, Transports!ProxyOnly!Enter,
    Transports!ProxyOnly!GiveUp, Transports!ProxyOnly!TryIndependent,
    Transports!ProxyOnly!Send, Transports!ProxyOnly!TryProxied,
    Transports!ProxyOnly!ProbeEnds, Transports!ProxyOnly!ProbeSeen,
    Transports!ProxyOnly!Answer, Transports!ProxyOnly!AnswerFails,
    Transports!ProxyOnly!AskAgain, Transports!ProxyOnly!ProxyRefuses,
    Transports!ProxyOnly!PageRefused, Transports!ProxyOnly!MayReserve,
    Transports!ProxyOnly!Reserve, Transports!ProxyOnly!Accounted,
    Transports!ProxyOnly!Scraped, Transports!ProxyOnly!ScrapeBreaks,
    Transports!ProxyOnly!Cancel, Transports!ProxyOnly!Next
<1>3. OfSpending!Hs!TransportAssumption <=> Transports!ProxyOnly!TransportAssumption
  BY Zenon DEF
    OfSpending!Hs!IsFiniteSet, OfSpending!Hs!None, OfSpending!Hs!TransportAssumption,
    Transports!ProxyOnly!IsFiniteSet, Transports!ProxyOnly!None,
    Transports!ProxyOnly!TransportAssumption
<1>4. OfSpending!Hs!TypeOK <=> Transports!ProxyOnly!TypeOK
  BY Zenon DEF
    OfSpending!Hs!None, OfSpending!Hs!Keys, OfSpending!Hs!SourcesOf, OfSpending!Hs!Labels,
    OfSpending!Hs!TypeOK, Transports!ProxyOnly!None, Transports!ProxyOnly!Keys,
    Transports!ProxyOnly!SourcesOf, Transports!ProxyOnly!Labels, Transports!ProxyOnly!TypeOK
<1>5. OfSpending!Hs!OneProbe <=> Transports!ProxyOnly!OneProbe
  BY Zenon DEF
    OfSpending!Hs!Label, OfSpending!Hs!OneProbe, Transports!ProxyOnly!Label,
    Transports!ProxyOnly!OneProbe
<1>6. OfSpending!Hs!OneFetchPerSnapshot <=> Transports!ProxyOnly!OneFetchPerSnapshot
  BY Zenon DEF
    OfSpending!Hs!None, OfSpending!Hs!OneFetchPerSnapshot, Transports!ProxyOnly!None,
    Transports!ProxyOnly!OneFetchPerSnapshot
<1>7. OfSpending!Hs!GivesUpRightly <=> Transports!ProxyOnly!GivesUpRightly
  BY Zenon DEF
    OfSpending!Hs!Labels, OfSpending!Hs!GivesUpRightly, Transports!ProxyOnly!Labels,
    Transports!ProxyOnly!GivesUpRightly
<1>8. OfSpending!Hs!AttributionIsTrue <=> Transports!ProxyOnly!AttributionIsTrue
  BY Zenon DEF
    OfSpending!Hs!SourcesOf, OfSpending!Hs!AttributionIsTrue, Transports!ProxyOnly!SourcesOf,
    Transports!ProxyOnly!AttributionIsTrue
<1>9. OfSpending!Hs!RefusedProxyRestsStep <=> Transports!ProxyOnly!RefusedProxyRestsStep
  BY Zenon DEF
    OfSpending!Hs!RefusedProxyRestsStep, Transports!ProxyOnly!RefusedProxyRestsStep
<1> QED BY <1>1, <1>2, <1>3, <1>4, <1>5, <1>6, <1>7, <1>8, <1>9

\* So is HSReplay without the proxy.
LEMMA SameScraped ==
  /\ OfScraping!Hs!Init <=> Transports!Scraped!Init
  /\ [OfScraping!Hs!Next]_(OfScraping!Hs!vars) <=> [Transports!Scraped!Next]_(Transports!Scraped!vars)
  /\ OfScraping!Hs!TransportAssumption <=> Transports!Scraped!TransportAssumption
  /\ OfScraping!Hs!TypeOK <=> Transports!Scraped!TypeOK
  /\ OfScraping!Hs!OneFetchPerSnapshot <=> Transports!Scraped!OneFetchPerSnapshot
  /\ OfScraping!Hs!ScrapeBudgetKept <=> Transports!Scraped!ScrapeBudgetKept
  /\ OfScraping!Hs!AttributionIsTrue <=> Transports!Scraped!AttributionIsTrue
<1>1. OfScraping!Hs!Init <=> Transports!Scraped!Init
  BY Zenon DEF
    OfScraping!Hs!None, OfScraping!Hs!Keys, OfScraping!Hs!SourcesOf, OfScraping!Hs!NewTask,
    OfScraping!Hs!NoProbe, OfScraping!Hs!Init, Transports!Scraped!None,
    Transports!Scraped!Keys, Transports!Scraped!SourcesOf, Transports!Scraped!NewTask,
    Transports!Scraped!NoProbe, Transports!Scraped!Init
<1>2. [OfScraping!Hs!Next]_(OfScraping!Hs!vars) <=> [Transports!Scraped!Next]_(Transports!Scraped!vars)
  BY Zenon DEF
    OfScraping!Hs!vars, OfScraping!Hs!None, OfScraping!Hs!budgetVars, OfScraping!Hs!Label,
    OfScraping!Hs!Set, OfScraping!Hs!Released, OfScraping!Hs!Failed, OfScraping!Hs!Refused,
    OfScraping!Hs!Ended, OfScraping!Hs!Got, OfScraping!Hs!Call, OfScraping!Hs!Enter,
    OfScraping!Hs!GiveUp, OfScraping!Hs!TryIndependent, OfScraping!Hs!Send,
    OfScraping!Hs!TryProxied, OfScraping!Hs!ProbeEnds, OfScraping!Hs!ProbeSeen,
    OfScraping!Hs!Answer, OfScraping!Hs!AnswerFails, OfScraping!Hs!AskAgain,
    OfScraping!Hs!ProxyRefuses, OfScraping!Hs!PageRefused, OfScraping!Hs!MayReserve,
    OfScraping!Hs!Reserve, OfScraping!Hs!Accounted, OfScraping!Hs!Scraped,
    OfScraping!Hs!ScrapeBreaks, OfScraping!Hs!Cancel, OfScraping!Hs!Next,
    Transports!Scraped!vars, Transports!Scraped!None, Transports!Scraped!budgetVars,
    Transports!Scraped!Label, Transports!Scraped!Set, Transports!Scraped!Released,
    Transports!Scraped!Failed, Transports!Scraped!Refused, Transports!Scraped!Ended,
    Transports!Scraped!Got, Transports!Scraped!Call, Transports!Scraped!Enter,
    Transports!Scraped!GiveUp, Transports!Scraped!TryIndependent, Transports!Scraped!Send,
    Transports!Scraped!TryProxied, Transports!Scraped!ProbeEnds,
    Transports!Scraped!ProbeSeen, Transports!Scraped!Answer, Transports!Scraped!AnswerFails,
    Transports!Scraped!AskAgain, Transports!Scraped!ProxyRefuses,
    Transports!Scraped!PageRefused, Transports!Scraped!MayReserve,
    Transports!Scraped!Reserve, Transports!Scraped!Accounted, Transports!Scraped!Scraped,
    Transports!Scraped!ScrapeBreaks, Transports!Scraped!Cancel, Transports!Scraped!Next
<1>3. OfScraping!Hs!TransportAssumption <=> Transports!Scraped!TransportAssumption
  BY Zenon DEF
    OfScraping!Hs!IsFiniteSet, OfScraping!Hs!None, OfScraping!Hs!TransportAssumption,
    Transports!Scraped!IsFiniteSet, Transports!Scraped!None,
    Transports!Scraped!TransportAssumption
<1>4. OfScraping!Hs!TypeOK <=> Transports!Scraped!TypeOK
  BY Zenon DEF
    OfScraping!Hs!None, OfScraping!Hs!Keys, OfScraping!Hs!SourcesOf, OfScraping!Hs!Labels,
    OfScraping!Hs!TypeOK, Transports!Scraped!None, Transports!Scraped!Keys,
    Transports!Scraped!SourcesOf, Transports!Scraped!Labels, Transports!Scraped!TypeOK
<1>5. OfScraping!Hs!OneFetchPerSnapshot <=> Transports!Scraped!OneFetchPerSnapshot
  BY Zenon DEF
    OfScraping!Hs!None, OfScraping!Hs!OneFetchPerSnapshot, Transports!Scraped!None,
    Transports!Scraped!OneFetchPerSnapshot
<1>6. OfScraping!Hs!ScrapeBudgetKept <=> Transports!Scraped!ScrapeBudgetKept
  BY Zenon DEF
    OfScraping!Hs!Cardinality, OfScraping!Hs!MaxCost, OfScraping!Hs!ScrapeBudgetKept,
    Transports!Scraped!Cardinality, Transports!Scraped!MaxCost,
    Transports!Scraped!ScrapeBudgetKept
<1>7. OfScraping!Hs!AttributionIsTrue <=> Transports!Scraped!AttributionIsTrue
  BY Zenon DEF
    OfScraping!Hs!SourcesOf, OfScraping!Hs!AttributionIsTrue, Transports!Scraped!SourcesOf,
    Transports!Scraped!AttributionIsTrue
<1> QED BY <1>1, <1>2, <1>3, <1>4, <1>5, <1>6, <1>7

\* So are the browsers.
LEMMA SameBrowsers ==
  /\ OfRotation!Br!Init <=> Transports!Browsers!Init
  /\ [OfRotation!Br!Next]_(OfRotation!Br!vars) <=> [Transports!Browsers!Next]_(Transports!Browsers!vars)
  /\ OfRotation!Br!RotationAssumption <=> Transports!Browsers!RotationAssumption
  /\ OfRotation!Br!TypeOK <=> Transports!Browsers!TypeOK
  /\ OfRotation!Br!HammeringBounded <=> Transports!Browsers!HammeringBounded
  /\ OfRotation!Br!GivesUpLate <=> Transports!Browsers!GivesUpLate
  /\ OfRotation!Br!SpoiledRestsStep <=> Transports!Browsers!SpoiledRestsStep
<1>1. OfRotation!Br!Init <=> Transports!Browsers!Init
  BY Zenon DEF
    OfRotation!Br!Names, OfRotation!Br!Sites, OfRotation!Br!Kinds, OfRotation!Br!NewTask,
    OfRotation!Br!Init, Transports!Browsers!Names, Transports!Browsers!Sites,
    Transports!Browsers!Kinds, Transports!Browsers!NewTask, Transports!Browsers!Init
<1>2. [OfRotation!Br!Next]_(OfRotation!Br!vars) <=> [Transports!Browsers!Next]_(Transports!Browsers!vars)
  BY Zenon DEF
    OfRotation!Br!vars, OfRotation!Br!Kinds, OfRotation!Br!Scope, OfRotation!Br!Backend,
    OfRotation!Br!Open, OfRotation!Br!Set, OfRotation!Br!Begin, OfRotation!Br!Left,
    OfRotation!Br!Refuses, OfRotation!Br!Spoiled, OfRotation!Br!Skip, OfRotation!Br!Try,
    OfRotation!Br!Succeed, OfRotation!Br!Counted, OfRotation!Br!Passed, OfRotation!Br!Fail,
    OfRotation!Br!Challenge, OfRotation!Br!ProxyRefuses, OfRotation!Br!WorthARound,
    OfRotation!Br!EndRound, OfRotation!Br!NextRound, OfRotation!Br!Cancel,
    OfRotation!Br!Next, Transports!Browsers!vars, Transports!Browsers!Kinds,
    Transports!Browsers!Scope, Transports!Browsers!Backend, Transports!Browsers!Open,
    Transports!Browsers!Set, Transports!Browsers!Begin, Transports!Browsers!Left,
    Transports!Browsers!Refuses, Transports!Browsers!Spoiled, Transports!Browsers!Skip,
    Transports!Browsers!Try, Transports!Browsers!Succeed, Transports!Browsers!Counted,
    Transports!Browsers!Passed, Transports!Browsers!Fail, Transports!Browsers!Challenge,
    Transports!Browsers!ProxyRefuses, Transports!Browsers!WorthARound,
    Transports!Browsers!EndRound, Transports!Browsers!NextRound, Transports!Browsers!Cancel,
    Transports!Browsers!Next
<1>3. OfRotation!Br!RotationAssumption <=> Transports!Browsers!RotationAssumption
  BY Zenon DEF
    OfRotation!Br!IsFiniteSet, OfRotation!Br!RotationAssumption,
    Transports!Browsers!IsFiniteSet, Transports!Browsers!RotationAssumption
<1>4. OfRotation!Br!TypeOK <=> Transports!Browsers!TypeOK
  BY Zenon DEF
    OfRotation!Br!Names, OfRotation!Br!Sites, OfRotation!Br!Kinds, OfRotation!Br!TypeOK,
    Transports!Browsers!Names, Transports!Browsers!Sites, Transports!Browsers!Kinds,
    Transports!Browsers!TypeOK
<1>5. OfRotation!Br!HammeringBounded <=> Transports!Browsers!HammeringBounded
  BY Zenon DEF
    OfRotation!Br!Cardinality, OfRotation!Br!Names, OfRotation!Br!Sites, OfRotation!Br!Kinds,
    OfRotation!Br!Scope, OfRotation!Br!HammeringBounded, Transports!Browsers!Cardinality,
    Transports!Browsers!Names, Transports!Browsers!Sites, Transports!Browsers!Kinds,
    Transports!Browsers!Scope, Transports!Browsers!HammeringBounded
<1>6. OfRotation!Br!GivesUpLate <=> Transports!Browsers!GivesUpLate
  BY Zenon DEF
    OfRotation!Br!Names, OfRotation!Br!GivesUpLate, Transports!Browsers!Names,
    Transports!Browsers!GivesUpLate
<1>7. OfRotation!Br!SpoiledRestsStep <=> Transports!Browsers!SpoiledRestsStep
  BY Zenon DEF
    OfRotation!Br!Names, OfRotation!Br!Kinds, OfRotation!Br!Scope, OfRotation!Br!Open,
    OfRotation!Br!SpoiledRestsStep, Transports!Browsers!Names, Transports!Browsers!Kinds,
    Transports!Browsers!Scope, Transports!Browsers!Open, Transports!Browsers!SpoiledRestsStep
<1> QED BY <1>1, <1>2, <1>3, <1>4, <1>5, <1>6, <1>7

\* So are the tokens.
LEMMA SameAccess ==
  /\ OfRotation!Access!Init <=> Access!Init
  /\ [OfRotation!Access!Next]_(OfRotation!Access!vars) <=> [Access!Next]_(Access!vars)
  /\ OfRotation!Access!AccessAssumption <=> Access!AccessAssumption
  /\ OfRotation!Access!TypeOK <=> Access!TypeOK
  /\ OfRotation!Access!QuotaKept <=> Access!QuotaKept
  /\ OfRotation!Access!RateKept <=> Access!RateKept
  /\ OfRotation!Access!BooksAddUp <=> Access!BooksAddUp
  /\ OfRotation!Access!LastUsedIsRecent <=> Access!LastUsedIsRecent
  /\ OfRotation!Access!RevokedStaysOutStep <=> Access!RevokedStaysOutStep
<1>1. OfRotation!Access!Init <=> Access!Init
  BY Zenon DEF
    OfRotation!Access!Never, OfRotation!Access!None, OfRotation!Access!Month,
    OfRotation!Access!Months, OfRotation!Access!Layers, OfRotation!Access!NoCount,
    OfRotation!Access!NewRequest, OfRotation!Access!Init, Access!Never, Access!None,
    Access!Month, Access!Months, Access!Layers, Access!NoCount, Access!NewRequest, Access!Init
<1>2. [OfRotation!Access!Next]_(OfRotation!Access!vars) <=> [Access!Next]_(Access!vars)
  BY Zenon DEF
    OfRotation!Access!vars, OfRotation!Access!Never, OfRotation!Access!None,
    OfRotation!Access!Month, OfRotation!Access!Layers, OfRotation!Access!NoCount,
    OfRotation!Access!Issued, OfRotation!Access!Valid, OfRotation!Access!Set,
    OfRotation!Access!Over, OfRotation!Access!Issue, OfRotation!Access!Revoke,
    OfRotation!Access!Authenticate, OfRotation!Access!Touch, OfRotation!Access!Incremented,
    OfRotation!Access!Count, OfRotation!Access!Reserve, OfRotation!Access!Charge,
    OfRotation!Access!Busy, OfRotation!Access!Ended, OfRotation!Access!Route,
    OfRotation!Access!Answer, OfRotation!Access!Complete, OfRotation!Access!Cancel,
    OfRotation!Access!Tick, OfRotation!Access!Next, Access!vars, Access!Never, Access!None,
    Access!Month, Access!Layers, Access!NoCount, Access!Issued, Access!Valid, Access!Set,
    Access!Over, Access!Issue, Access!Revoke, Access!Authenticate, Access!Touch,
    Access!Incremented, Access!Count, Access!Reserve, Access!Charge, Access!Busy,
    Access!Ended, Access!Route, Access!Answer, Access!Complete, Access!Cancel, Access!Tick,
    Access!Next
<1>3. OfRotation!Access!AccessAssumption <=> Access!AccessAssumption
  BY Zenon DEF
    OfRotation!Access!IsFiniteSet, OfRotation!Access!None,
    OfRotation!Access!AccessAssumption, Access!IsFiniteSet, Access!None,
    Access!AccessAssumption
<1>4. OfRotation!Access!TypeOK <=> Access!TypeOK
  BY Zenon DEF
    OfRotation!Access!Never, OfRotation!Access!None, OfRotation!Access!Month,
    OfRotation!Access!Months, OfRotation!Access!Layers, OfRotation!Access!TypeOK,
    Access!Never, Access!None, Access!Month, Access!Months, Access!Layers, Access!TypeOK
<1>5. OfRotation!Access!QuotaKept <=> Access!QuotaKept
  BY Zenon DEF
    OfRotation!Access!Cardinality, OfRotation!Access!Month, OfRotation!Access!Months,
    OfRotation!Access!QuotaKept, Access!Cardinality, Access!Month, Access!Months,
    Access!QuotaKept
<1>6. OfRotation!Access!RateKept <=> Access!RateKept
  BY Zenon DEF
    OfRotation!Access!Cardinality, OfRotation!Access!RateKept, Access!Cardinality,
    Access!RateKept
<1>7. OfRotation!Access!BooksAddUp <=> Access!BooksAddUp
  BY Zenon DEF
    OfRotation!Access!Cardinality, OfRotation!Access!Never, OfRotation!Access!Month,
    OfRotation!Access!Months, OfRotation!Access!BooksAddUp, Access!Cardinality, Access!Never,
    Access!Month, Access!Months, Access!BooksAddUp
<1>8. OfRotation!Access!LastUsedIsRecent <=> Access!LastUsedIsRecent
  BY Zenon DEF
    OfRotation!Access!Never, OfRotation!Access!LastUsedIsRecent, Access!Never,
    Access!LastUsedIsRecent
<1>9. OfRotation!Access!RevokedStaysOutStep <=> Access!RevokedStaysOutStep
  BY Zenon DEF
    OfRotation!Access!Never, OfRotation!Access!RevokedStaysOutStep, Access!Never,
    Access!RevokedStaysOutStep
<1> QED BY <1>1, <1>2, <1>3, <1>4, <1>5, <1>6, <1>7, <1>8, <1>9

\* So is the legacy key.
LEMMA SameLegacy ==
  /\ OfSpending!Access!Init <=> LegacyAccess!Init
  /\ [OfSpending!Access!Next]_(OfSpending!Access!vars) <=> [LegacyAccess!Next]_(LegacyAccess!vars)
  /\ OfSpending!Access!AccessAssumption <=> LegacyAccess!AccessAssumption
  /\ OfSpending!Access!TypeOK <=> LegacyAccess!TypeOK
  /\ OfSpending!Access!QuotaKept <=> LegacyAccess!QuotaKept
  /\ OfSpending!Access!RateKept <=> LegacyAccess!RateKept
<1>1. OfSpending!Access!Init <=> LegacyAccess!Init
  BY Zenon DEF
    OfSpending!Access!Never, OfSpending!Access!None, OfSpending!Access!Month,
    OfSpending!Access!Months, OfSpending!Access!Layers, OfSpending!Access!NoCount,
    OfSpending!Access!NewRequest, OfSpending!Access!Init, LegacyAccess!Never,
    LegacyAccess!None, LegacyAccess!Month, LegacyAccess!Months, LegacyAccess!Layers,
    LegacyAccess!NoCount, LegacyAccess!NewRequest, LegacyAccess!Init
<1>2. [OfSpending!Access!Next]_(OfSpending!Access!vars) <=> [LegacyAccess!Next]_(LegacyAccess!vars)
  BY Zenon DEF
    OfSpending!Access!vars, OfSpending!Access!Never, OfSpending!Access!None,
    OfSpending!Access!Month, OfSpending!Access!Layers, OfSpending!Access!NoCount,
    OfSpending!Access!Issued, OfSpending!Access!Valid, OfSpending!Access!Set,
    OfSpending!Access!Over, OfSpending!Access!Issue, OfSpending!Access!Revoke,
    OfSpending!Access!Authenticate, OfSpending!Access!Touch, OfSpending!Access!Incremented,
    OfSpending!Access!Count, OfSpending!Access!Reserve, OfSpending!Access!Charge,
    OfSpending!Access!Busy, OfSpending!Access!Ended, OfSpending!Access!Route,
    OfSpending!Access!Answer, OfSpending!Access!Complete, OfSpending!Access!Cancel,
    OfSpending!Access!Tick, OfSpending!Access!Next, LegacyAccess!vars, LegacyAccess!Never,
    LegacyAccess!None, LegacyAccess!Month, LegacyAccess!Layers, LegacyAccess!NoCount,
    LegacyAccess!Issued, LegacyAccess!Valid, LegacyAccess!Set, LegacyAccess!Over,
    LegacyAccess!Issue, LegacyAccess!Revoke, LegacyAccess!Authenticate, LegacyAccess!Touch,
    LegacyAccess!Incremented, LegacyAccess!Count, LegacyAccess!Reserve, LegacyAccess!Charge,
    LegacyAccess!Busy, LegacyAccess!Ended, LegacyAccess!Route, LegacyAccess!Answer,
    LegacyAccess!Complete, LegacyAccess!Cancel, LegacyAccess!Tick, LegacyAccess!Next
<1>3. OfSpending!Access!AccessAssumption <=> LegacyAccess!AccessAssumption
  BY Zenon DEF
    OfSpending!Access!IsFiniteSet, OfSpending!Access!None,
    OfSpending!Access!AccessAssumption, LegacyAccess!IsFiniteSet, LegacyAccess!None,
    LegacyAccess!AccessAssumption
<1>4. OfSpending!Access!TypeOK <=> LegacyAccess!TypeOK
  BY Zenon DEF
    OfSpending!Access!Never, OfSpending!Access!None, OfSpending!Access!Month,
    OfSpending!Access!Months, OfSpending!Access!Layers, OfSpending!Access!TypeOK,
    LegacyAccess!Never, LegacyAccess!None, LegacyAccess!Month, LegacyAccess!Months,
    LegacyAccess!Layers, LegacyAccess!TypeOK
<1>5. OfSpending!Access!QuotaKept <=> LegacyAccess!QuotaKept
  BY Zenon DEF
    OfSpending!Access!Cardinality, OfSpending!Access!Month, OfSpending!Access!Months,
    OfSpending!Access!QuotaKept, LegacyAccess!Cardinality, LegacyAccess!Month,
    LegacyAccess!Months, LegacyAccess!QuotaKept
<1>6. OfSpending!Access!RateKept <=> LegacyAccess!RateKept
  BY Zenon DEF
    OfSpending!Access!Cardinality, OfSpending!Access!RateKept, LegacyAccess!Cardinality,
    LegacyAccess!RateKept
<1> QED BY <1>1, <1>2, <1>3, <1>4, <1>5, <1>6

-----------------------------------------------------------------------------
(* Of every account, its behaviours are those of its instance.             *)

\* The constants of the instances are such as the theorems assume.
LEMMA InstancesFit ==
  /\ OfRotation!PoolAssumption /\ OfSpending!PoolAssumption
  /\ OfRotation!Access!AccessAssumption /\ OfSpending!Access!AccessAssumption
  /\ OfRotation!Hs!TransportAssumption /\ OfSpending!Hs!TransportAssumption
  /\ OfScraping!Hs!TransportAssumption /\ OfRotation!Br!RotationAssumption
BY AccountsAssumption, SameRotation, SameSpending, SameAccess, SameLegacy, SameHsReplay,
   SameProxyOnly, SameScraped, SameBrowsers DEF AccountsAssumption, Transports!TransportsFit

\* A behaviour is of one account.
LEMMA AccountStays == [CreditsNext]_creditVars => account' = account
BY DEF CreditsNext, creditVars

\* The keys stay in rotation in every account but the one of the spending.
LEMMA RotationLevel == CreditsSpec => OfRotation!Spec \/ []~(account # "spending")
<1>1. CreditsInit /\ (account # "spending") => Rotation!Init
  BY DEF CreditsInit
<1>2. (account # "spending") /\ [CreditsNext]_creditVars
        => [Rotation!Next]_(Rotation!vars) /\ (account # "spending")'
  BY DEF CreditsNext, creditVars, poolVars, Transports!TransportNext, Rotation!vars
<1>3. ~(account # "spending") /\ [CreditsNext]_creditVars => (~(account # "spending"))'
  BY AccountStays
<1> QED BY <1>1, <1>2, <1>3, SameRotation, PTL DEF CreditsSpec, OfRotation!Spec

\* The account of the spending has ample quotas.
LEMMA SpendingLevel == CreditsSpec => OfSpending!Spec \/ []~(account = "spending")
<1>1. CreditsInit /\ (account = "spending") => Spending!Init
  BY DEF CreditsInit
<1>2. (account = "spending") /\ [CreditsNext]_creditVars
        => [Spending!Next]_(Spending!vars) /\ (account = "spending")'
  BY DEF CreditsNext, creditVars, poolVars, Transports!TransportNext, Spending!vars
<1>3. ~(account = "spending") /\ [CreditsNext]_creditVars => (~(account = "spending"))'
  BY AccountStays
<1> QED BY <1>1, <1>2, <1>3, SameSpending, PTL DEF CreditsSpec, OfSpending!Spec

\* HSReplay has its channels but in the accounts of other transports.
LEMMA HsReplayLevel == CreditsSpec => OfRotation!Hs!Spec \/ []~(account \notin {"browsers", "proxied", "scraped"})
<1>1. CreditsInit /\ (account \notin {"browsers", "proxied", "scraped"}) => Transports!HsReplay!Init
  BY DEF CreditsInit, Transports!TransportInit
<1>2. (account \notin {"browsers", "proxied", "scraped"}) /\ [CreditsNext]_creditVars
        => [Transports!HsReplay!Next]_(Transports!HsReplay!vars) /\ (account \notin {"browsers", "proxied", "scraped"})'
  BY DEF CreditsNext, creditVars, transportVars, Transports!TransportNext, Transports!browserVars,
         Transports!fetchVars, Transports!HsReplay!vars
<1>3. ~(account \notin {"browsers", "proxied", "scraped"}) /\ [CreditsNext]_creditVars => (~(account \notin {"browsers", "proxied", "scraped"}))'
  BY AccountStays
<1> QED BY <1>1, <1>2, <1>3, SameHsReplay, PTL DEF CreditsSpec, OfRotation!Hs!Spec

\* One of them has the proxy alone,
LEMMA ProxyOnlyLevel == CreditsSpec => OfSpending!Hs!Spec \/ []~(account = "proxied")
<1>1. CreditsInit /\ (account = "proxied") => Transports!ProxyOnly!Init
  BY DEF CreditsInit, Transports!TransportInit
<1>2. (account = "proxied") /\ [CreditsNext]_creditVars
        => [Transports!ProxyOnly!Next]_(Transports!ProxyOnly!vars) /\ (account = "proxied")'
  BY DEF CreditsNext, creditVars, transportVars, Transports!TransportNext, Transports!browserVars,
         Transports!fetchVars, Transports!ProxyOnly!vars
<1>3. ~(account = "proxied") /\ [CreditsNext]_creditVars => (~(account = "proxied"))'
  BY AccountStays
<1> QED BY <1>1, <1>2, <1>3, SameProxyOnly, PTL DEF CreditsSpec, OfSpending!Hs!Spec

\* one does without it,
LEMMA ScrapedLevel == CreditsSpec => OfScraping!Hs!Spec \/ []~(account = "scraped")
<1>1. CreditsInit /\ (account = "scraped") => Transports!Scraped!Init
  BY DEF CreditsInit, Transports!TransportInit
<1>2. (account = "scraped") /\ [CreditsNext]_creditVars
        => [Transports!Scraped!Next]_(Transports!Scraped!vars) /\ (account = "scraped")'
  BY DEF CreditsNext, creditVars, transportVars, Transports!TransportNext, Transports!browserVars,
         Transports!fetchVars, Transports!Scraped!vars
<1>3. ~(account = "scraped") /\ [CreditsNext]_creditVars => (~(account = "scraped"))'
  BY AccountStays
<1> QED BY <1>1, <1>2, <1>3, SameScraped, PTL DEF CreditsSpec, OfScraping!Hs!Spec

\* and one is of the browsers.
LEMMA BrowsersLevel == CreditsSpec => OfRotation!Br!Spec \/ []~(account = "browsers")
<1>1. CreditsInit /\ (account = "browsers") => Transports!Browsers!Init
  BY DEF CreditsInit, Transports!TransportInit
<1>2. (account = "browsers") /\ [CreditsNext]_creditVars
        => [Transports!Browsers!Next]_(Transports!Browsers!vars) /\ (account = "browsers")'
  BY DEF CreditsNext, creditVars, transportVars, Transports!TransportNext, Transports!browserVars,
         Transports!fetchVars, Transports!Browsers!vars
<1>3. ~(account = "browsers") /\ [CreditsNext]_creditVars => (~(account = "browsers"))'
  BY AccountStays
<1> QED BY <1>1, <1>2, <1>3, SameBrowsers, PTL DEF CreditsSpec, OfRotation!Br!Spec

\* The token has its requests,
LEMMA TokenLevel == CreditsSpec => OfRotation!Access!Spec \/ []~(account = "token")
<1>1. CreditsInit /\ (account = "token") => Access!Init
  BY DEF CreditsInit
<1>2. (account = "token") /\ [CreditsNext]_creditVars
        => [Access!Next]_(Access!vars) /\ (account = "token")'
  BY DEF CreditsNext, creditVars, accessVars, Transports!TransportNext, Access!vars
<1>3. ~(account = "token") /\ [CreditsNext]_creditVars => (~(account = "token"))'
  BY AccountStays
<1> QED BY <1>1, <1>2, <1>3, SameAccess, PTL DEF CreditsSpec, OfRotation!Access!Spec

\* and so has the legacy key.
LEMMA LegacyLevel == CreditsSpec => OfSpending!Access!Spec \/ []~(account = "legacy")
<1>1. CreditsInit /\ (account = "legacy") => LegacyAccess!Init
  BY DEF CreditsInit
<1>2. (account = "legacy") /\ [CreditsNext]_creditVars
        => [LegacyAccess!Next]_(LegacyAccess!vars) /\ (account = "legacy")'
  BY DEF CreditsNext, creditVars, accessVars, Transports!TransportNext, LegacyAccess!vars
<1>3. ~(account = "legacy") /\ [CreditsNext]_creditVars => (~(account = "legacy"))'
  BY AccountStays
<1> QED BY <1>1, <1>2, <1>3, SameLegacy, PTL DEF CreditsSpec, OfSpending!Access!Spec

\* Whatever the account, the ledger is used as it is used alone.
LEMMA LedgerInEveryAccount == CreditsSpec => Spec
<1>1. CreditsInit => Init
  BY DEF CreditsInit
<1>2. [CreditsNext]_creditVars => [Next]_vars
  BY DEF CreditsNext, creditVars, Transports!TransportNext
<1> QED BY <1>1, <1>2, PTL DEF CreditsSpec, Spec

-----------------------------------------------------------------------------
(* The properties of the run.                                              *)

\* The limit of Bright Data, its bill and its single probe hold in the run as a whole.
THEOREM LedgerHolds == CreditsSpec => [](LimitKept /\ BillWithinLimit /\ SingleProbe)
BY LedgerInEveryAccount, LimitIsKept, BillIsBounded, OneProbe, PTL

\* Whatever is counted is counted rightly, in the run as a whole: no pool spends more
\* than its limits and what is under way allow, every bill is in its file or lost, keys
\* are not out without cause, the tokens keep their quota, their rate and their books,
\* and the transports of a refresh their budget, their attribution and their circuits.
THEOREM AccountsHold == CreditsSpec => []AccountsAreKept
<1>1. CreditsSpec => [](account # "spending" => Rotation!TypeOK)
  <2>1. OfRotation!PoolAssumption
    BY InstancesFit
  <2>2. OfRotation!Spec => []OfRotation!PoolSound
    BY <2>1, OfRotation!PoolStaysSound, PTL
  <2>3. OfRotation!PoolSound => OfRotation!TypeOK
    BY DEF OfRotation!PoolSound
  <2> QED BY <2>2, <2>3, RotationLevel, SameRotation, PTL
<1>2. CreditsSpec => [](account = "spending" =>
                          Spending!TypeOK /\ Spending!OverspendBounded /\ Spending!BillsCounted)
  <2>1. OfSpending!PoolAssumption
    BY InstancesFit
  <2>2. OfSpending!Spec => []OfSpending!PoolSound
    BY <2>1, OfSpending!PoolStaysSound, PTL
  <2>3. OfSpending!PoolSound => OfSpending!TypeOK
    BY DEF OfSpending!PoolSound
  <2>4. OfSpending!Spec => []OfSpending!OverspendBounded
    BY <2>1, OfSpending!OverspendIsBounded, PTL
  <2>5. OfSpending!Spec => []OfSpending!BillsCounted
    BY <2>1, OfSpending!EveryBillIsCounted, PTL
  <2> QED BY <2>2, <2>3, <2>4, <2>5, SpendingLevel, SameSpending, PTL
<1>3. CreditsSpec => [](account = "rotation" => Rotation!FewKeysOutWithoutCause)
  <2>1. OfRotation!PoolAssumption
    BY InstancesFit
  <2>2. OfRotation!Spec => []OfRotation!FewKeysOutWithoutCause
    BY <2>1, OfRotation!FewKeysAreOutWithoutCause, PTL
  <2>3. account = "rotation" => account # "spending"
    OBVIOUS
  <2> QED BY <2>2, <2>3, RotationLevel, SameRotation, PTL
<1>4. CreditsSpec =>
        [](account \notin {"browsers", "proxied", "scraped"} =>
             /\ Transports!HsReplay!TypeOK /\ Transports!HsReplay!OneProbe
             /\ Transports!HsReplay!OneFetchPerSnapshot
             /\ Transports!HsReplay!ScrapeBudgetKept
             /\ Transports!HsReplay!AttributionIsTrue
             /\ Transports!HsReplay!GivesUpRightly)
  <2>1. OfRotation!Hs!TransportAssumption
    BY InstancesFit
  <2>2. OfRotation!Hs!Spec =>
          [](/\ OfRotation!Hs!TypeOK /\ OfRotation!Hs!OneProbe
             /\ OfRotation!Hs!OneFetchPerSnapshot /\ OfRotation!Hs!ScrapeBudgetKept
             /\ OfRotation!Hs!GivesUpRightly /\ OfRotation!Hs!AttributionIsTrue)
    BY <2>1, OfRotation!TransportIsKept, PTL
  <2> QED BY <2>2, HsReplayLevel, SameHsReplay, PTL
<1>5. CreditsSpec =>
        [](account = "proxied" =>
             /\ Transports!ProxyOnly!TypeOK /\ Transports!ProxyOnly!OneProbe
             /\ Transports!ProxyOnly!OneFetchPerSnapshot
             /\ Transports!ProxyOnly!GivesUpRightly
             /\ Transports!ProxyOnly!AttributionIsTrue)
  <2>1. OfSpending!Hs!TransportAssumption
    BY InstancesFit
  <2>2. OfSpending!Hs!Spec =>
          [](/\ OfSpending!Hs!TypeOK /\ OfSpending!Hs!OneProbe
             /\ OfSpending!Hs!OneFetchPerSnapshot /\ OfSpending!Hs!ScrapeBudgetKept
             /\ OfSpending!Hs!GivesUpRightly /\ OfSpending!Hs!AttributionIsTrue)
    BY <2>1, OfSpending!TransportIsKept, PTL
  <2> QED BY <2>2, ProxyOnlyLevel, SameProxyOnly, PTL
<1>6. CreditsSpec =>
        [](account = "scraped" =>
             /\ Transports!Scraped!TypeOK /\ Transports!Scraped!OneFetchPerSnapshot
             /\ Transports!Scraped!ScrapeBudgetKept
             /\ Transports!Scraped!AttributionIsTrue)
  <2>1. OfScraping!Hs!TransportAssumption
    BY InstancesFit
  <2>2. OfScraping!Hs!Spec =>
          [](/\ OfScraping!Hs!TypeOK /\ OfScraping!Hs!OneProbe
             /\ OfScraping!Hs!OneFetchPerSnapshot /\ OfScraping!Hs!ScrapeBudgetKept
             /\ OfScraping!Hs!GivesUpRightly /\ OfScraping!Hs!AttributionIsTrue)
    BY <2>1, OfScraping!TransportIsKept, PTL
  <2> QED BY <2>2, ScrapedLevel, SameScraped, PTL
<1>7. CreditsSpec =>
        [](account = "browsers" =>
             /\ Transports!Browsers!TypeOK /\ Transports!Browsers!HammeringBounded
             /\ Transports!Browsers!GivesUpLate)
  <2>1. OfRotation!Br!RotationAssumption
    BY InstancesFit
  <2>2. OfRotation!Br!Spec =>
          [](/\ OfRotation!Br!TypeOK /\ OfRotation!Br!HammeringBounded
             /\ OfRotation!Br!GivesUpLate)
    BY <2>1, OfRotation!RotationIsKept, PTL
  <2> QED BY <2>2, BrowsersLevel, SameBrowsers, PTL
<1>8. CreditsSpec =>
        [](account = "token" =>
             /\ Access!TypeOK /\ Access!QuotaKept /\ Access!RateKept /\ Access!BooksAddUp
             /\ Access!LastUsedIsRecent)
  <2>1. OfRotation!Access!AccessAssumption
    BY InstancesFit
  <2>2. OfRotation!Access!Spec => [](OfRotation!AccessSound /\ OfRotation!Access!TypeOK)
    BY <2>1, OfRotation!AccessStaysSound, PTL
  <2>3. OfRotation!Access!Spec => []OfRotation!Access!QuotaKept
    BY <2>1, OfRotation!QuotaIsKept, PTL
  <2>4. OfRotation!Access!Spec => []OfRotation!Access!RateKept
    BY <2>1, OfRotation!RateIsKept, PTL
  <2>5. OfRotation!Access!Spec => []OfRotation!Access!BooksAddUp
    BY <2>1, OfRotation!TheBooksAddUp, PTL
  <2>6. OfRotation!Access!Spec => []OfRotation!Access!LastUsedIsRecent
    BY <2>1, OfRotation!LastUseIsRecent, PTL
  <2> QED BY <2>2, <2>3, <2>4, <2>5, <2>6, TokenLevel, SameAccess, PTL
<1>9. CreditsSpec =>
        [](account = "legacy" =>
             LegacyAccess!TypeOK /\ LegacyAccess!QuotaKept /\ LegacyAccess!RateKept)
  <2>1. OfSpending!Access!AccessAssumption
    BY InstancesFit
  <2>2. OfSpending!Access!Spec => [](OfSpending!AccessSound /\ OfSpending!Access!TypeOK)
    BY <2>1, OfSpending!AccessStaysSound, PTL
  <2>3. OfSpending!Access!Spec => []OfSpending!Access!QuotaKept
    BY <2>1, OfSpending!QuotaIsKept, PTL
  <2>4. OfSpending!Access!Spec => []OfSpending!Access!RateKept
    BY <2>1, OfSpending!RateIsKept, PTL
  <2> QED BY <2>2, <2>3, <2>4, LegacyLevel, SameLegacy, PTL
<1>10. /\ account \notin {"browsers", "proxied", "scraped"} =>
            /\ Transports!HsReplay!TypeOK /\ Transports!HsReplay!OneProbe
            /\ Transports!HsReplay!OneFetchPerSnapshot
            /\ Transports!HsReplay!ScrapeBudgetKept
            /\ Transports!HsReplay!AttributionIsTrue
            /\ Transports!HsReplay!GivesUpRightly
       /\ account = "proxied" =>
            /\ Transports!ProxyOnly!TypeOK /\ Transports!ProxyOnly!OneProbe
            /\ Transports!ProxyOnly!OneFetchPerSnapshot
            /\ Transports!ProxyOnly!GivesUpRightly
            /\ Transports!ProxyOnly!AttributionIsTrue
       /\ account = "scraped" =>
            /\ Transports!Scraped!TypeOK /\ Transports!Scraped!OneFetchPerSnapshot
            /\ Transports!Scraped!ScrapeBudgetKept
            /\ Transports!Scraped!AttributionIsTrue
       /\ account = "browsers" =>
            /\ Transports!Browsers!TypeOK /\ Transports!Browsers!HammeringBounded
            /\ Transports!Browsers!GivesUpLate
       => Transports!AccountsKept(account)
  BY DEF Transports!AccountsKept
<1> QED BY <1>1, <1>2, <1>3, <1>4, <1>5, <1>6, <1>7, <1>8, <1>9, <1>10, PTL
        DEF AccountsAreKept

\* What was refused stays out, in the run as a whole: a key that is out until its period
\* turns, the proxy for the rest of the refresh, a spoiled backend for its source, and a
\* token that was revoked for good.
THEOREM RefusalsStand == CreditsSpec => RefusedStaysOut
<1>1. CreditsSpec => [][account = "rotation" => Rotation!ExhaustedStaysOutStep]_creditVars
  <2>1. OfRotation!PoolAssumption
    BY InstancesFit
  <2>2. OfRotation!Spec => [][OfRotation!ExhaustedStaysOutStep]_(OfRotation!vars)
    BY <2>1, OfRotation!ExhaustedKeyStaysOut, PTL DEF OfRotation!ExhaustedStaysOut
  <2>3. UNCHANGED OfRotation!vars => Rotation!ExhaustedStaysOutStep
    BY DEF OfRotation!vars, Rotation!ExhaustedStaysOutStep
  <2>4. account = "rotation" => account # "spending"
    OBVIOUS
  <2> QED BY <2>2, <2>3, <2>4, RotationLevel, SameRotation, PTL
<1>2. CreditsSpec =>
        [][account = "hsreplay" => Transports!HsReplay!RefusedProxyRestsStep]_creditVars
  <2>1. OfRotation!Hs!Spec => [][OfRotation!Hs!RefusedProxyRestsStep]_(OfRotation!Hs!vars)
    BY OfRotation!RefusedProxyRests, PTL
  <2>2. UNCHANGED OfRotation!Hs!vars => Transports!HsReplay!RefusedProxyRestsStep
    BY DEF OfRotation!Hs!vars, Transports!HsReplay!RefusedProxyRestsStep
  <2>3. account = "hsreplay" => account \notin {"browsers", "proxied", "scraped"}
    OBVIOUS
  <2> QED BY <2>1, <2>2, <2>3, HsReplayLevel, SameHsReplay, PTL
<1>3. CreditsSpec =>
        [][account = "proxied" => Transports!ProxyOnly!RefusedProxyRestsStep]_creditVars
  <2>1. OfSpending!Hs!Spec => [][OfSpending!Hs!RefusedProxyRestsStep]_(OfSpending!Hs!vars)
    BY OfSpending!RefusedProxyRests, PTL
  <2>2. UNCHANGED OfSpending!Hs!vars => Transports!ProxyOnly!RefusedProxyRestsStep
    BY DEF OfSpending!Hs!vars, Transports!ProxyOnly!RefusedProxyRestsStep
  <2> QED BY <2>1, <2>2, ProxyOnlyLevel, SameProxyOnly, PTL
<1>4. CreditsSpec =>
        [][account = "browsers" => Transports!Browsers!SpoiledRestsStep]_creditVars
  <2>1. OfRotation!Br!RotationAssumption
    BY InstancesFit
  <2>2. OfRotation!Br!Spec => [][OfRotation!Br!SpoiledRestsStep]_(OfRotation!Br!vars)
    BY <2>1, OfRotation!SpoiledBackendRests, PTL
  <2>3. UNCHANGED OfRotation!Br!vars => Transports!Browsers!SpoiledRestsStep
    BY DEF OfRotation!Br!vars, Transports!Browsers!SpoiledRestsStep
  <2> QED BY <2>2, <2>3, BrowsersLevel, SameBrowsers, PTL
<1>5. CreditsSpec => [][account = "token" => Access!RevokedStaysOutStep]_creditVars
  <2>1. OfRotation!Access!AccessAssumption
    BY InstancesFit
  <2>2. OfRotation!Access!Spec => [][OfRotation!Access!RevokedStaysOutStep]_(OfRotation!Access!vars)
    BY <2>1, OfRotation!RevocationIsFinal, PTL DEF OfRotation!Access!RevokedStaysOut
  <2>3. UNCHANGED OfRotation!Access!vars => Access!RevokedStaysOutStep
    BY DEF OfRotation!Access!vars, Access!RevokedStaysOutStep
  <2> QED BY <2>2, <2>3, TokenLevel, SameAccess, PTL
<1>6. /\ account = "hsreplay" => Transports!HsReplay!RefusedProxyRestsStep
      /\ account = "proxied" => Transports!ProxyOnly!RefusedProxyRestsStep
      /\ account = "browsers" => Transports!Browsers!SpoiledRestsStep
      => Transports!StaysOutStep(account)
  BY DEF Transports!StaysOutStep
<1> QED BY <1>1, <1>2, <1>3, <1>4, <1>5, <1>6, PTL DEF RefusedStaysOut
=============================================================================
