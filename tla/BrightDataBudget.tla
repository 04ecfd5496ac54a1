-------------------------- MODULE BrightDataBudget --------------------------
(***************************************************************************)
(* The ledger of the paid Bright Data fallback (app/brightdata_state.py):  *)
(* worker processes reserve a request, send it (app/brightdata_backend.py) *)
(* and finish the reservation.  The ledger file is read and replaced under *)
(* a flock, so each operation is one step; the caller reads the time       *)
(* before it waits for the lock.                                           *)
(*                                                                         *)
(* "spent", "paid" and "carried" are the provider's side of the account,   *)
(* which the program never sees: they say what the ledger is for.  The     *)
(* provider bills by the calendar month; the ledger turns its month only   *)
(* when a request is reserved.                                             *)
(***************************************************************************)
EXTENDS Integers, FiniteSets

CONSTANTS
  Requests,        \* reservation ids (one is free again once it is forgotten)
  Limit,           \* billable requests per month
  Threshold,       \* consecutive failures that open the circuit
  Cooldown,        \* how long it stays open
  Stale,           \* age at which a reservation is given up
  MonthLength,     \* moments per accounting period
  MaxWait,         \* bound: how long a caller waits for the lock
  MaxTime,         \* bound: the last moment
  MaxAttempts      \* bound: attempts of a period

ASSUME LedgerAssumption ==
  /\ Limit \in Nat \ {0}
  /\ Threshold \in Nat \ {0}
  /\ Cooldown \in Nat \ {0}
  /\ Stale \in Nat \ {0}
  /\ MonthLength \in Nat \ {0}
  /\ Stale <= MonthLength
  /\ MaxWait \in Nat
  /\ MaxTime \in Nat
  /\ MaxAttempts \in Nat

VARIABLES
  now,             \* the time; moments are positive, 0 stands for none
  initialized,     \* usage.json exists
  ledger,          \* its content
  process,         \* what the process that holds a reservation is doing
  paid,            \* when the provider billed the request, 0 for not yet
  spent,           \* requests the provider billed in this calendar month
  carried          \* those of them the ledger charged to an earlier period

bills == <<paid, spent, carried>>
vars == <<now, initialized, ledger, process, bills>>

-----------------------------------------------------------------------------
Period(m) == m \div MonthLength

\* The caller took the time at most MaxWait before it got the lock.
Moments == {m \in 1 .. now : now - m <= MaxWait}

Ledgers ==
  [period : Nat, billed : Nat, attempts : Nat, successes : Nat,
   failures : Nat, openUntil : Nat, reserved : SUBSET Requests,
   at : [Requests -> Nat]]

TypeOK ==
  /\ now \in Nat \ {0}
  /\ initialized \in BOOLEAN
  /\ ledger \in Ledgers
  /\ IsFiniteSet(ledger.reserved)
  /\ process \in [Requests -> {"none", "reserved"}]
  /\ paid \in [Requests -> Nat]
  /\ spent \in Nat
  /\ carried \in Nat

EmptyLedger ==
  [period |-> 0, billed |-> 0, attempts |-> 0, successes |-> 0,
   failures |-> 0, openUntil |-> 0, reserved |-> {},
   at |-> [r \in Requests |-> 0]]

Init ==
  /\ now = 1
  /\ initialized = FALSE
  /\ ledger = EmptyLedger
  /\ process = [r \in Requests |-> "none"]
  /\ paid = [r \in Requests |-> 0]
  /\ spent = 0
  /\ carried = 0

-----------------------------------------------------------------------------
\* _load_state: a ledger of a later month cannot be used.
Loadable(m) == initialized /\ ledger.period <= Period(m)

Turns(m) == ledger.period < Period(m)

\* Mutant: the new period starts without the reservations of the old one.
RolledOverWithoutReservations(m) ==
  IF ~Turns(m) THEN ledger
  ELSE [ledger EXCEPT !.period = Period(m), !.billed = 0, !.successes = 0,
                      !.attempts = 0, !.reserved = {}]

\* A new month keeps the requests in flight and the state of the circuit.
RolledOver(m) ==
  IF ~Turns(m) THEN ledger
  ELSE [ledger EXCEPT !.period = Period(m), !.billed = 0, !.successes = 0,
                      !.attempts = Cardinality(ledger.reserved)]

\* _expire_stale_reservations: a request nobody reports on counts as billed
\* and as failed.
StaleOnes(l, m) == {r \in l.reserved : l.at[r] + Stale <= m}

Opened(l, failures, m) ==
  IF failures >= Threshold THEN m + Cooldown ELSE l.openUntil

Expired(l, m) ==
  LET n == Cardinality(StaleOnes(l, m))
  IN  IF n = 0 THEN l
      ELSE [l EXCEPT !.reserved = l.reserved \ StaleOnes(l, m),
                     !.billed = l.billed + n,
                     !.failures = l.failures + n,
                     !.openUntil = Opened(l, l.failures + n, m)]

\* What reserve_request decides on.
Current(m) == Expired(RolledOver(m), m)

IsOpen(l, m) == l.openUntil # 0 /\ m < l.openUntil

\* Mutant: requests in flight are not counted.
ExhaustedByBills(l) == l.billed >= Limit

Exhausted(l) == l.billed + Cardinality(l.reserved) >= Limit

\* Mutant: a tripped circuit admits as many requests as a closed one.
CapacityOfClosedCircuit(l) == Threshold

\* A closed circuit admits what it can still afford to see fail, a tripped
\* one a single probe.
Capacity(l) ==
  IF l.failures >= Threshold THEN 1 ELSE Threshold - l.failures

\* A circuit that is over, or that lost its deadline, is closed or reopened.
Closes(l) == l.failures < Threshold

Reopens(l) == l.openUntil = 0 /\ l.failures >= Threshold

Granted(l, m) ==
  /\ ~IsOpen(l, m)
  /\ ~Exhausted(l)
  /\ ~Reopens(l)
  /\ Cardinality(l.reserved) < Capacity(l)

Settled(l) == IF Closes(l) THEN [l EXCEPT !.openUntil = 0] ELSE l

\* What a refused caller leaves in the file.
Refused(l, m) ==
  IF IsOpen(l, m) THEN l
  ELSE IF ~Exhausted(l) /\ Reopens(l) THEN [l EXCEPT !.openUntil = m + Cooldown]
  ELSE Settled(l)

PaidThisMonth(r) == paid[r] # 0 /\ Period(paid[r]) = Period(now)

-----------------------------------------------------------------------------
\* initialize_usage_state: once, from the operator's baseline, which is what
\* the provider has billed in the month of m.
Initialize(m, baseline) ==
  /\ ~initialized
  /\ initialized' = TRUE
  /\ ledger' = [EmptyLedger EXCEPT !.period = Period(m), !.billed = baseline]
  /\ spent' = IF Period(m) = Period(now) THEN baseline ELSE 0
  /\ UNCHANGED <<now, process, paid, carried>>

\* reserve_request.
Reserve(r, m) ==
  /\ Loadable(m)
  /\ process[r] = "none"
  /\ r \notin ledger.reserved
  /\ Granted(Current(m), m)
  /\ Current(m).attempts < MaxAttempts
  /\ ledger' = [Settled(Current(m)) EXCEPT
                  !.reserved = @ \union {r}, !.at = [@ EXCEPT ![r] = m],
                  !.attempts = @ + 1]
  /\ process' = [process EXCEPT ![r] = "reserved"]
  /\ paid' = [paid EXCEPT ![r] = 0]
  /\ UNCHANGED <<now, initialized, spent, carried>>

RefuseReserve(m) ==
  /\ Loadable(m)
  /\ ~Granted(Current(m), m)
  /\ ledger' = Refused(Current(m), m)
  /\ UNCHANGED <<now, initialized, process, bills>>

\* scrape_url_sync: the request reaches the provider, who bills it in the
\* month of that moment.  It is sent right after it was reserved, and its
\* timeout is far shorter than the age at which a reservation is stale.
Bill(r) ==
  /\ process[r] = "reserved"
  /\ r \in ledger.reserved
  /\ now < ledger.at[r] + Stale
  /\ paid[r] = 0
  /\ paid' = [paid EXCEPT ![r] = now]
  /\ spent' = spent + 1
  /\ UNCHANGED <<now, initialized, ledger, process, carried>>

Finished(l, r, m, billed, succeeded) ==
  [l EXCEPT !.reserved = @ \ {r},
            !.billed = IF billed THEN @ + 1 ELSE @,
            !.successes = IF succeeded THEN @ + 1 ELSE @,
            !.failures = IF succeeded THEN 0 ELSE @ + 1,
            !.openUntil = IF succeeded THEN 0
                          ELSE Opened(l, l.failures + 1, m)]

\* finish_request: only a request known to be free is not charged.  It does
\* not turn the month, so a request billed in the new month is charged to the
\* old one if nobody has reserved since.
Finish(r, m, billed, succeeded) ==
  /\ process[r] = "reserved"
  /\ Loadable(m)
  /\ r \in ledger.reserved
  /\ paid[r] # 0 => billed
  /\ ledger' = Finished(ledger, r, m, billed, succeeded)
  /\ process' = [process EXCEPT ![r] = "none"]
  /\ carried' = IF PaidThisMonth(r) /\ ledger.period < Period(now)
                THEN carried + 1 ELSE carried
  /\ UNCHANGED <<now, initialized, paid, spent>>

\* The reservation was given up meanwhile, or another worker has turned the
\* month since the time was taken: nothing is written.
FinishUnavailable(r, m) ==
  /\ process[r] = "reserved"
  /\ ~Loadable(m) \/ r \notin ledger.reserved
  /\ process' = [process EXCEPT ![r] = "none"]
  /\ UNCHANGED <<now, initialized, ledger, bills>>

\* The worker dies between reserve_request and finish_request.
Crash(r) ==
  /\ process[r] = "reserved"
  /\ process' = [process EXCEPT ![r] = "none"]
  /\ UNCHANGED <<now, initialized, ledger, bills>>

\* Time passes; with the month the provider's count starts again.
Tick ==
  /\ now < MaxTime
  /\ now' = now + 1
  /\ IF Period(now + 1) = Period(now) THEN UNCHANGED <<spent, carried>>
     ELSE spent' = 0 /\ carried' = 0
  /\ UNCHANGED <<initialized, ledger, process, paid>>

Next ==
  \/ \E m \in Moments :
       \/ \E baseline \in 0 .. Limit : Initialize(m, baseline)
       \/ RefuseReserve(m)
       \/ \E r \in Requests :
            \/ Reserve(r, m)
            \/ FinishUnavailable(r, m)
            \/ \E billed, succeeded \in BOOLEAN : Finish(r, m, billed, succeeded)
  \/ \E r \in Requests : Bill(r) \/ Crash(r)
  \/ Tick

Spec == Init /\ [][Next]_vars

-----------------------------------------------------------------------------
\* Requests that were billed and requests in flight never exceed the monthly
\* limit, across expiries, late answers and the turn of the month.
LimitKept == ledger.billed + Cardinality(ledger.reserved) <= Limit

\* In a calendar month the provider bills no more than the limit beyond the
\* requests that were charged to the month before because they were finished
\* before the ledger turned; those fit into what was left of that month.  So
\* it is when workers die after sending a request or answers come too late.
BillWithinLimit == spent <= Limit + carried /\ carried <= Limit

\* The circuit admits no more requests than may fail before it opens, and
\* after it tripped one probe at a time, however many workers try.
SingleProbe ==
  /\ ledger.failures < Threshold
       => ledger.failures + Cardinality(ledger.reserved) <= Threshold
  /\ ledger.failures >= Threshold => Cardinality(ledger.reserved) <= 1

\* The counters of the ledger agree: every success and every request in
\* flight is one of the attempts, also right after the month turned.
AttemptsCover ==
  ledger.successes + Cardinality(ledger.reserved) <= ledger.attempts

\* A tripped circuit that is not probed has a deadline: it is never left
\* tripped and open to everybody.
TrippedHasDeadline == ledger.failures >= Threshold => ledger.openUntil # 0

-----------------------------------------------------------------------------
\* The inductive invariant.  What the operations keep of any ledger l:
Sound(l) ==
  /\ l.billed + Cardinality(l.reserved) <= Limit
  /\ l.failures < Threshold
       => l.failures + Cardinality(l.reserved) <= Threshold
  /\ l.failures >= Threshold
       => Cardinality(l.reserved) <= 1 /\ l.openUntil # 0
  /\ l.successes + Cardinality(l.reserved) <= l.attempts

\* What a ledger l has of this month's bills, "count" of which it has not
\* charged to an earlier period.
Charged(l) == IF l.period = Period(now) THEN l.billed ELSE 0

Unsettled(l) == {r \in l.reserved : PaidThisMonth(r)}

Covers(l, count) == count <= Charged(l) + Cardinality(Unsettled(l))

\* Bills charged to an earlier period went to the month before, where they
\* are among what was billed.
CarriedFit(l) ==
  carried > 0 =>
    /\ carried <= Limit
    /\ Period(now) <= l.period + 1
    /\ l.period < Period(now) => carried <= l.billed

\* A request in flight was reserved in the ledger's period or before, and
\* billed before its reservation was stale.
Timely(l) ==
  /\ l.period <= Period(now)
  /\ \A r \in l.reserved :
       /\ l.at[r] <= now /\ Period(l.at[r]) <= l.period
       /\ paid[r] # 0 => paid[r] <= now /\ paid[r] < l.at[r] + Stale

Inv ==
  /\ Sound(ledger)
  /\ Covers(ledger, spent - carried)
  /\ CarriedFit(ledger)
  /\ Timely(ledger)
  /\ ~initialized => ledger.reserved = {} /\ carried = 0
=============================================================================
