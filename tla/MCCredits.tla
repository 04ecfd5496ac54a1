----------------------------- MODULE MCCredits ------------------------------
(* The accounts of paid requests, checked in one run.  They share no       *)
(* state, so a behaviour is one of the Bright Data ledger, of a key pool,  *)
(* of a transport or of an API token; "account" says which.                *)
EXTENDS BrightDataBudget, TLC

CONSTANTS w1, w2

VARIABLES account, period, file, worker, credits, lost, refusedNow, losses,
          task, gate, cache, circuit, probe, place, scrapes, scrapeCredits,
          transports, scrapeSpent, unseen, through, failures, tries,
          clock, token, usage, lock, counter, request

MCWorkers == {w1, w2}
MCLimit == [k \in 1 .. 3 |-> 2]
\* The first key grants less than its limit.
MCQuota == [k \in 1 .. 3 |-> IF k = 1 THEN 1 ELSE 2]
\* The second key never refuses within the bounds of the property.
MCAmpleQuota == [k \in 1 .. 2 |-> IF k = 1 THEN 1 ELSE 7]
\* A request may cost the whole limit of a key.
MCCosts == {1, 2}

Rotation == INSTANCE KeyPool WITH
  Workers <- MCWorkers, Keys <- 1 .. 3, Limit <- MCLimit, Quota <- MCQuota,
  Costs <- MCCosts, AttemptLimit <- 3, MaxPeriods <- 2, MaxLost <- 0, spent <- credits

\* Processes may die, the file may be lost.
Spending == INSTANCE KeyPool WITH
  Workers <- MCWorkers, Keys <- 1 .. 2, Limit <- [k \in 1 .. 2 |-> 2],
  Quota <- MCAmpleQuota, Costs <- MCCosts, AttemptLimit <- 3, MaxPeriods <- 2,
  MaxLost <- 1, spent <- credits

Transports == INSTANCE MCTransports WITH
  requests <- scrapes, credits <- scrapeCredits, spent <- scrapeSpent

Access == INSTANCE ApiAccess WITH
  Requests <- {"a", "b"}, Legacy <- {}, Managers <- {"m", "n"}, Quota <- 1, Rate <- 1,
  Lifetime <- 2, Interval <- 2, Window <- 2, MonthLength <- 2, MaxWait <- 1, MaxTime <- 3,
  now <- clock

\* One of the requests comes with the legacy key.
LegacyAccess == INSTANCE ApiAccess WITH
  Requests <- {"a", "b"}, Legacy <- {"b"}, Managers <- {"m"}, Quota <- 1, Rate <- 1,
  Lifetime <- 2, Interval <- 2, Window <- 2, MonthLength <- 2, MaxWait <- 1, MaxTime <- 2,
  now <- clock

ASSUME AccountsAssumption ==
  /\ Rotation!PoolAssumption /\ Spending!PoolAssumption
  /\ Access!AccessAssumption /\ LegacyAccess!AccessAssumption
  /\ Transports!TransportsFit

poolVars == <<period, file, worker, credits, lost, refusedNow, losses>>
transportVars ==
  <<task, gate, cache, circuit, probe, place, scrapes, scrapeCredits, transports,
    scrapeSpent, unseen, through, failures, tries>>
accessVars == <<clock, token, usage, lock, counter, request>>
creditVars == <<vars, account, poolVars, transportVars, accessVars>>

CreditsInit ==
  /\ Init
  /\ account \in {"ledger", "rotation", "spending", "token", "legacy"}
                 \union Transports!TransportLevels
  /\ IF account = "spending" THEN Spending!Init ELSE Rotation!Init
  /\ Transports!TransportInit(account)
  /\ IF account = "legacy" THEN LegacyAccess!Init ELSE Access!Init

CreditsNext ==
  /\ UNCHANGED account
  /\ \/ account = "ledger" /\ Next /\ UNCHANGED <<poolVars, transportVars, accessVars>>
     \/ account = "rotation" /\ Rotation!Next /\ UNCHANGED <<vars, transportVars, accessVars>>
     \/ account = "spending" /\ Spending!Next /\ UNCHANGED <<vars, transportVars, accessVars>>
     \/ Transports!TransportNext(account) /\ UNCHANGED <<vars, poolVars, accessVars>>
     \/ account = "token" /\ Access!Next /\ UNCHANGED <<vars, poolVars, transportVars>>
     \/ account = "legacy" /\ LegacyAccess!Next /\ UNCHANGED <<vars, poolVars, transportVars>>

CreditsSpec == CreditsInit /\ [][CreditsNext]_creditVars

\* KeyPool's OverspendBounded, BillsCounted and FewKeysOutWithoutCause: the
\* provider bills a key no more than one request of each scrape beyond its limit
\* and what was lost, no bill is dropped from the count, and a turn of the period
\* costs at most one usable key per scrape.  HsReplayTransport's OneProbe,
\* OneFetchPerSnapshot, ScrapeBudgetKept, GivesUpRightly and AttributionIsTrue: a
\* snapshot is fetched once, within the budget of Scrape.do, and reported with the
\* channel it came through.  BackendRotation's HammeringBounded and GivesUpLate:
\* a failing backend is left alone, and nothing is given up before all was tried.
\* ApiAccess's QuotaKept, RateKept, BooksAddUp and LastUsedIsRecent.
AccountsAreKept ==
  /\ account # "spending" => Rotation!TypeOK
  /\ account = "spending" =>
       Spending!TypeOK /\ Spending!OverspendBounded /\ Spending!BillsCounted
  /\ account = "rotation" => Rotation!FewKeysOutWithoutCause
  /\ Transports!AccountsKept(account)
  /\ account = "token" =>
       /\ Access!TypeOK /\ Access!QuotaKept /\ Access!RateKept /\ Access!BooksAddUp
       /\ Access!LastUsedIsRecent
  /\ account = "legacy" =>
       LegacyAccess!TypeOK /\ LegacyAccess!QuotaKept /\ LegacyAccess!RateKept

\* Nobody turns to what has refused: KeyPool's ExhaustedStaysOut for a key in its
\* period, HsReplayTransport's RefusedProxyRests for the proxy of a refresh,
\* BackendRotation's SpoiledRests for a backend of a page, ApiAccess's
\* RevokedStaysOut for a token.
RefusedStaysOut ==
  [][/\ account = "rotation" => Rotation!ExhaustedStaysOutStep
     /\ Transports!StaysOutStep(account)
     /\ account = "token" => Access!RevokedStaysOutStep]_creditVars

\* Times and bills of reservations that are gone are never read again; of a
\* bill only its month matters.
LiveView ==
  <<now, initialized, spent, carried, process,
    [ledger EXCEPT !.at = [r \in Requests |-> IF r \in ledger.reserved
                                             THEN ledger.at[r] ELSE 0]],
    [r \in ledger.reserved |-> <<paid[r] # 0, PaidThisMonth(r)>>], account, poolVars,
    transportVars, accessVars>>

Symmetry == Permutations(Requests) \union Permutations(MCWorkers)
=============================================================================
