----------------------------- MODULE MCFetching ------------------------------
(***************************************************************************)
(* A refresh, the route of one fetch, the providers of one page and the     *)
(* reviews of what a refresh made: each is a step of the one before it, and *)
(* they are checked beside each other in one run, as "level" says.          *)
(* "refresh" has three sources: 1 an API source that needs the proxy, 2 a   *)
(* browser source that needs it, 3 an API source without proxy that is not  *)
(* authorized.  "paid" has two calls that name their source, both with the  *)
(* Firecrawl fallback, and an upload.                                       *)
(***************************************************************************)
EXTENDS RefreshRun, MCReviews

VARIABLES
  level,
  conf, pc, depth, within, reason, shadow, refused, candidate, routeCalls, saved, state,
  writes, opened, closed,
  asked, hsguru, at, profile, attempt, live, rotations, spare, turned, calls, failed,
  account, result

MCSources == 1 .. 3
MCProcess == [r \in Runs |-> "api"]
MCPhaseOf == [s \in Sources |-> IF s = 2 THEN 2 ELSE 1]
MCAuthorized == Sources \ {3}
MCRequests == {{}, {3}}

PaidCalls == INSTANCE RefreshRun WITH
  Sources <- 1 .. 2, Proxyless <- {}, Billed <- 1 .. 2, Enabled <- 1 .. 2,
  Authorized <- 1 .. 2, PhaseOf <- [s \in 1 .. 2 |-> 1], Phases <- 1, Parallel <- {1},
  Requests <- {{1}, {2}}, MaxUploads <- 1

\* Every combination of settings a source can have: a standard card source is
\* an API-only HSReplay source outside the Firecrawl lists; a direct
\* confirmation is made of an API-only source; only HSGuru pages have the free
\* browser.
AllConfs ==
  {c \in [api : BOOLEAN, apiOnly : BOOLEAN, standard : BOOLEAN, login : BOOLEAN,
          primary : BOOLEAN, fallback : BOOLEAN, direct : BOOLEAN, quarantine : BOOLEAN,
          free : BOOLEAN, paid : BOOLEAN,
          mode : {"legacy", "shadow", "parsesunix", "invalid"}] :
     /\ (c.standard \/ c.direct) => c.apiOnly
     /\ (c.apiOnly \/ c.login) => c.api
     /\ c.standard => c.login /\ ~c.primary /\ ~c.fallback
     /\ c.free => ~c.login}

Route == INSTANCE FetchRoute WITH
  Confs <- AllConfs, MaxPerSource <- 2, Faults <- FALSE, calls <- routeCalls

\* The same fetch when a status may not be written and a new login may raise.
Faulty == INSTANCE FetchRoute WITH
  Confs <- AllConfs, MaxPerSource <- 2, Faults <- TRUE, calls <- routeCalls

\* Three keys and a floor of two attempts, where the number of keys decides; two and a
\* floor of one for Scrapfly.
Cascade == INSTANCE ProviderCascade WITH
  Keys <- {"k1", "k2", "k3"}, MinAttempts <- 2, ScrapflyKeys <- {"s1", "s2"}, MinTurns <- 1

\* What the theorems about a fetch, the cascade and the reviews assume holds of every
\* instance.
ASSUME FetchingAssumption ==
  /\ Route!FetchAssumption /\ Faulty!FetchAssumption /\ Cascade!CascadeAssumption
  /\ Quarantining!ReviewAssumption /\ Observing!ReviewAssumption /\ Judging!ReviewAssumption

routeVars == <<conf, pc, depth, within, reason, shadow, refused, candidate, routeCalls,
               saved, state, writes, opened, closed>>
cascadeVars == <<asked, hsguru, at, profile, attempt, live, rotations, spare, turned, calls,
                 failed, account, result>>
mcVars == <<level, vars, routeVars, cascadeVars, aiVars>>

MCInit ==
  /\ level \in {"refresh", "paid", "route", "faulty", "cascade"} \union ReviewLevels
  /\ IF level = "paid" THEN PaidCalls!Init ELSE Init
  /\ IF level \in {"route", "faulty"} THEN Route!Init
     ELSE conf = (CHOOSE c \in AllConfs : TRUE) /\ Route!Init
  /\ IF level = "cascade" THEN Cascade!Init
     ELSE asked = {} /\ live = {} /\ spare = {} /\ hsguru = FALSE /\ Cascade!Init
  /\ ReviewInit(level)

MCNext ==
  \/ level = "refresh" /\ Next /\ UNCHANGED <<level, routeVars, cascadeVars, aiVars>>
  \/ level = "paid" /\ PaidCalls!Next /\ UNCHANGED <<level, routeVars, cascadeVars, aiVars>>
  \/ level = "route" /\ Route!Next /\ UNCHANGED <<level, vars, cascadeVars, aiVars>>
  \/ level = "faulty" /\ Faulty!Next /\ UNCHANGED <<level, vars, cascadeVars, aiVars>>
  \/ level = "cascade" /\ Cascade!Next /\ UNCHANGED <<level, vars, routeVars, aiVars>>
  \/ ReviewNext(level) /\ UNCHANGED <<level, vars, routeVars, cascadeVars>>

MCSpec == MCInit /\ [][MCNext]_mcVars

-----------------------------------------------------------------------------
\* What a refresh records is true and complete: EverySourceAccounted,
\* SchedulesRespectSections and FreshIsPublished of RefreshRun.
AccountsAreTrue ==
  /\ level = "refresh" =>
       TypeOK /\ EverySourceAccounted /\ SchedulesRespectSections /\ FreshIsPublished
  /\ level = "paid" => PaidCalls!EverySourceAccounted /\ PaidCalls!FreshIsPublished

\* The money of a refresh, a fetch and a page is bounded, whatever fails:
\* SpendBounded of RefreshRun, OneFallback, RefusedStaysRefused and
\* ConfirmationIsFree of FetchRoute, CostOfAPage of ProviderCascade, LanesAreBounded
\* of AIReview.
SpendingIsBounded ==
  /\ level = "paid" => PaidCalls!SpendBounded
  /\ level = "route" =>
       Route!OneFallback /\ Route!RefusedStaysRefused /\ Route!ConfirmationIsFree
  /\ level = "faulty" => Faulty!OneFallback /\ Faulty!RefusedStaysRefused
  /\ level = "cascade" => Cascade!CostOfAPage
  /\ level = "quarantine" => Quarantining!LanesAreBounded
  /\ level = "observe" => Observing!LanesAreBounded

\* A fetch says what it did: PublishedIsReported, StandardAlwaysReports,
\* OnlyPassedIsSaved and ShadowEnds of FetchRoute; and a review says what it saw:
\* RejectionIsBacked, ReviewsBelong and FailuresAreDiagnosed of AIReview.
FetchesAreReported ==
  /\ level = "route" =>
       Route!TypeOK /\ Route!OnlyPassedIsSaved /\ Route!ShadowEnds /\ Route!PublishedIsReported
  /\ level = "faulty" => Faulty!PublishedIsReported /\ Faulty!StandardAlwaysReports
  /\ level = "quarantine" =>
       /\ Quarantining!TypeOK /\ Quarantining!RejectionIsBacked
       /\ Quarantining!ReviewsBelong /\ Quarantining!FailuresAreDiagnosed
  /\ level = "observe" => Observing!ReviewsBelong /\ Observing!FailuresAreDiagnosed
  /\ level = "verdict" => Judging!RejectionIsBacked /\ Judging!ReviewsBelong

\* The providers of a page are asked in their order, and all of them before the
\* page is given up: EveryProviderIsAsked and BrightDataIsAResort.
EveryProviderIsAsked ==
  level = "cascade" => Cascade!TypeOK /\ Cascade!EveryProviderIsAsked /\ Cascade!BrightDataIsAResort

\* A refusal, once found, holds: no source that needs a refused proxy is started
\* in its call (CircuitOutlivesPhase), a refused Scrape.do account is left alone
\* (AccountIsRespected), a fetch starts over only once and before it has saved or
\* paid anything (RetryIsClean), and no review is asked of a lane whose circuit is
\* open (CircuitHolds of AIReview).
RefusalsHold ==
  [][/\ level = "refresh" => CircuitOutlivesPhaseStep
     /\ level = "cascade" => Cascade!AccountIsRespectedStep
     /\ level = "route" => Route!RetryIsCleanStep
     /\ level = "quarantine" => Quarantining!CircuitHoldsStep]_mcVars
=============================================================================
