----------------------------- MODULE MCTransports -----------------------------
(***************************************************************************)
(* Instances of HsReplayTransport and BackendRotation for the run          *)
(* "credits".  "hsreplay" has three tasks, two of one source, and ends its *)
(* channels with Scrape.do; "proxied" has only channels that need the      *)
(* proxy, so that a task can blame it; "scraped" repeats requests without  *)
(* it; "browsers" fetches two pages of one site with a backend missing.    *)
(***************************************************************************)
EXTENDS Integers, Sequences, FiniteSets

VARIABLES task, gate, cache, circuit, probe, place, requests, credits, transports,
          spent, unseen, through, failures, tries

fetchVars == <<gate, cache, probe, place, requests, credits, transports, spent, unseen, through>>
browserVars == <<failures, tries>>
transportVars == <<task, circuit, fetchVars, browserVars>>

Tasks == {"a", "b", "c"}
KeyOf == [t \in Tasks |-> IF t = "a" THEN 1 ELSE 2]
SourceOf == [t \in Tasks |-> IF t = "b" THEN "u" ELSE "s"]

HsReplay == INSTANCE HsReplayTransport WITH
  Channels <- <<"curl_cffi", "scrape_do">>, Proxied <- {"curl_cffi"},
  MaxRequests <- 2, MaxCredits <- 2, Costs <- {1, 3}, Attempts <- 1

ProxyOnly == INSTANCE HsReplayTransport WITH
  Tasks <- {"a", "b"}, Channels <- <<"flaresolverr", "curl_cffi">>,
  Proxied <- {"curl_cffi", "flaresolverr"},
  MaxRequests <- 0, MaxCredits <- 0, Costs <- {1}, Attempts <- 2

Scraped == INSTANCE HsReplayTransport WITH
  Tasks <- {"a", "b"}, Channels <- <<"direct_unproxied", "scrape_do">>, Proxied <- {},
  MaxRequests <- 3, MaxCredits <- 3, Costs <- {1, 3}, Attempts <- 2

Sources == {"a", "b"}

Browsers == INSTANCE BackendRotation WITH
  SiteOf <- [s \in Sources |-> "x"], Backends <- <<"patch", "gone", "flare">>,
  Proxied <- {"patch"}, Missing <- {"gone"}, Rounds <- 2, Threshold <- 2,
  Faults <- {"timeout"}

TransportsFit ==
  /\ HsReplay!TransportAssumption /\ ProxyOnly!TransportAssumption
  /\ Scraped!TransportAssumption /\ Browsers!RotationAssumption

TransportLevels == {"hsreplay", "proxied", "scraped", "browsers"}

TransportInit(account) ==
  CASE account = "proxied" -> ProxyOnly!Init /\ failures = 0 /\ tries = 0
    [] account = "scraped" -> Scraped!Init /\ failures = 0 /\ tries = 0
    [] account = "browsers" ->
         /\ Browsers!Init /\ gate = 0 /\ cache = 0 /\ probe = 0 /\ place = 0
         /\ requests = 0 /\ credits = 0 /\ transports = 0
         /\ spent = 0 /\ unseen = 0 /\ through = 0
    [] OTHER -> HsReplay!Init /\ failures = 0 /\ tries = 0

TransportNext(account) ==
  \/ account = "hsreplay" /\ HsReplay!Next /\ UNCHANGED browserVars
  \/ account = "proxied" /\ ProxyOnly!Next /\ UNCHANGED browserVars
  \/ account = "scraped" /\ Scraped!Next /\ UNCHANGED browserVars
  \/ account = "browsers" /\ Browsers!Next /\ UNCHANGED fetchVars

AccountsKept(account) ==
  /\ account \notin {"browsers", "proxied", "scraped"} =>
       /\ HsReplay!TypeOK /\ HsReplay!OneProbe /\ HsReplay!OneFetchPerSnapshot
       /\ HsReplay!ScrapeBudgetKept /\ HsReplay!AttributionIsTrue /\ HsReplay!GivesUpRightly
  /\ account = "proxied" =>
       /\ ProxyOnly!TypeOK /\ ProxyOnly!OneProbe /\ ProxyOnly!OneFetchPerSnapshot
       /\ ProxyOnly!GivesUpRightly /\ ProxyOnly!AttributionIsTrue
  /\ account = "scraped" =>
       /\ Scraped!TypeOK /\ Scraped!OneFetchPerSnapshot
       /\ Scraped!ScrapeBudgetKept /\ Scraped!AttributionIsTrue
  /\ account = "browsers" =>
       Browsers!TypeOK /\ Browsers!HammeringBounded /\ Browsers!GivesUpLate

StaysOutStep(account) ==
  /\ account = "hsreplay" => HsReplay!RefusedProxyRestsStep
  /\ account = "proxied" => ProxyOnly!RefusedProxyRestsStep
  /\ account = "browsers" => Browsers!SpoiledRestsStep
=============================================================================
