--------------------------- MODULE ProviderCascade ---------------------------
(***************************************************************************)
(* One call of the cascade of scrape providers (_scrape_sync of             *)
(* app/firecrawl_backend.py): Scrape.do with its profiles and its retry,    *)
(* Firecrawl with the rotation of its keys, Bright Data, Scrapfly with its  *)
(* profiles and the rotation of its keys in each.  A provider's answer ends *)
(* the call only if it is accepted.  What other calls do to the keys in the *)
(* meantime is the subject of KeyPool.                                      *)
(***************************************************************************)
EXTENDS Integers, Sequences, FiniteSets

CONSTANTS
  Keys,          \* the pool of Firecrawl keys
  MinAttempts,   \* the floor of their rotation: 8 in the code
  ScrapflyKeys,  \* the pool of Scrapfly keys
  MinTurns       \* the floor of their rotation in one profile: 4 in the code

CascadeAssumption ==
  /\ IsFiniteSet(Keys) /\ MinAttempts \in Nat
  /\ IsFiniteSet(ScrapflyKeys) /\ MinTurns \in Nat

\* The order of _scrape_sync.
Order == <<"scrape_do", "firecrawl", "brightdata", "scrapfly">>
Providers == {Order[i] : i \in DOMAIN Order}

VARIABLES
  asked,      \* the providers that are configured, allowed for the source and not skipped
  hsguru,     \* the source is HSGuru's: only the strongest profile is used
  at,         \* the provider whose turn it is
  profile,    \* 1 the standard profile, 2 the strong one
  attempt,    \* of the profile
  live,       \* Firecrawl keys not marked as exhausted
  rotations,  \* keys given up in this call
  spare,      \* Scrapfly keys not marked as exhausted
  turned,     \* and how often one was given up in this call
  calls,      \* history: requests to each provider
  failed,     \* providers that raised or whose answer was not accepted
  account,    \* Scrape.do has refused the account
  result      \* "none", the provider of the answer, or "raised"

vars == <<asked, hsguru, at, profile, attempt, live, rotations, spare, turned, calls, failed,
          account, result>>

FirstProfile(h) == IF h THEN 2 ELSE 1

TypeOK ==
  /\ asked \subseteq Providers /\ hsguru \in BOOLEAN /\ account \in BOOLEAN
  /\ at \in 1 .. 5 /\ profile \in 1 .. 2 /\ attempt \in Nat \ {0}
  /\ live \subseteq Keys /\ rotations \in Nat
  /\ spare \subseteq ScrapflyKeys /\ turned \in Nat
  /\ calls \in [Providers -> Nat] /\ failed \subseteq Providers
  /\ result \in Providers \cup {"none", "raised"}

Init ==
  /\ asked \in SUBSET Providers /\ hsguru \in BOOLEAN
  /\ at = 1 /\ profile = FirstProfile(hsguru) /\ attempt = 1
  /\ live \in SUBSET Keys /\ rotations = 0
  /\ spare \in SUBSET ScrapflyKeys /\ turned = 0
  /\ calls = [p \in Providers |-> 0] /\ failed = {} /\ account = FALSE /\ result = "none"

Turn(p) == result = "none" /\ at <= 4 /\ Order[at] = p /\ p \in asked
Paid(p) == calls' = [calls EXCEPT ![p] = @ + 1]
Advance == at' = at + 1 /\ profile' = FirstProfile(hsguru) /\ attempt' = 1
Stay == UNCHANGED <<at, profile, attempt, failed, result>>

\* The provider gave nothing that is accepted: the next one has its turn.
Fails(p) == failed' = failed \cup {p} /\ Advance /\ UNCHANGED result

\* _require_accepted_provider_result
Answers(p) ==
  \/ Fails(p)
  \/ result' = p /\ UNCHANGED <<failed, at, profile, attempt>>

\* Another profile of the provider is tried, if there is one.
NextProfile(p) ==
  IF profile = 1 THEN profile' = 2 /\ attempt' = 1 /\ UNCHANGED <<at, failed, result>>
  ELSE Fails(p)

\* A provider that is not configured, not allowed for the source or skipped.
Skip ==
  /\ result = "none" /\ at <= 4 /\ Order[at] \notin asked
  /\ Advance
  /\ UNCHANGED <<asked, hsguru, live, rotations, spare, turned, calls, failed, account, result>>

\* The strong profile has the same subscription: an account failure ends Scrape.do.
AccountFails == Fails("scrape_do") /\ account' = TRUE

\* A transient failure is repeated once, after the pause the provider asked for.
TransientFails ==
  IF attempt = 1 THEN attempt' = 2 /\ UNCHANGED <<at, profile, failed, result>>
  ELSE NextProfile("scrape_do")

\* One request of _scrape_via_scrape_do: an answer; an account failure; a transient one;
\* a blocked page, a content error or an unknown exception; a 403 of the target; any
\* other refused request.
ScrapeDo ==
  /\ Turn("scrape_do") /\ Paid("scrape_do")
  /\ \/ Answers("scrape_do") /\ UNCHANGED account
     \/ AccountFails
     \/ TransientFails /\ UNCHANGED account
     \/ NextProfile("scrape_do") /\ UNCHANGED account
     \/ Fails("scrape_do") /\ UNCHANGED account
  /\ UNCHANGED <<asked, hsguru, live, rotations, spare, turned>>

\* Mutant: the first exhausted key ends the rotation.
LimitOne == 1

\* attempt_limit of _scrape_via_firecrawl and of scrape_url_sync
AtLeast(n, m) == IF n > m THEN n ELSE m
Limit == AtLeast(Cardinality(Keys), MinAttempts)
ScrapflyLimit == AtLeast(Cardinality(ScrapflyKeys), MinTurns)

\* One key of _scrape_via_firecrawl: none is left, or too many were given up; it has no
\* credits and is marked; it fails otherwise; it answers.
Firecrawl ==
  /\ Turn("firecrawl")
  /\ IF live = {} \/ rotations = Limit
     THEN Fails("firecrawl") /\ UNCHANGED <<live, rotations, calls>>
     ELSE /\ Paid("firecrawl")
          /\ \/ \E k \in live : /\ live' = live \ {k} /\ rotations' = rotations + 1 /\ Stay
             \/ Answers("firecrawl") /\ UNCHANGED <<live, rotations>>
  /\ UNCHANGED <<asked, hsguru, spare, turned, account>>

\* Bright Data makes one request; its budget is the subject of BrightDataBudget.
BrightData ==
  /\ Turn("brightdata") /\ Paid("brightdata") /\ Answers("brightdata")
  /\ UNCHANGED <<asked, hsguru, live, rotations, spare, turned, account>>

\* The key has no credits and is marked: the profile is tried with another one.
TurnKey ==
  /\ \E k \in spare : spare' = spare \ {k}
  /\ turned' = turned + 1 /\ attempt' = attempt + 1
  /\ UNCHANGED <<at, profile, failed, result>>

\* One key of a profile of _scrape_via_scrapfly (scrape_url_sync): none is left, or the
\* profile has given up too many; it has no credits; it fails otherwise; it answers.
Scrapfly ==
  /\ Turn("scrapfly")
  /\ IF spare = {} \/ attempt > ScrapflyLimit
     THEN NextProfile("scrapfly") /\ UNCHANGED <<spare, turned, calls>>
     ELSE /\ Paid("scrapfly")
          /\ \/ TurnKey
             \/ (Answers("scrapfly") \/ NextProfile("scrapfly")) /\ UNCHANGED <<spare, turned>>
  /\ UNCHANGED <<asked, hsguru, live, rotations, account>>

\* All providers failed, or there is none: the call raises.
GiveUp ==
  /\ result = "none" /\ at = 5 /\ result' = "raised"
  /\ UNCHANGED <<asked, hsguru, at, profile, attempt, live, rotations, spare, turned, calls,
                 failed, account>>

Next == Skip \/ ScrapeDo \/ Firecrawl \/ BrightData \/ Scrapfly \/ GiveUp

Spec == Init /\ [][Next]_vars

\* The cascade gives up only after every provider it may ask has been asked, Firecrawl
\* with every key that had credits left, and none has given an accepted answer.
EveryProviderIsAsked ==
  /\ result = "raised" => failed = asked
  /\ "firecrawl" \in failed /\ calls["firecrawl"] = rotations => live = {}

Profiles == IF hsguru THEN 1 ELSE 2

\* What one page can cost, where HSGuru's have one profile and others two: Scrape.do two
\* requests a profile; Bright Data one; Firecrawl one and one more for each key given up;
\* Scrapfly the same with one a profile.  No key pool in any state makes it more than the
\* limit of the rotation, which each profile of Scrapfly has for itself.
CostOfAPage ==
  /\ calls["scrape_do"] <= 2 * Profiles
  /\ calls["brightdata"] <= 1
  /\ calls["firecrawl"] <= rotations + 1 /\ calls["firecrawl"] <= Limit
  /\ calls["scrapfly"] <= Profiles + turned /\ calls["scrapfly"] <= Profiles * ScrapflyLimit

\* docs/SCRAPE_PROVIDERS.md: Bright Data is asked only after Scrape.do and Firecrawl have
\* failed or are absent, and Scrapfly only after all three.
BrightDataIsAResort ==
  /\ calls["brightdata"] > 0 => asked \cap {"scrape_do", "firecrawl"} \subseteq failed
  /\ calls["scrapfly"] > 0 => asked \ {"scrapfly"} \subseteq failed

\* An account failure ends the requests to Scrape.do.
AccountIsRespectedStep == account => calls'["scrape_do"] = calls["scrape_do"]
AccountIsRespected == [][AccountIsRespectedStep]_vars
=============================================================================
