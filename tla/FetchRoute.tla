----------------------------- MODULE FetchRoute -----------------------------
(***************************************************************************)
(* One fetch of one source (fetch_source of app/fetcher.py): the Firecrawl  *)
(* cascade for the sources that start with it, the source's API, the page   *)
(* through the legacy browsers or through ParsesUnix, the cascade again as  *)
(* a fallback, one repetition of it all after a new HSReplay login, and the *)
(* gates, the AI quarantine and the regression check a candidate passes     *)
(* before it is saved.  One call of the cascade is a step here: its         *)
(* providers are the subject of ProviderCascade.  Log lines, alerts and     *)
(* reviews fail without raising; what raises is a collector, a parser, a    *)
(* new login and a file of a status.                                        *)
(***************************************************************************)
EXTENDS Integers, Sequences, FiniteSets

CONSTANTS
  Confs,          \* settings of the source, see ConfType
  MaxPerSource,   \* HS_FIRECRAWL_FALLBACK_MAX_ATTEMPTS_PER_SOURCE
  Faults          \* a status may not be written, and a new login may raise

ConfType ==
  [api : BOOLEAN,        \* the tier is API-first
   apiOnly : BOOLEAN,    \* blocks_browser_fallback
   standard : BOOLEAN,   \* the durable publication channel of standard cards
   login : BOOLEAN,      \* an HSReplay source with credentials
   primary : BOOLEAN,    \* firecrawl_primary_source_ids
   fallback : BOOLEAN,   \* firecrawl_fallback_source_ids
   direct : BOOLEAN,     \* direct_only_candidate_confirmation
   quarantine : BOOLEAN, \* ai_review_mode() == "quarantine"
   free : BOOLEAN,       \* _PARSESUNIX_FREE_BROWSER_PRIMARY_SOURCE_IDS
   paid : BOOLEAN,       \* the paid layer of ParsesUnix has a provider and a budget
   mode : {"legacy", "shadow", "parsesunix", "invalid"}]

\* The settings go together as the registry of sources has them: standard cards are an
\* API-only source outside the Firecrawl lists, a direct confirmation is made of an API-only
\* source, and those all have an API.
FetchAssumption ==
  /\ Faults \in BOOLEAN /\ MaxPerSource \in Nat
  /\ \A c \in Confs :
       /\ c \in ConfType
       /\ c.direct => c.apiOnly
       /\ c.apiOnly => c.api
       /\ c.standard => c.apiOnly /\ ~c.primary /\ ~c.fallback

VARIABLES
  conf,
  pc,
  depth,          \* 2 in the repetition after a new login
  within,         \* the API part of the fetch before it called that repetition
  reason,         \* what the cascade was called for
  shadow,         \* the shadow request: "none", "free", "paid" or "done"
  refused,        \* ParsesUnix refused the answer of this page
  candidate,      \* the parsed data: its route, the gate's and the reviewer's verdicts
  calls,          \* history: calls of each paid or heavy route
  saved,          \* history: the candidates saved, in order
  state, writes,  \* the state of the status written last, and how many were written
  opened, closed  \* traces begun and completed

vars == <<conf, pc, depth, within, reason, shadow, refused, candidate, calls, saved,
          state, writes, opened, closed>>

Nothing == [route |-> "none", gate |-> FALSE, ai |-> FALSE]
Routes == {"none", "cascade", "api", "page", "free", "unix", "unixPaid"}
Ended == {"done", "raised", "cancelled"}

TypeOK ==
  /\ conf \in Confs /\ depth \in 1 .. 2 /\ within \in BOOLEAN /\ refused \in BOOLEAN
  /\ pc \in {"begin", "route", "cascade", "cascadeSaved", "shadowed", "api", "apiSaved",
             "apiRejected", "apiFailed", "resumed", "page", "answer", "judge", "pageSaved"}
            \cup Ended
  /\ reason \in {"none", "primary", "api", "exception", "challenge", "http", "quality"}
  /\ shadow \in {"none", "free", "paid", "done"}
  /\ candidate \in [route : Routes, gate : BOOLEAN, ai : BOOLEAN]
  /\ calls \in [{"primary", "fallback", "page", "unix", "shadow"} -> Nat]
  /\ saved \in Seq([route : Routes, gate : BOOLEAN, ai : BOOLEAN])
  /\ state \in {"none", "ok", "cached", "partial", "quality_error", "fetch_error", "blocked",
                "http_error"}
  /\ {writes, opened, closed} \subseteq Nat

Init ==
  /\ conf \in Confs /\ pc = "begin" /\ depth = 1 /\ within = FALSE /\ reason = "none"
  /\ shadow = "none" /\ refused = FALSE /\ candidate = Nothing /\ saved = <<>>
  /\ calls = [k \in {"primary", "fallback", "page", "unix", "shadow"} |-> 0]
  /\ state = "none" /\ writes = 0 /\ opened = 0 /\ closed = 0

Retry == depth = 1 /\ ~conf.direct

\* _save_failure_status: while an older dataset is still valid, a failure is written as the
\* serving of that one.  For standard cards the store writes what is published, by this fetch
\* or by one that has overtaken it.
Reported(s) ==
  {s} \cup IF conf.standard THEN {"ok", "cached"} ELSE IF s = "ok" THEN {} ELSE {"cached"}

\* _finish, save_status and _save_failure_status at the end of a route.  The fetch of standard
\* cards goes on when its status cannot be written.
Finish(s) ==
  /\ pc' = "done" /\ state' \in Reported(s) /\ closed' = closed + 1
  /\ writes' = writes + 1 \/ (Faults /\ conf.standard /\ UNCHANGED writes)
Keep == UNCHANGED <<state, writes, closed>>

\* An exception ends the fetch, or the repetition that the API part of another one called;
\* the API part has a handler of its own.
Raise == pc' = (IF within THEN "resumed" ELSE "raised") /\ Keep
RaiseIn(part) == IF part = "api" THEN pc' = "apiFailed" /\ Keep ELSE Raise

\* The end of a part with a status, which may be impossible to write.
Ends(part, s) == Finish(s) \/ (Faults /\ RaiseIn(part))

Count(k) == calls' = [calls EXCEPT ![k] = @ + 1]

\* _try_firecrawl_html: the returns before the providers are asked.
CascadeAllowed(why) ==
  /\ ~conf.direct
  /\ conf.primary \/ conf.fallback
  /\ why # "primary" => calls["fallback"] < MaxPerSource

\* The state of the failure that ends a route whose fallback gave nothing.
Failure(why) ==
  CASE why \in {"api", "quality"} -> "quality_error"
    [] why = "exception"          -> "fetch_error"
    [] why = "challenge"          -> "blocked"
    [] why = "http"               -> "http_error"

\* The next route when there is no Firecrawl status: the API, else the page.
NextRoute == pc' = IF conf.api THEN "api" ELSE "page"

\* Mutant: the failure is written before the cascade is asked.
FallBackAfterFailure(why, failed) ==
  IF CascadeAllowed(why)
  THEN /\ pc' = "cascade" /\ reason' = why /\ Count("fallback")
       /\ state' = failed /\ writes' = writes + 1 /\ UNCHANGED closed
  ELSE Ends(why, failed) /\ UNCHANGED <<reason, calls>>

\* A failing route asks the cascade if it may, and else ends with its failure.
FallBack(why, failed) ==
  IF CascadeAllowed(why)
  THEN pc' = "cascade" /\ reason' = why /\ Count("fallback") /\ Keep
  ELSE Ends(why, failed) /\ UNCHANGED <<reason, calls>>

\* _fetch_source_with_captured_policy: an unreadable status stops any source but the
\* standard cards, which need the number of their attempt.
Readable(damaged) == damaged => conf.standard

Begin ==
  /\ pc = "begin"
  /\ \E damaged \in BOOLEAN :
       \/ Readable(damaged) /\ pc' = "route" /\ opened' = opened + 1 /\ Keep
       \/ (~Readable(damaged) \/ (Faults /\ conf.standard)) /\ Raise /\ UNCHANGED opened
  /\ UNCHANGED <<conf, depth, within, reason, shadow, refused, candidate, calls, saved>>

\* The Firecrawl primary route, when ParsesUnix has not taken it over.
\* _configured_parsesunix_mode raises outside every handler.
ChooseRoute ==
  /\ pc = "route"
  /\ IF conf.mode = "invalid" THEN Raise /\ UNCHANGED <<reason, calls>>
     ELSE /\ Keep
          /\ IF conf.primary /\ conf.mode # "parsesunix" /\ CascadeAllowed("primary")
             THEN pc' = "cascade" /\ reason' = "primary" /\ Count("primary")
             ELSE NextRoute /\ UNCHANGED <<reason, calls>>
  /\ UNCHANGED <<conf, depth, within, shadow, refused, candidate, saved, opened>>

\* ok: the gate let it through and the reviewer did not quarantine it.  The reviewer
\* stops a candidate in quarantine mode only, and never a direct confirmation.
Passes(c) == c.gate /\ c.ai

Verdicts(route) ==
  [route : {route}, gate : BOOLEAN,
   ai : IF conf.quarantine /\ ~conf.direct THEN BOOLEAN ELSE {TRUE}]

\* The end of a call that returned a status: a shadow request first if the call was
\* the primary one.
CascadeEnds(s) ==
  IF reason = "primary" /\ conf.mode = "shadow"
  THEN /\ pc' = "shadowed" /\ state' \in Reported(s) /\ writes' = writes + 1
       /\ shadow' = "free" /\ UNCHANGED closed
  ELSE Finish(s) /\ UNCHANGED shadow

\* The end of a call that returned None.
CascadeNothing ==
  /\ IF reason = "primary" THEN NextRoute /\ Keep ELSE Ends(reason, Failure(reason))
  /\ UNCHANGED shadow

\* The call returns None, too, when its status cannot be written.
CascadeWrites(s) == CascadeEnds(s) \/ (Faults /\ CascadeNothing)

\* scrape_source raised, or its answer, which the gate accepted, was quarantined, or
\* the regression check kept it out, or it was saved.
Cascade ==
  /\ pc = "cascade"
  /\ \/ CascadeNothing /\ UNCHANGED <<candidate, saved>>
     \/ \E c \in {v \in Verdicts("cascade") : v.gate} :
          /\ candidate' = c
          /\ \/ /\ ~Passes(c) /\ UNCHANGED saved
                /\ IF reason = "primary" THEN CascadeNothing ELSE CascadeWrites("quality_error")
             \/ Passes(c) /\ CascadeWrites("partial") /\ UNCHANGED saved
             \/ /\ Passes(c) /\ saved' = Append(saved, c)
                /\ pc' = "cascadeSaved" /\ Keep /\ UNCHANGED shadow
  /\ UNCHANGED <<conf, depth, within, reason, refused, calls, opened>>

\* After the save: the passive review and the status, inside the handler of the call.
CascadeReport ==
  /\ pc = "cascadeSaved" /\ CascadeWrites("ok")
  /\ UNCHANGED <<conf, depth, within, reason, refused, candidate, calls, saved, opened>>

\* _complete_parsesunix_shadow: the task is awaited, its answer compared, nothing saved.
ShadowAwaited(s) == IF s = "none" THEN "none" ELSE "done"

\* The shadow request escalates like any other call of ParsesUnix.
ShadowPays ==
  /\ shadow = "free" /\ conf.paid
  /\ shadow' = "paid" /\ Count("shadow")
  /\ UNCHANGED <<conf, pc, depth, within, reason, refused, candidate, saved, state, writes, opened, closed>>

ShadowedPrimary ==
  /\ pc = "shadowed"
  /\ pc' = "done" /\ shadow' = ShadowAwaited(shadow) /\ closed' = closed + 1
  /\ UNCHANGED <<conf, depth, within, reason, refused, candidate, calls, saved, state, writes,
                 opened>>

\* force_relogin_hsreplay succeeded: the fetch starts over without another repetition.
\* Its own trace is left open.
StartOver(inApi) ==
  /\ pc' = "begin" /\ depth' = 2 /\ within' = inApi /\ reason' = "none" /\ refused' = FALSE
  /\ candidate' = Nothing /\ shadow' = ShadowAwaited(shadow)

MayRelogin == conf.login /\ Retry

\* The API's answer, judged by the gate and the reviewer; for standard cards by the
\* publication channel.  It is saved, or the regression check keeps it out.
ApiAnswer ==
  /\ pc = "api"
  /\ \E c \in Verdicts("api") :
       /\ candidate' = c
       /\ \/ /\ Passes(c) /\ saved' = Append(saved, c) /\ pc' = "apiSaved" /\ Keep
          \/ Passes(c) /\ Ends("api", "partial") /\ UNCHANGED saved
          \/ ~Passes(c) /\ pc' = "apiRejected" /\ UNCHANGED saved /\ Keep
  /\ UNCHANGED <<conf, depth, within, reason, shadow, refused, calls, opened>>

\* A source without an API handler goes to its page; those all have one that are API-only.
ApiMissing ==
  /\ pc = "api" /\ ~conf.apiOnly
  /\ pc' = "page" /\ Keep
  /\ UNCHANGED <<conf, depth, within, reason, shadow, refused, candidate, calls, saved, opened>>

\* A rejected answer: a new login if it looks like a lost session, else the cascade,
\* else the failure.  A report its upstream has not completed is not sent on.
ApiRejected ==
  /\ pc = "apiRejected"
  /\ \/ MayRelogin /\ StartOver(TRUE) /\ Keep /\ UNCHANGED calls
     \/ /\ \/ conf.fallback /\ FallBack("api", "quality_error")
           \/ /\ conf.login => ~conf.fallback
              /\ Ends("api", "quality_error") /\ UNCHANGED <<reason, calls>>
           \/ Faults /\ MayRelogin /\ RaiseIn("api") /\ UNCHANGED <<reason, calls>>
        /\ UNCHANGED <<depth, within, shadow, refused, candidate>>
  /\ UNCHANGED <<conf, saved, opened>>

\* blocks_browser_fallback
BrowserAllowed == ~conf.apiOnly

\* The API raised: a new login if it looks like a lost session; the failure of an
\* upstream that has not published; else what follows an exception of the API part.
ApiRaises ==
  /\ pc = "api"
  /\ \/ MayRelogin /\ StartOver(FALSE) /\ Keep
     \/ /\ \/ ~conf.login /\ Ends("handler", "quality_error")
           \/ RaiseIn("api")
           \/ Faults /\ MayRelogin /\ Raise
        /\ UNCHANGED <<depth, within, reason, shadow, refused, candidate>>
  /\ UNCHANGED <<conf, calls, saved, opened>>

\* After an exception of the API part: the page, or the failure of an API-only source.
ApiFails ==
  /\ pc = "apiFailed"
  /\ IF BrowserAllowed THEN pc' = "page" /\ Keep ELSE Ends("handler", "fetch_error")
  /\ UNCHANGED <<conf, depth, within, reason, shadow, refused, candidate, calls, saved, opened>>

\* The repetition that the API part called has raised: to that part it is an exception like
\* any other, and the first fetch goes on, with its own right to a new login.
Resume ==
  /\ pc = "resumed"
  /\ pc' = "apiFailed" /\ depth' = 1 /\ within' = FALSE /\ reason' = "none" /\ refused' = FALSE
  /\ Keep /\ UNCHANGED <<conf, shadow, candidate, calls, saved, opened>>

\* After the save: the passive review and the status.  It is inside the handler of the API
\* part, but for standard cards, whose publication is reported either way.
ApiReport ==
  /\ pc = "apiSaved"
  /\ Finish("ok") \/ (Faults /\ ~conf.standard /\ RaiseIn("api"))
  /\ UNCHANGED <<conf, depth, within, reason, shadow, refused, candidate, calls, saved, opened>>

\* Mutant: an answer ParsesUnix refused goes to the cascade like any failure.
AllowsPaidFallbackAlways == TRUE

\* _parsesunix_allows_paid_fallback
AllowsPaidFallback == ~refused'

\* The page could not be had.
PageFails(isRefusal) ==
  /\ refused' = isRefusal
  /\ IF AllowsPaidFallback THEN FallBack("exception", "fetch_error")
     ELSE Ends("exception", "fetch_error") /\ UNCHANGED <<reason, calls>>

\* _fetch_generic_html in the modes "legacy" and "shadow": the direct request or the
\* browsers; in the mode "shadow" ParsesUnix is asked at the same time.
PageBegins ==
  /\ pc = "page" /\ conf.mode \in {"legacy", "shadow"}
  /\ pc' = "answer" /\ Count("page")
  /\ shadow' = IF conf.mode = "shadow" THEN "free" ELSE shadow
  /\ Keep /\ UNCHANGED <<conf, depth, within, reason, refused, candidate, saved, opened>>

\* The browsers answer, with a challenge, an error status or a page, or fail; either
\* way the shadow request is awaited first.
PageAnswers ==
  /\ pc = "answer" /\ shadow' = ShadowAwaited(shadow)
  /\ \/ PageFails(FALSE) /\ UNCHANGED candidate
     \/ FallBack("challenge", "blocked") /\ UNCHANGED <<refused, candidate>>
     \/ FallBack("http", "http_error") /\ UNCHANGED <<refused, candidate>>
     \/ /\ pc' = "judge" /\ candidate' \in Verdicts("page")
        /\ Keep /\ UNCHANGED <<refused, reason, calls>>
  /\ UNCHANGED <<conf, depth, within, saved, opened>>

\* _fetch_generic_html in the mode "parsesunix": the free browser of HSGuru, the direct
\* request, and for a blocked one the paid attempt.  Its validated answer is neither a
\* challenge nor an error status.
UnixAnswers ==
  /\ pc = "page" /\ conf.mode = "parsesunix"
  /\ \E paid \in IF conf.paid THEN BOOLEAN ELSE {FALSE} :
       \/ /\ calls' = [calls EXCEPT !["unix"] = @ + IF paid THEN 1 ELSE 0]
          /\ pc' = "judge" /\ Keep /\ UNCHANGED <<refused, reason>>
          /\ \/ candidate' \in Verdicts(IF paid THEN "unixPaid" ELSE "unix")
             \/ conf.free /\ ~paid /\ candidate' \in Verdicts("free")
       \/ /\ paid /\ Ends("exception", "fetch_error") /\ refused' = TRUE
          /\ Count("unix") /\ UNCHANGED <<reason, candidate>>
       \/ ~paid /\ PageFails(TRUE) /\ UNCHANGED candidate
  /\ UNCHANGED <<conf, depth, within, shadow, saved, opened>>

\* The page's candidate: parse_html may raise, or the new login; a rejected one is
\* followed by a new login or by the cascade, whichever transport it came from.
PageJudged ==
  /\ pc = "judge"
  /\ \/ /\ Raise
        /\ UNCHANGED <<depth, within, reason, shadow, refused, candidate, calls, saved>>
     \/ /\ ~Passes(candidate) /\ MayRelogin /\ StartOver(FALSE) /\ Keep
        /\ UNCHANGED <<calls, saved>>
     \/ /\ ~Passes(candidate) /\ FallBack("quality", "quality_error")
        /\ UNCHANGED <<depth, within, shadow, refused, candidate, saved>>
     \/ /\ Passes(candidate)
        /\ \/ Ends("quality", "partial") /\ UNCHANGED saved
           \/ saved' = Append(saved, candidate) /\ pc' = "pageSaved" /\ Keep
        /\ UNCHANGED <<depth, within, reason, shadow, refused, candidate, calls>>
  /\ UNCHANGED <<conf, opened>>

\* After the save: the passive review and the status, outside every handler.
PageReport ==
  /\ pc = "pageSaved" /\ Ends("page", "ok")
  /\ UNCHANGED <<conf, depth, within, reason, shadow, refused, candidate, calls, saved, opened>>

\* The task of the fetch is cancelled at an await; a shadow request is cancelled with it.
Cancel ==
  /\ pc \in {"cascade", "cascadeSaved", "shadowed", "api", "apiSaved", "page", "answer", "pageSaved"}
  /\ pc' = "cancelled" /\ shadow' = ShadowAwaited(shadow) /\ Keep
  /\ UNCHANGED <<conf, depth, within, reason, refused, candidate, calls, saved, opened>>

Next ==
  \/ Begin \/ ChooseRoute \/ Cascade \/ CascadeReport \/ ShadowPays \/ ShadowedPrimary
  \/ ApiAnswer \/ ApiMissing \/ ApiRejected \/ ApiRaises \/ ApiFails \/ Resume \/ ApiReport
  \/ PageBegins \/ PageAnswers \/ UnixAnswers \/ PageJudged \/ PageReport
  \/ Cancel

Spec == Init /\ [][Next]_vars

\* A fetch that ends has written one status, which says "ok" of a fetch that has just saved
\* its candidate and of no other: a failure never counts as a publication, though an older
\* dataset is served.  While statuses can be written every publication is reported so.  For
\* standard cards that holds whatever fails: what they have published ends the fetch, and is
\* reported as published, now or as served from the store.
PublishedIsReported ==
  /\ pc = "done" =>
       /\ writes = 1 \/ (Faults /\ conf.standard /\ writes = 0)
       /\ state = "ok" => conf.standard \/ (saved # <<>> /\ saved[Len(saved)] = candidate)
       /\ ~Faults /\ saved # <<>> => Len(saved) = 1 /\ (conf.standard \/ state = "ok")
  /\ conf.standard /\ saved # <<>> =>
       /\ Len(saved) = 1 /\ pc \notin {"raised", "resumed"}
       /\ pc = "done" => state \in {"ok", "cached"}

\* Whatever route a candidate came by, it is saved only after the gate let it through
\* and, in quarantine mode, the reviewer did.
OnlyPassedIsSaved == \A i \in DOMAIN saved : saved[i].gate /\ saved[i].ai

\* An unreadable status file, which is only telemetry, never stops the fetch of the
\* standard cards (_fetch_source_with_captured_policy).
StandardAlwaysReports ==
  conf.standard /\ pc = "raised" => conf.mode = "invalid" \/ Faults

\* A fetch pays for the fallback cascade once, with all its repetitions after a login, or, when
\* its statuses cannot be written, as often as the source's limit allows; and for the primary
\* cascade once in each of its rounds.  There can be three of those: a second one that raises
\* leaves the first its right to another.
OneFallback ==
  /\ calls["fallback"] <= IF Faults THEN MaxPerSource ELSE 1
  /\ calls["primary"] <= opened /\ opened <= 3

\* A page that ParsesUnix refused is not bought from the cascade afterwards
\* (_parsesunix_allows_paid_fallback).
RefusedStaysRefused == refused => pc # "cascade"

\* A direct-only confirmation of a candidate pays nothing, uses no browser and is not
\* repeated; an API-only source is never fetched as a page.
ConfirmationIsFree ==
  /\ conf.direct => depth = 1 /\ \A k \in DOMAIN calls : calls[k] = 0
  /\ conf.apiOnly => calls["page"] = 0 /\ calls["unix"] = 0

\* No shadow request outlives its fetch, however the fetch ends.
ShadowEnds == pc \in Ended => shadow \in {"none", "done"}

\* The fetch starts over only before it has saved anything or paid for a fallback,
\* and no repetition is itself repeated.
RetryIsCleanStep ==
  pc # "begin" /\ pc' = "begin" => depth = 1 /\ saved = <<>> /\ calls["fallback"] = 0
RetryIsClean == [][RetryIsCleanStep]_vars
=============================================================================
