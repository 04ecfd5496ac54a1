----------------------------- MODULE PublishGate -----------------------------
(***************************************************************************)
(* The gate of one source (app/publish_gate.py, app/scrapers/quality.py):  *)
(* a candidate is judged by its transport, its contract and its validator; *)
(* when a refresh fails, the publication that is there is judged again, by *)
(* the policy and the clock of that moment, before it is called served     *)
(* from the cache (_preserve_cached_ok_status of app/fetcher.py).  What    *)
(* stable readers get of a provisional publication, and the comparison of  *)
(* row counts, is in EarlyPublication.                                     *)
(***************************************************************************)
EXTENDS PublishRules

CONSTANTS
  Payloads,        \* what a fetch of the source can bring
  FirstPayloads,   \* what may be published already
  NoPayload,
  MaxTime          \* bound of the clock

VARIABLES
  source,          \* the source: it does not change
  early,           \* its policy is early
  now,
  served,          \* the publication, and the policy it was published under
  outcome          \* the status: what the last refresh told of the publication

gateVars == <<source, early, now, served, outcome>>

Outcomes == {"none", "ok", "cached", "grandfathered", "failed"}

GateTypeOK ==
  /\ source \in Sources
  /\ early \in BOOLEAN
  /\ now \in 0 .. MaxTime
  /\ served.payload \in Payloads \union FirstPayloads \union {NoPayload}
  /\ served.early \in BOOLEAN
  /\ served.at \in 0 .. MaxTime
  /\ outcome.state \in Outcomes /\ outcome.at \in 0 .. MaxTime

-----------------------------------------------------------------------------
\* validate_parsed_data: first the contract, then the validator
Passes(p) == ContractOk(p, early) /\ SemanticsOk(p, early, now)

\* _is_unstructured_page_backend: a page may be published only where the
\* contract allows the browser.
AllowsPages(s) ==
  s \in {"legendaries", "comps", "radars", "heartharena", "hearthstone_decks",
         "meta", "matchups", "streamer", "fun_decks", "class_pages"}

\* validate_candidate_for_publish
CandidateOk(p) == (p.page => AllowsPages(p.source)) /\ Passes(p)

\* is_usable_vicious_temporal_lkg, the data: an older issue, complete but for one
\* radar at the most
OlderIssue(p) ==
  /\ p.source = "radars"
  /\ RadarErrors(p) # {}
  /\ RadarErrors(p) \subseteq {"outdated_issue", "active_coverage", "row_issue"}
  /\ p.issue # 0 /\ p.issue < p.latest
  /\ p.rowIssues = {p.issue} /\ p.broken = 0
  /\ p.active > 0 /\ p.parsed = p.rows /\ p.active - p.parsed \in 0 .. 1

\* is_usable_vicious_temporal_lkg: within the contract
TemporalLKG(p) == ContractOk(p, early) /\ OlderIssue(p)

\* validate_existing_publication_for_serving: the transport is not judged again.
ServesStill(p) == TemporalLKG(p) \/ Passes(p)

\* A publication that is there already passed these rules, or its issue was the latest.
GateAssumption ==
  /\ MaxTime \in Nat
  /\ \A p \in FirstPayloads : ContractOk(p, FALSE) /\ (SemanticsOk(p, FALSE, 0) \/ OlderIssue(p))

NothingServed == [payload |-> NoPayload, early |-> FALSE, at |-> 0]

\* A publication of the first day was made when other transports were allowed.
GateInit ==
  /\ source \in Sources
  /\ early \in BOOLEAN
  /\ now = 0
  /\ \/ served = NothingServed
     \/ \E p \in FirstPayloads : p.source = source /\ served = [payload |-> p, early |-> FALSE, at |-> 0]
  /\ outcome = [state |-> "none", at |-> 0]

\* _save_failure_status, _preserve_cached_ok_status
Preserve ==
  /\ outcome' = [state |-> IF served.payload = NoPayload \/ ~ServesStill(served.payload)
                             THEN "failed"
                           ELSE IF TemporalLKG(served.payload) THEN "grandfathered"
                           ELSE "cached",
                 at |-> now]
  /\ UNCHANGED served

\* fetch_source: the candidate is judged under the policy of the refresh.
Refresh(p) ==
  /\ p.source = source
  /\ IF CandidateOk(p)
       THEN /\ served' = [payload |-> p, early |-> early, at |-> now]
            /\ outcome' = [state |-> "ok", at |-> now]
       ELSE Preserve
  /\ UNCHANGED <<source, early, now>>

\* No transport brought a payload.
FetchFails ==
  /\ Preserve
  /\ UNCHANGED <<source, early, now>>

\* The administration or the end of the window changes the policy.
SwitchPolicy ==
  /\ early' = ~early
  /\ UNCHANGED <<source, now, served, outcome>>

Tick ==
  /\ now < MaxTime
  /\ now' = now + 1
  /\ UNCHANGED <<source, early, served, outcome>>

GateNext ==
  \/ \E p \in Payloads : Refresh(p)
  \/ FetchFails
  \/ SwitchPolicy
  \/ Tick

GateSpec == GateInit /\ [][GateNext]_gateVars

-----------------------------------------------------------------------------
\* Every raw row of a strict payload is published or was dropped for a reason of
\* the allow-list, and every metric of its rows is there or was explained.
NothingLost(p) ==
  IsStrict(p) =>
    /\ p.raw = p.rows + p.listed
    /\ p.unexplained = 0 /\ p.foreign = 0 /\ p.duplicates = 0 /\ p.nameless = 0
    /\ \A c \in DOMAIN p.cells :
         p.cells[c] > 0 => c.present \/ c.descriptor = "allowed"
    /\ p.source \in {"arena_cards", "legendaries"} =>
         \A c \in DOMAIN p.cells : p.cells[c] > 0 /\ ~c.present => c.zero

\* The radars are all of one issue, no class is missing and at most one radar of
\* an older issue.
WholeIssue(p) ==
  p.source = "radars" =>
    /\ p.classes = RadarClasses /\ p.rowIssues = {p.issue} /\ p.broken = 0
    /\ IF p.issue = p.latest THEN p.rows = p.discovered ELSE p.rows >= p.discovered - 1

\* What a status calls published or served from the cache lost nothing on its
\* way, whichever gate it passed and whichever rules it was published by, and
\* an upstream snapshot was not too old at that time; only a publication that is
\* called grandfathered is of an older issue.
ServedIsSound ==
  outcome.state \in {"ok", "cached", "grandfathered"} =>
    LET p == served.payload
    IN  /\ NothingLost(p) /\ WholeIssue(p)
        /\ p.source = "firestone_standard" =>
             \A c \in DOMAIN p.updated : outcome.at - p.updated[c] <= 36
        /\ outcome.state = "grandfathered" <=> p.source = "radars" /\ p.issue < p.latest

\* A refresh that fails takes a publication of these rules out of service only
\* when the policy is not the one it was published under, or when its upstream
\* snapshot has grown too old.
ServiceIsKeptStep ==
  outcome' # outcome /\ outcome'.state = "failed" /\ served.payload # NoPayload =>
    \/ served.early # early
    \/ source = "firestone_standard" /\ now > served.at
=============================================================================
