----------------------------- MODULE MCPayloads ------------------------------
(* Payloads at the limits of the rules: for every source one that just     *)
(* passes, and those that differ from it in one or two counts by one; what *)
(* is stored in the database: minions and decks; and the statuses that     *)
(* runs record in the telemetry.                                           *)
EXTENDS PublishRules, TLC

Cell(present, descriptor, zero) ==
  [present |-> present, descriptor |-> descriptor, zero |-> zero]

Fine == Cell(TRUE, "available", FALSE)
Unplayed == Cell(FALSE, "allowed", TRUE)

\* The fields every payload has.
Common(s, n) ==
  [source |-> s, rows |-> n, filled |-> n, page |-> FALSE, typed |-> TRUE]

\* The evidence of a strict payload of n rows, one more dropped for a reason.
Evidence(n) ==
  [version |-> 1, freshness |-> "fresh", scoped |-> TRUE, cells |-> (Fine :> n - 1 @@ Unplayed :> 1),
   raw |-> n + 1, eligible |-> n + 1, normalized |-> n, explained |-> 1, unexplained |-> 0,
   listed |-> 1, unlisted |-> 0, foreign |-> 0, nameless |-> 0, duplicates |-> 0,
   impossible |-> 0]

Base ==
  {Common("heroes", 30) @@ [named |-> 21, ids |-> 21, picks |-> 21, averages |-> 21,
     spreads |-> 21, names |-> 20, distinctAverages |-> 10, tiers |-> 2],
   Common("live", 20) @@ [ready |-> TRUE, classes |-> 8, brackets |-> 3, archetypes |-> 3,
     placeholders |-> 9],
   Common("radars", 12) @@ [issue |-> 7, latest |-> 7, attempted |-> 11, total |-> 12,
     discovered |-> 12, resolved |-> 12, active |-> 12, parsed |-> 12, classes |-> 11,
     twice |-> 0, official |-> 12, broken |-> 0, dated |-> TRUE, rowIssues |-> {7}],
   Common("class_matrix", 8), Common("class_pages", 10) @@ [scored |-> 10],
   Common("winning_decks", 1) @@ [complete |-> 1],
   Common("legendaries", 10) @@ Evidence(10) @@ [keyed |-> 1, scored |-> 5, picked |-> 5,
     offered |-> 5, classCells |-> (Fine :> 2 @@ Unplayed :> 1), expected |-> {"ALL", "MAGE"},
     observed |-> {"ALL", "MAGE"}, claimedMissing |-> {}, unknownBuckets |-> 0,
     duplicateKeys |-> 0],
   Common("comps", 5) @@ [withCards |-> 3], Common("bg_cards", 50) @@ [scored |-> 40],
   Common("trinkets", 80) @@ [valid |-> 40, described |-> 72],
   Common("trinket_slice", 160) @@ [valid |-> 80, described |-> 144, lesser |-> 4,
     greater |-> 4],
   Common("minions", 50) @@ Evidence(50) @@ [scored |-> 40],
   Common("compositions", 5) @@ Evidence(5) @@ [scored |-> 5, firstPlace |-> 1000,
     cells |-> (Fine :> 5)],
   Common("arena_cards", 900) @@ Evidence(900) @@ [labelled |-> FALSE, ids |-> 900, twice |-> 0],
   Common("arena_cards", 20) @@ Evidence(20) @@ [labelled |-> FALSE, ids |-> 20, twice |-> 0],
   Common("firestone_arena", 300) @@ [labelled |-> TRUE, ids |-> 300, twice |-> 0,
     winrates |-> 240, impossible |-> 0, sampled |-> 240],
   Common("heartharena", 300) @@ [classes |-> 5, declared |-> 300, tiered |-> 200,
     ids |-> 240],
   Common("heartharena", 20) @@ [classes |-> 1, declared |-> 20, tiered |-> 16, ids |-> 16],
   Common("cards_period", 600) @@ [scored |-> 20, blocked |-> FALSE, provisional |-> FALSE,
     standard |-> TRUE, twice |-> 0, anonymous |-> 0, impossible |-> 0, popular |-> 9,
     valid |-> 20],
   Common("cards_patch", 20) @@ [scored |-> 20, blocked |-> FALSE, provisional |-> FALSE,
     standard |-> TRUE, twice |-> 0, anonymous |-> 0, impossible |-> 0, popular |-> 9,
     valid |-> 20],
   Common("cards_patch", 450) @@ [scored |-> 20, blocked |-> FALSE, provisional |-> FALSE,
     standard |-> TRUE, twice |-> 0, anonymous |-> 0, impossible |-> 0, popular |-> 9,
     valid |-> 20],
   Common("meta_archetypes", 20) @@ [classes |-> 8, scored |-> 20],
   Common("meta", 10) @@ [complete |-> 3], Common("meta", 3) @@ [complete |-> 3],
   Common("matchups", 3) @@ [scored |-> 1, complete |-> 2],
   Common("streamer", 1) @@ [complete |-> 1, decodable |-> 1],
   Common("fun_decks", 2) @@ [scored |-> 1],
   Common("hearthstone_decks", 40) @@ [ofStandard |-> 20, wild |-> 20, urls |-> 40,
     distinctUrls |-> 40, decodable |-> 38, strategy |-> "rest", posts |-> 40,
     requests |-> 2],
   Common("firestone_standard", 20) @@ Evidence(20) @@ [decks |-> 10, archetypes |-> 10,
     completeDecks |-> 8, distinctDecks |-> 8, completeArchetypes |-> 8,
     distinctArchetypes |-> 8, decodable |-> 9, outOfScope |-> 0, misclustered |-> 0,
     updated |-> [decks |-> 0, archetypes |-> 0 - 34]]}

Flags == {"page", "typed", "ready", "dated", "scoped", "blocked", "provisional", "standard",
          "labelled"}
Words == {"source", "freshness", "strategy", "cells", "classCells", "expected", "observed",
          "claimedMissing", "rowIssues", "updated"}

\* One more or one less of a count, the other value of a flag.
Nearby(p, f) ==
  IF f \in Flags THEN {[p EXCEPT ![f] = ~@]}
  ELSE {[p EXCEPT ![f] = n] : n \in {p[f] + 1} \union (IF p[f] = 0 THEN {} ELSE {p[f] - 1})}

Shifted(p) == UNION {Nearby(p, f) : f \in DOMAIN p \ Words}

\* One row's cell is replaced.
Recelled(p) ==
  IF ~IsStrict(p) THEN {}
  ELSE {[p EXCEPT !.cells = c :> 1 @@ [@ EXCEPT ![Fine] = @ - 1]] :
          c \in {Cell(x, d, z) : x \in BOOLEAN, z \in BOOLEAN,
                 d \in {"none", "malformed", "available", "allowed", "silent", "foreign"}}
               \ {Fine, Unplayed}}

\* The evidence of a row that was lost in silence, counted as explained, and
\* dropped for a reason nobody gave.
Lost(p) ==
  IF ~IsStrict(p) THEN {}
  ELSE {[p EXCEPT !.raw = @ + 1, !.eligible = @ + 1],
        [p EXCEPT !.raw = @ + 1, !.eligible = @ + 1, !.explained = @ + 1],
        [p EXCEPT !.raw = @ + 1, !.eligible = @ + 1, !.explained = @ + 1, !.listed = @ + 1,
                  !.foreign = 1],
        [p EXCEPT !.raw = @ + 1, !.eligible = @ + 1, !.unexplained = 1, !.unlisted = 1]}

Others(p) ==
  CASE p.source = "radars" ->
         {[p EXCEPT !.latest = 8], [p EXCEPT !.latest = 8, !.rows = 11, !.total = 11,
            !.parsed = 11, !.official = 11, !.filled = 11],
          [p EXCEPT !.latest = 8, !.rows = 10, !.total = 10, !.parsed = 10, !.official = 10,
            !.filled = 10],
          [p EXCEPT !.rowIssues = {6, 7}], [p EXCEPT !.latest = 8, !.rowIssues = {6, 7}],
          [p EXCEPT !.latest = 8, !.classes = 10]}
    [] p.source = "legendaries" ->
         {[p EXCEPT !.observed = {"ALL"}], [p EXCEPT !.observed = {"ALL"}, !.claimedMissing = {"MAGE"}],
          [p EXCEPT !.classCells = Cell(FALSE, "allowed", FALSE) :> 1 @@ Fine :> 2]}
    [] p.source = "firestone_standard" ->
         {[p EXCEPT !.updated = [decks |-> d, archetypes |-> a]] :
            d \in {0, 6, 7}, a \in {0 - 37, 0 - 35, 0}}
    [] p.source = "heartharena" -> {[p EXCEPT !.tiered = 240]}
    [] OTHER -> {}

AllPayloads ==
  UNION {{p} \union Shifted(p) \union Recelled(p) \union Lost(p) \union Others(p) : p \in Base}

\* Published before: by a transport that is not allowed any more, or of an issue
\* that was the latest then.
OldPayloads ==
  {[p EXCEPT !.page = TRUE] :
     p \in {q \in Base : ContractOk(q, FALSE) /\ SemanticsOk(q, FALSE, 0)}}
    \union {p \in AllPayloads : p.source = "radars" /\ p.latest = 8 /\ p.rowIssues = {7}
                                  /\ p.rows >= 11 /\ p.classes = 11}

-----------------------------------------------------------------------------
\* Minions: complete, twice the same, without an id, too few, without statistics.
Minions ==
  {[ids |-> <<1, 2>>, filled |-> 2], [ids |-> <<1, 1>>, filled |-> 2],
   [ids |-> <<1, 0>>, filled |-> 2], [ids |-> <<1>>, filled |-> 1],
   [ids |-> <<1, 2, 3>>, filled |-> 1], [ids |-> <<0>>, filled |-> 1]}

Deck(code, draft, url) == [code |-> code, draft |-> draft, url |-> url]

\* The same decks, drafts and links in the datasets of the four sources.
Datasets ==
  {[source |-> "hearthstone_decks", list |-> <<Deck("x", "-", "u"), Deck("y", "-", "u")>>],
   [source |-> "metastats_decks",
    list |-> <<Deck("z", "-", "-"), Deck("x", "-", "-"), Deck("-", "-", "-")>>],
   [source |-> "hsreplay_arena_winning_decks",
    list |-> <<Deck("x", "1", "v"), Deck("z", "1", "v"), Deck("z", "2", "-")>>],
   [source |-> "hsreplay_arena_winning_decks", list |-> <<Deck("z", "1", "u"), Deck("y", "2", "-")>>],
   [source |-> "vicious_syndicate_radars", list |-> <<Deck("z", "-", "u"), Deck("x", "-", "-")>>]}

\* Statuses: a fresh one, one skipped for a lock, a cached one with two signs of its
\* failure, one that timed out, an issue that is not out yet, or was looked for a
\* minute too long ago, and an early one.
NoReview == [review |-> "not_run", verdict |-> "not_run", diagnosis |-> "not_run",
             class |-> "not_run", quarantine |-> FALSE]
NoTransport == [mode |-> "none", requests |-> -1, cost |-> -1]
Transport(cost) == <<NoTransport, [mode |-> "active", requests |-> 1, cost |-> cost]>>

FreshStatus ==
  [state |-> "ok", skipped |-> FALSE, cached |-> FALSE, provisional |-> FALSE, code |-> "",
   awaited |-> FALSE, candidate |-> 1, latest |-> 1, age |-> 0, says |-> {}, http |-> 0,
   proxy |-> 0, ai |-> NoReview, evidence |-> TRUE, retrieved |-> "yes", whole |-> TRUE,
   freshness |-> "fresh", transports |-> Transport(2)]
LockedStatus == [FreshStatus EXCEPT !.state = "locked", !.evidence = FALSE, !.transports = <<>>]
CachedStatus ==
  [FreshStatus EXCEPT !.state = "error", !.cached = TRUE, !.http = 503,
     !.says = {"timeout", "contract"}, !.retrieved = "no", !.transports = Transport(-1),
     !.ai = [NoReview EXCEPT !.review = "error", !.diagnosis = "ok", !.class = "anomalous"]]
LateStatus == [LockedStatus EXCEPT !.state = "timed_out"]
AwaitedStatus ==
  [FreshStatus EXCEPT !.state = "error", !.code = "unavailable", !.awaited = TRUE,
                      !.candidate = 0, !.age = 720]
EarlyStatus ==
  [FreshStatus EXCEPT !.provisional = TRUE, !.freshness = "stale",
     !.ai = [NoReview EXCEPT !.review = "ok", !.verdict = "uncertain", !.quarantine = TRUE]]

Recorded ==
  {"x" :> FreshStatus @@ "y" :> FreshStatus, "x" :> FreshStatus,
   "x" :> LockedStatus @@ "y" :> LockedStatus, "x" :> CachedStatus, "y" :> AwaitedStatus,
   "y" :> [AwaitedStatus EXCEPT !.age = 721], "x" :> EarlyStatus @@ "y" :> LateStatus}

Run(id, window, full, expected) ==
  [id |-> id, window |-> window, purpose |-> "primary", full |-> full, expected |-> expected]
=============================================================================
