---------------------------- MODULE PublishRules -----------------------------
(***************************************************************************)
(* The rules a payload is published by: the contract of its source         *)
(* (app/source_contracts.py) and the semantic validator of its type        *)
(* (app/source_validators.py), under the stable or the early policy        *)
(* (app/post_patch_policy.py).  A payload is the record of the counts its  *)
(* rows are judged by:                                                     *)
(*   source, rows      its source and the rows of its type                 *)
(*   filled            the rows with the least filled critical field       *)
(*   cells             strict completeness schema: how many rows have a    *)
(*                     metric cell of each kind (classCells: of the rows'  *)
(*                     classes); a cell is [present, descriptor, zero],    *)
(*                     zero for a sample or a pick rate of 0               *)
(*   raw .. unlisted   strict: the evidence of the retrieved rows          *)
(* and the counts of its own validator.  Other payloads have no cells.     *)
(***************************************************************************)
EXTENDS Integers, FiniteSetsExt

Larger(a, b) == IF a >= b THEN a ELSE b

\* math.ceil(rows * share)
Share(n, percent) == (n * percent + 99) \div 100

-----------------------------------------------------------------------------
(* The table of the contracts.                                             *)

Rule(min, early, fill) == [min |-> min, early |-> early, fill |-> fill]

\* The contracts of the HSReplay cards and of its arena; early is the minimum of
\* the early policy, that of the contract for a source without one.
CardContracts ==
  [cards_period |-> Rule(600, 600, 55), cards_patch |-> Rule(450, 20, 55),
   arena_cards |-> Rule(900, 20, 85),   winning_decks |-> Rule(1, 1, 80),
   legendaries |-> Rule(10, 10, 50)]

\* Those of its other pages and feeds.
HsreplayContracts ==
  [heroes |-> Rule(30, 30, 70),         minions |-> Rule(50, 50, 80),
   compositions |-> Rule(5, 5, 80),     trinkets |-> Rule(80, 8, 90),
   meta_archetypes |-> Rule(20, 20, 80), class_matrix |-> Rule(8, 8, 80),
   class_pages |-> Rule(10, 10, 80)]

\* Those of Vicious Syndicate, Firestone and HearthArena.
OtherContracts ==
  [live |-> Rule(20, 20, 70),           radars |-> Rule(5, 5, 60),
   comps |-> Rule(5, 5, 80),            firestone_standard |-> Rule(20, 20, 80),
   bg_cards |-> Rule(30, 30, 0),        heartharena |-> Rule(300, 20, 80)]

\* Those given to a family of sources at once, and that of Hearthstone-Decks.
FamilyContracts ==
  [trinket_slice |-> Rule(160, 16, 90), firestone_arena |-> Rule(300, 20, 80),
   hearthstone_decks |-> Rule(40, 40, 95)]

\* Those of HSGuru; the window of the streamers may hold one or two rows.
HsguruContracts ==
  [meta |-> Rule(10, 3, 95), matchups |-> Rule(3, 3, 0), streamer |-> Rule(3, 3, 100)]

Sources == DOMAIN CardContracts \union DOMAIN HsreplayContracts
             \union DOMAIN OtherContracts \union DOMAIN FamilyContracts
             \union DOMAIN HsguruContracts \union {"fun_decks"}

HasContract(s) == s # "fun_decks"

Contract(s) ==
  CASE s \in DOMAIN CardContracts -> CardContracts[s]
    [] s \in DOMAIN HsreplayContracts -> HsreplayContracts[s]
    [] s \in DOMAIN OtherContracts -> OtherContracts[s]
    [] s \in DOMAIN FamilyContracts -> FamilyContracts[s]
    [] OTHER -> HsguruContracts[s]

\* EARLY_SOURCE_IDS
EarlySources == {"arena_cards", "heartharena", "firestone_arena", "meta", "matchups",
                 "firestone_standard", "cards_patch", "trinkets", "trinket_slice"}

\* policy_for
Policy(s, early) == early /\ s \in EarlySources

\* effective_contract_min_rows and _policy_for_source
MinimumRows(s, early) ==
  IF Policy(s, early) THEN Contract(s).early ELSE Contract(s).min

\* HSREPLAY_FRESHNESS_GATED_SOURCE_IDS
FreshnessGated == {"minions", "compositions", "arena_cards", "legendaries"}

-----------------------------------------------------------------------------
(* The metrics of a strict payload.                                        *)

\* field_availability_status: "allowed" is a reason of the allow-list,
\* "foreign" another one, "silent" none.
Availability(c, required) ==
  CASE c.descriptor = "none" ->
         IF required THEN "conflict" ELSE IF c.present THEN "available" ELSE "missing"
    [] c.descriptor = "available" -> IF c.present THEN "available" ELSE "conflict"
    [] c.descriptor = "allowed" -> IF c.present THEN "conflict" ELSE "explained"
    [] c.descriptor = "silent" -> IF c.present THEN "conflict" ELSE "missing"
    [] OTHER -> "conflict"

\* FIELD_UNAVAILABLE_REASONS: the sources whose parsers describe every metric
Described == {"arena_cards", "minions", "legendaries", "firestone_standard"}

\* How many cells of a source's payload have one of the statuses.
Having(s, cells, statuses) ==
  MapThenSumSet(LAMBDA c : cells[c],
                {c \in DOMAIN cells : Availability(c, s \in Described) \in statuses})

Total(cells) == MapThenSumSet(LAMBDA c : cells[c], DOMAIN cells)

IsStrict(p) == "cells" \in DOMAIN p

\* contract_quality_report, a critical field of a strict payload: missing
\* metrics are explained one by one, whatever the fill rate is.
MetricsRetrieved(s, cells) ==
  /\ Total(cells) > 0
  /\ 100 * Having(s, cells, {"available", "explained"}) >= Contract(s).fill * Total(cells)
  /\ Having(s, cells, {"missing", "conflict"}) = 0

\* _legendary_bucket_coverage_report
BucketsCovered(p) ==
  /\ p.observed = p.expected /\ p.claimedMissing = p.expected \ p.observed
  /\ p.unknownBuckets = 0 /\ p.duplicateKeys = 0

\* _row_retrieval_report: the claimed counts reconcile with each other, with
\* their reasons and with the rows; only reasons of the allow-list explain.
RowsReconcile(p) ==
  /\ p.raw >= p.eligible /\ p.eligible >= p.normalized
  /\ p.raw - p.normalized = p.explained + p.unexplained
  /\ p.normalized = p.rows
  /\ p.listed = p.explained /\ p.unlisted = p.unexplained
  /\ p.foreign = 0

\* _validate_hsreplay_publication_freshness, the gate on freshness of the report
FreshEnough(p) == p.source \in FreshnessGated => p.freshness \in {"fresh", "unverified"}

\* contract_quality_report: the legendaries are also judged by the metrics of
\* their classes, so that a complete whole hides no incomplete class.
ClassesRetrieved(p) ==
  p.source = "legendaries" => /\ MetricsRetrieved(p.source, p.classCells)
                              /\ BucketsCovered(p)

\* contract_quality_report, the identities of the rows, and of minions and
\* compositions what is physically possible; shares are in thousandths.
RowsSound(p) ==
  /\ p.nameless = 0 /\ p.duplicates = 0
  /\ p.source \in {"minions", "compositions"} => p.impossible = 0
  /\ p.source = "compositions" => p.firstPlace \in 999 .. 1001

\* contract_quality_report, the part of the strict schema.
StrictReportOk(p) ==
  /\ p.version = 1
  /\ p.source = "arena_cards" => p.scoped
  /\ FreshEnough(p)
  /\ Contract(p.source).fill > 0 => MetricsRetrieved(p.source, p.cells)
  /\ ClassesRetrieved(p)
  /\ RowsSound(p)
  /\ RowsReconcile(p) /\ p.unexplained = 0

\* contract_quality_report: type, rows, collections, fill rate, deck codes.  A
\* low rolling window of the streamers is accepted, an empty one never.
ContractOk(p, early) ==
  HasContract(p.source) =>
    LET s == p.source
    IN  /\ p.typed
        /\ \/ p.rows >= MinimumRows(s, early)
           \/ s = "streamer" /\ p.rows > 0
        /\ s = "firestone_standard" => p.decks >= 10 /\ p.archetypes >= 10
        /\ s = "streamer" => p.decodable = p.rows
        /\ IF IsStrict(p) THEN StrictReportOk(p)
           ELSE 100 * p.filled >= Contract(s).fill * p.rows

-----------------------------------------------------------------------------
(* The validators, one for each type.                                      *)

\* _validate_bg_heroes
HeroesOk(p) ==
  /\ p.rows >= 30
  /\ \A n \in {p.named, p.ids, p.picks, p.averages, p.spreads} :
       n >= Larger(20, (7 * p.rows) \div 10)
  /\ p.names >= 20 /\ p.distinctAverages >= 10 /\ p.tiers >= 2

\* _validate_vicious_live: three named archetypes, at most three placeholders
\* for one deck of a name.
LiveOk(p) ==
  /\ p.ready /\ p.classes >= 8 /\ p.brackets >= 3 /\ p.rows >= 20
  /\ p.archetypes >= 3
  /\ 4 * p.placeholders <= 3 * (p.archetypes + p.placeholders)

RadarClasses == 11

\* _validate_vicious_radars, the diagnostics of the discovery: every class is
\* attempted, every item resolved, every resolved item active.
RadarDiscoveryOk(p) ==
  /\ p.attempted = RadarClasses /\ p.total = p.rows
  /\ p.resolved = p.discovered /\ p.active = p.resolved
  /\ p.classes = RadarClasses

\* _validate_vicious_radars, the rows: no identity or URL twice, an official URL
\* and a graph without dangling edges for each
RadarRowsOk(p) == p.twice = 0 /\ p.official = p.rows /\ p.broken = 0 /\ p.dated

\* _validate_vicious_radars: the codes of its errors; an old publication date
\* is only a warning.
RadarErrors(p) ==
  {c \in {"missing_issue", "outdated_issue", "issue_ahead", "discovery", "rows",
          "active_coverage", "row_issue"} :
     CASE c = "missing_issue" -> 0 \in {p.issue, p.latest}
       [] c = "outdated_issue" -> p.issue # 0 /\ p.issue < p.latest
       [] c = "issue_ahead" -> p.latest # 0 /\ p.issue > p.latest
       [] c = "discovery" -> ~RadarDiscoveryOk(p)
       [] c = "rows" -> ~RadarRowsOk(p)
       [] c = "active_coverage" -> p.parsed # p.active \/ p.parsed # p.rows
       [] c = "row_issue" -> p.latest # 0 /\ p.rowIssues # {p.latest}}

\* _validate_arena_class_matrix, _validate_arena_class_pages and
\* _validate_arena_winning_decks
ClassesOk(p) ==
  CASE p.source = "class_matrix" -> p.rows >= 8
    [] p.source = "class_pages" -> p.rows >= 10 /\ p.scored >= 10
    [] OTHER -> p.rows >= 1 /\ p.complete >= 1

\* _validate_arena_legendary_groups: an explained winrate goes with a pick rate
\* of 0, in the groups and in their classes.
ExplainedBySample(cells) ==
  \A c \in DOMAIN cells : cells[c] > 0 /\ Availability(c, TRUE) = "explained" => c.zero

LegendariesOk(p) ==
  LET floor == Larger(5, p.rows \div 2)
  IN  /\ p.rows >= 10 /\ p.keyed >= 1
      /\ \A n \in {p.scored, p.picked, p.offered} : n >= floor
      /\ IsStrict(p) => /\ Having(p.source, p.cells, {"missing", "conflict"}) = 0
                        /\ Having(p.source, p.classCells, {"missing", "conflict"}) = 0
                        /\ ExplainedBySample(p.cells) /\ ExplainedBySample(p.classCells)
                        /\ p.impossible = 0
                        /\ FreshEnough(p)

\* _validate_bg_comps and _validate_bg_card_stats
CompsOk(p) == p.rows >= 3 /\ p.withCards >= Larger(3, p.rows \div 2)
BgCardsOk(p) == p.rows >= 50 /\ p.scored >= 40

\* _validate_bg_trinkets; a combined slice needs both tiers.
TrinketsOk(p) ==
  /\ p.rows >= 8
  /\ p.source = "trinket_slice" => p.lesser >= 4 /\ p.greater >= 4
  /\ p.valid >= Larger(6, p.rows \div 2)
  /\ p.described >= Share(p.rows, 90)

\* _validate_bg_minions: strict rows count when each metric is there or
\* explained.
MinionsOk(p) ==
  /\ p.rows >= 50
  /\ IF IsStrict(p) THEN /\ Having(p.source, p.cells, {"available", "explained"}) >= 40
                         /\ Having(p.source, p.cells, {"missing", "conflict"}) = 0
                         /\ p.impossible = 0 /\ FreshEnough(p)
     ELSE p.scored >= 40

\* _validate_bg_compositions
CompositionsOk(p) ==
  /\ p.rows >= 5 /\ p.scored >= 5
  /\ IsStrict(p) => /\ p.nameless = 0 /\ p.duplicates = 0 /\ p.impossible = 0
                    /\ p.firstPlace \in 999 .. 1001 /\ FreshEnough(p)

\* _validate_arena_card_tiers, the cards: with a policy the ids are unique, four
\* fifths of the rows have a winrate and no percentage is out of range.
ArenaEarlyOk(p) ==
  LET enough == Larger(1, Share(p.rows, 80))
  IN  /\ p.ids >= enough /\ p.twice = 0
      /\ (IF IsStrict(p) THEN Having(p.source, p.cells, {"available", "explained"}) ELSE p.winrates)
           >= enough
      /\ p.impossible = 0
      /\ p.source = "firestone_arena" => p.sampled >= enough

\* _validate_arena_card_tiers: strict cards are explained exactly when they were
\* not played.
ArenaCardsOk(p, early) ==
  /\ p.rows >= IF Policy(p.source, early) THEN Contract(p.source).early ELSE 100
  /\ p.labelled \/ (IsStrict(p) /\ Having(p.source, p.cells, {"missing", "conflict"}) = 0)
  /\ IsStrict(p) =>
       /\ Having(p.source, p.cells, {"missing", "conflict"}) = 0
       /\ \A c \in DOMAIN p.cells :
            p.cells[c] > 0 => (Availability(c, TRUE) = "explained" <=> c.zero)
       /\ FreshEnough(p)
  /\ Policy(p.source, early) => ArenaEarlyOk(p)

\* _validate_heartharena_tierlist and effective_heartharena_thresholds: early
\* rows need a tier in four of five cards, stable ones two hundred.
HeartharenaOk(p, early) ==
  LET policy == Policy(p.source, early)
      tiers == IF policy THEN Larger(1, Share(Larger(p.rows, 20), 80)) ELSE 200
  IN  /\ p.classes >= IF policy THEN 1 ELSE 5
      /\ p.rows >= IF policy THEN 20 ELSE 300
      /\ p.declared = p.rows
      /\ p.tiered >= tiers
      /\ policy => p.ids >= tiers

\* _validate_card_stats, a period's cards: no leak of another format, no card
\* twice, no cascade of popular cards; provisional rows only in the early window
\* of their patch.
PeriodCardsOk(p, patch) ==
  /\ p.provisional => patch
  /\ p.standard => p.rows <= 1800
  /\ p.twice = 0 /\ p.anonymous = 0 /\ p.impossible = 0 /\ p.popular < 10

\* _validate_card_stats
CardStatsOk(p, early) ==
  LET patch == p.source = "cards_patch" /\ Policy(p.source, early)
  IN  /\ p.rows >= IF patch THEN 20 ELSE 30
      /\ p.scored >= 20
      /\ ~(p.blocked /\ p.rows < 10)
      /\ patch => p.valid >= 20
      /\ PeriodCardsOk(p, patch)

\* _validate_hsreplay_meta_archetypes
MetaArchetypesOk(p) == p.classes >= 8 /\ p.rows >= 20 /\ p.scored >= 20

\* _validate_hsguru_meta: an early table needs three complete rows.
MetaOk(p, early) ==
  /\ p.rows >= IF Policy(p.source, early) THEN Contract(p.source).early ELSE 5
  /\ Policy(p.source, early) => p.complete >= 3

\* _validate_hsguru_streamer_decks and _validate_hsguru_fun_decks
StreamerOk(p) == p.rows > 0 /\ p.complete = p.rows
FunDecksOk(p) == p.rows = 0 \/ p.scored >= Larger(1, p.rows \div 2)

\* _validate_hsguru_matchups
MatchupsOk(p, early) ==
  /\ p.rows >= 3 /\ p.scored >= 1
  /\ Policy(p.source, early) => p.complete >= 3

\* _validate_hearthstone_decks: twenty decks of either format; the rows of the
\* feeds are those of two requests.
HearthstoneDecksOk(p) ==
  /\ p.rows = 40 /\ p.ofStandard = 20 /\ p.wild = 20
  /\ p.urls = p.rows /\ p.distinctUrls = p.rows
  /\ p.decodable >= Larger(1, Share(p.rows, 95))
  /\ CASE p.strategy = "rest" -> p.posts = p.rows /\ p.requests = 2
       [] p.strategy = "html" -> TRUE
       [] OTHER -> FALSE

\* _validate_firestone_standard, the upstream snapshots: from six hours ahead to
\* thirty-six hours old
UpstreamAge(hours) == -6 <= hours /\ hours <= 36

\* _validate_firestone_standard, the rows: none out of the requested scope, and
\* core cards are missing only where an archetype has no cluster.
FirestoneRowsOk(p) ==
  /\ p.outOfScope = 0
  /\ IsStrict(p) => /\ Having(p.source, p.cells, {"missing", "conflict"}) = 0
                    /\ p.misclustered = 0

\* _validate_firestone_standard; now is the time of the validation, not that of
\* the fetch.
FirestoneOk(p, now) ==
  LET decks == Larger(1, Share(p.decks, 80))
      archetypes == Larger(1, Share(p.archetypes, 80))
  IN  /\ p.decks >= 10 /\ p.archetypes >= 10
      /\ p.completeDecks >= decks /\ p.distinctDecks >= decks
      /\ p.completeArchetypes >= archetypes /\ p.distinctArchetypes >= archetypes
      /\ p.decodable >= Larger(1, Share(p.decks, 90))
      /\ \A collection \in DOMAIN p.updated : UpstreamAge(now - p.updated[collection])
      /\ FirestoneRowsOk(p)

\* validate_structured
SemanticsOk(p, early, now) ==
  CASE p.source = "heroes" -> HeroesOk(p)
    [] p.source = "live" -> LiveOk(p)
    [] p.source = "radars" -> RadarErrors(p) = {}
    [] p.source \in {"class_matrix", "class_pages", "winning_decks"} -> ClassesOk(p)
    [] p.source = "legendaries" -> LegendariesOk(p)
    [] p.source = "comps" -> CompsOk(p)
    [] p.source = "bg_cards" -> BgCardsOk(p)
    [] p.source \in {"trinkets", "trinket_slice"} -> TrinketsOk(p)
    [] p.source = "minions" -> MinionsOk(p)
    [] p.source = "compositions" -> CompositionsOk(p)
    [] p.source \in {"arena_cards", "firestone_arena"} -> ArenaCardsOk(p, early)
    [] p.source = "heartharena" -> HeartharenaOk(p, early)
    [] p.source \in {"cards_period", "cards_patch"} -> CardStatsOk(p, early)
    [] p.source = "meta_archetypes" -> MetaArchetypesOk(p)
    [] p.source = "meta" -> MetaOk(p, early)
    [] p.source = "streamer" -> StreamerOk(p)
    [] p.source = "fun_decks" -> FunDecksOk(p)
    [] p.source = "matchups" -> MatchupsOk(p, early)
    [] p.source = "hearthstone_decks" -> HearthstoneDecksOk(p)
    [] p.source = "firestone_standard" -> FirestoneOk(p, now)
=============================================================================
