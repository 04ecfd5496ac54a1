-------------------------- MODULE ReliabilityReport --------------------------
(***************************************************************************)
(* The telemetry of the refreshes (app/reliability_telemetry.py): one row  *)
(* for each source of a run, one for each run, and the report over the     *)
(* last period.  A run is recorded when it ends, by the refresh of the     *)
(* generic sources, the jobs of the panel, the recoveries or a command of  *)
(* a pipeline; it is recorded again when its job is taken up after a       *)
(* crash, and its AI fields follow later.  Runs of one window (an          *)
(* occurrence of the schedule) are one logical refresh.                    *)
(*                                                                         *)
(* A transaction is a step; one that fails is only logged and records      *)
(* nothing.  The report is a function of the tables.  Its part about the   *)
(* schedule is in ScheduleLedger.  A status is the record of what the      *)
(* classifications read of it.                                             *)
(***************************************************************************)
EXTENDS Integers, Sequences, FiniteSets, FiniteSetsExt, SequencesExt

CONSTANTS
  Sources,
  Instrumented,   \* sources with completeness telemetry
  Gated,          \* HSREPLAY_UPSTREAM_FRESHNESS_SOURCE_IDS
  Issued,         \* the source whose reports are issued upstream (Vicious Syndicate)
  Runs,           \* [id, window, purpose, full, expected]; expected 0: all it records
  NoWindow,
  Results,        \* what a run may record: functions from sources to statuses
  Cohorts,        \* hashes of the registry of generic sources
  Ready,          \* PIPELINE_SCHEDULE_LEDGER_READY
  Period,         \* length of the report's window
  Bucket,         \* COVERAGE_BUCKET_SECONDS
  MaxGap,         \* COVERAGE_MAX_GAP_SECONDS
  Target,         \* SLO_TARGET_RATE_PCT
  MaxTime,        \* bound: the clock
  MaxRecords,     \* bound: transactions that record
  MaxUpdates      \* bound: transactions that update

VARIABLES
  now,
  cohort,         \* canonical_scrape_cohort_hash
  attempts,       \* source_attempts
  refreshes,      \* refresh_runs
  records,
  updates

vars == <<now, cohort, attempts, refreshes, records, updates>>

Good == {"fresh_published", "provisional"}
Problems == {"lkg_served", "failed", "timed_out"}
Outcomes == Good \union Problems \union {"skipped"}
Purposes == {"primary", "recovery", "manual", "diagnostic"}
Unknown == -1                   \* NULL: a number of requests or a cost

TypeOK ==
  /\ now \in 0 .. MaxTime /\ cohort \in Cohorts
  /\ records \in 0 .. MaxRecords /\ updates \in 0 .. MaxUpdates
  /\ \A a \in attempts :
       /\ a.source \in Sources /\ a.outcome \in Outcomes /\ a.finished \in 0 .. now
       /\ a.completeness \in {"untracked", "complete", "incomplete", "unknown"}
       /\ a.purpose \in Purposes /\ a.recorded \in 1 .. records
  /\ \A r \in refreshes : r.finished \in 0 .. now /\ r.observed \in Nat /\ r.expected \in Nat
  /\ \A r, q \in refreshes : r.id = q.id => r = q

Init ==
  /\ now = 0 /\ records = 0 /\ updates = 0
  /\ cohort \in Cohorts
  /\ attempts = {} /\ refreshes = {}

-----------------------------------------------------------------------------
\* _confirmed_upstream_publication_pending: the next issue was looked for and is not
\* out; ages in minutes.
Pending(src, st) ==
  /\ src = Issued /\ st.code = "unavailable"
  /\ st.awaited /\ st.candidate < st.latest /\ st.age \in -5 .. 720

\* classify_terminal_status
Outcome(src, st) ==
  CASE st.skipped \/ st.state \in {"diagnostic", "locked", "skipped"} -> "skipped"
    [] ~st.skipped /\ st.state \notin {"diagnostic", "locked", "skipped"} ->
         CASE Pending(src, st) -> "skipped"
           [] ~Pending(src, st) /\ st.state = "timed_out" -> "timed_out"
           [] ~Pending(src, st) /\ st.state # "timed_out" ->
                IF st.cached THEN "lkg_served"
                ELSE IF st.state # "ok" THEN "failed"
                ELSE IF st.provisional THEN "provisional" ELSE "fresh_published"

\* The reasons in the order in which classify_failure_reason looks for them; the
\* texts of a status are the set of the reasons whose words they contain.
Signs(src, st) ==
  <<<<"regression", "regression" \in st.says>>,
    <<"backend_policy", "backend_policy" \in st.says>>,
    <<"publication_sync", "publication_sync" \in st.says>>,
    <<"proxy_payment", st.proxy \in {402, 407} \/ "proxy_payment" \in st.says>>,
    <<"authentication", st.http = 401 \/ "authentication" \in st.says>>,
    <<"rate_limited", st.http = 429 \/ "rate_limited" \in st.says>>,
    <<"access_blocked", st.http = 403 \/ "access_blocked" \in st.says>>,
    <<"timeout", Outcome(src, st) = "timed_out" \/ "timeout" \in st.says>>,
    <<"upstream_5xx", st.http \in 500 .. 599 \/ "upstream_5xx" \in st.says>>,
    <<"upstream_4xx", st.http \in 400 .. 499>>,
    <<"contract", "contract" \in st.says>>,
    <<"parse_error", "parse_error" \in st.says>>,
    <<"preflight", "preflight" \in st.says>>,
    <<"dependency", "dependency" \in st.says>>,
    <<"unavailable", "unavailable" \in st.says>>,
    <<"transport", "transport" \in st.says>>,
    <<"unknown", TRUE>>>>

FailureReasons == {"proxy_payment", "authentication", "rate_limited", "access_blocked",
  "upstream_4xx", "upstream_5xx", "timeout", "transport", "unavailable", "contract",
  "parse_error", "regression", "backend_policy", "ai_quarantine", "publication_sync",
  "preflight", "dependency", "unknown"}

\* classify_failure_reason: what the status says itself counts first.
Reason(src, st) ==
  LET signs == Signs(src, st)
      Holds(sign) == sign[2]
  IN IF Outcome(src, st) \in Good THEN "none"
     ELSE IF st.code \in FailureReasons THEN st.code
     ELSE IF st.ai.quarantine THEN "ai_quarantine"
     ELSE signs[SelectInSeq(signs, Holds)][1]

\* _independently_ineligible_reason
Ineligible(src, st) == Pending(src, st)

\* _trusted_terminal_classification: what it accepts of a classification that was
\* made before (by the jobs of the panel).
Acceptable(outcome, reason, ineligible) ==
  /\ outcome \in Outcomes /\ reason \in FailureReasons \union {"none"}
  /\ outcome \in Good => reason = "none"
  /\ ineligible => outcome = "skipped"

\* _completeness_terminal_fields; no evidence: it is missing, disagrees or is of
\* another version.
Completeness(src, st) ==
  IF src \notin Instrumented THEN "untracked"
  ELSE IF ~st.evidence THEN "unknown"
  ELSE IF st.retrieved = "no" \/ (src \in Gated /\ st.freshness = "stale") THEN "incomplete"
  ELSE IF st.retrieved = "yes" /\ st.whole /\ (src \in Gated => st.freshness = "fresh")
       THEN "complete" ELSE "unknown"

\* _parsesunix_terminal_fields: the first evidence of the refresh, then of the last one.
NoUsage == [mode |-> "none", requests |-> Unknown, cost |-> Unknown]
Usage(st) ==
  LET Observed(evidence) == evidence.mode # "none"
      first == SelectInSeq(st.transports, Observed)
  IN IF first = 0 THEN NoUsage ELSE st.transports[first]

\* _ai_terminal_fields
NotRun == [review |-> "not_run", verdict |-> "not_run", diagnosis |-> "not_run",
           class |-> "not_run", quarantine |-> FALSE]

-----------------------------------------------------------------------------
Has(table, run, src) == \E a \in table : a.run = run.id /\ a.source = src

\* record_terminal_results: a row that is there stays (INSERT OR IGNORE).
Row(run, src, st) ==
  [run |-> run.id, window |-> run.window, source |-> src, finished |-> now,
   outcome |-> Outcome(src, st), reason |-> Reason(src, st),
   ineligible |-> Ineligible(src, st), ai |-> st.ai,
   completeness |-> Completeness(src, st), usage |-> Usage(st),
   purpose |-> run.purpose, recorded |-> records + 1]

NewRows(run, result) ==
  {Row(run, src, result[src]) : src \in {s \in DOMAIN result : ~Has(attempts, run, s)}}

Refresh(run, result) ==
  [id |-> run.id, window |-> run.window, finished |-> now,
   cohort |-> IF run.full THEN cohort ELSE "", full |-> run.full, purpose |-> run.purpose,
   expected |-> IF run.expected = 0 THEN Cardinality(DOMAIN result) ELSE run.expected,
   observed |-> Cardinality({s \in DOMAIN result : Outcome(s, result[s]) # "skipped"})]

\* ON CONFLICT: only the number of sources observed may grow, and only for the same
\* end and the same expectation.
Upserted(new) ==
  LET old == {r \in refreshes : r.id = new.id}
      Merge(r) == IF [r EXCEPT !.observed = new.observed] = new
                  THEN [r EXCEPT !.observed = Max({@, new.observed})] ELSE r
  IN IF old = {} THEN refreshes \union {new}
     ELSE (refreshes \ old) \union {Merge(r) : r \in old}

Record(run, result) ==
  /\ records < MaxRecords
  /\ records' = records + 1
  /\ attempts' = attempts \union NewRows(run, result)
  /\ refreshes' = Upserted(Refresh(run, result))
  /\ UNCHANGED <<now, cohort, updates>>

\* update_terminal_ai_results
UpdateAI(run, result) ==
  LET told(a) == a.run = run.id /\ a.source \in DOMAIN result
                 /\ [result[a.source].ai EXCEPT !.quarantine = FALSE] # NotRun
  IN /\ updates < MaxUpdates
     /\ \E a \in attempts : told(a)
     /\ updates' = updates + 1
     /\ attempts' = {IF told(a) THEN [a EXCEPT !.ai = result[a.source].ai] ELSE a
                     : a \in attempts}
     /\ UNCHANGED <<now, cohort, refreshes, records>>

\* Sources are switched on or off.
Reconfigure(c) ==
  /\ c # cohort /\ cohort' = c
  /\ UNCHANGED <<now, attempts, refreshes, records, updates>>

Tick ==
  /\ now < MaxTime /\ now' = now + 1
  /\ UNCHANGED <<cohort, attempts, refreshes, records, updates>>

Next ==
  \/ \E run \in Runs, result \in Results : Record(run, result) \/ UpdateAI(run, result)
  \/ \E c \in Cohorts : Reconfigure(c)
  \/ Tick

Spec == Init /\ [][Next]_vars

-----------------------------------------------------------------------------
\* build_reliability_report, _query_window: the period and its rows.
From == now - Period
InPeriod(table) == {row \in table : From <= row.finished /\ row.finished <= now}
Seen == InPeriod(attempts)

\* The attempts of a source in one window, or a single one, are ranked: one that was
\* not skipped first, then by their times.
Key(a) == IF a.window = NoWindow THEN <<a.source, a.run>> ELSE <<a.source, a.window>>

Outranks(a, b) ==
  \/ a.outcome # "skipped" /\ b.outcome = "skipped"
  \/ (a.outcome = "skipped" <=> b.outcome = "skipped") /\ a.recorded > b.recorded

Logical == {a \in Seen : \A b \in Seen \ {a} : Key(b) = Key(a) => Outranks(a, b)}

Number(outcomes) == Cardinality({a \in Logical : a.outcome \in outcomes})
ReasonCount(reason) ==
  Cardinality({a \in Logical : a.outcome \in Problems /\ a.reason = reason})

\* _missing_terminal_windows
RefreshOf(r) == IF r.window = NoWindow THEN r.id ELSE r.window
SeenRefreshes == InPeriod(refreshes)
Part(logical) == {r \in SeenRefreshes : RefreshOf(r) = logical}
Expected(logical) == Max({r.expected : r \in Part(logical)})
Terminal(logical) ==
  Cardinality({a.source : a \in {b \in attempts : b.run \in {r.id : r \in Part(logical)}}})

SumOver(Value(_)) ==
  MapThenSumSet(Value, {RefreshOf(r) : r \in SeenRefreshes})
Deficit(logical) == Max({0, Expected(logical) - Terminal(logical)})
Missing == SumOver(Deficit)

Eligible == Number(Good \union Problems) + Missing
UpstreamPending == Cardinality({a \in Logical : a.ineligible})
EndToEnd == Eligible + UpstreamPending
Fresh == Number({"fresh_published"})
Available == Number(Good) + Number({"lkg_served"})

\* _coverage_ratio, in buckets: those with a complete run of all generic sources of
\* today, less the runs that are missing between two others.
Complete ==
  {r \in SeenRefreshes : r.full /\ r.cohort = cohort /\ r.expected > 0
                         /\ r.observed >= r.expected}
Times == {r.finished : r \in Complete}
Ceiling(a, b) == (a + b - 1) \div b
Buckets == Max({1, Ceiling(Period, Bucket)})
Covered == Cardinality({Min({Buckets - 1, (t - From) \div Bucket}) : t \in Times})

Previous(t) == Max({u \in Times \union {From} : u < t})
Gaps(t) == Max({0, Ceiling(t - Previous(t), MaxGap) - 1})
CadenceMisses == MapThenSumSet(Gaps, (Times \union {now}) \ {From})

Coverage ==
  IF Times = {} THEN 0 ELSE Min({Covered, Buckets - Min({Buckets, CadenceMisses})})
MeasurementComplete == Coverage >= Buckets /\ Ready

\* _ratio_meets_target
Meets(part, all) == all > 0 /\ 100 * part >= Target * all

\* _slo_budget
Objective(good, eligible, complete) ==
  IF ~complete \/ eligible <= 0 THEN "collecting"
  ELSE IF Meets(good, eligible) THEN "meeting" ELSE "breached"
OverBudget(good, eligible) ==
  LET bad == Max({0, eligible - good})
  IN Max({0, Ceiling(100 * bad - eligible * (100 - Target), 100)})

\* _query_verified_completeness
Tracked(src) ==
  {a \in Logical : a.source = src /\ a.outcome # "skipped" /\ a.completeness # "untracked"}
CompleteFresh(src) ==
  {a \in Tracked(src) : a.completeness = "complete" /\ a.outcome = "fresh_published"}
TrackedCount(src) == Cardinality(Tracked(src))
FreshCount(src) == Cardinality(CompleteFresh(src))
Observed == {src \in Instrumented : Tracked(src) # {}}
AllTracked == MapThenSumSet(TrackedCount, Observed)
AllFresh == MapThenSumSet(FreshCount, Observed)
Meeting == {src \in Observed : Meets(FreshCount(src), TrackedCount(src))}

\* _macro_source_ratio_meets_target: the mean of the sources' rates.
Scale == ProductSet({TrackedCount(src) : src \in Observed} \union {1})
MacroMet ==
  LET Share(src) == (FreshCount(src) * Scale) \div TrackedCount(src)
  IN Instrumented # {} /\
     100 * MapThenSumSet(Share, Observed) >= Target * Cardinality(Instrumented) * Scale

CompletenessObjective(complete) ==
  IF \/ ~complete \/ AllTracked = 0
     \/ ~Meets(Cardinality(Instrumented), Cardinality(Sources))
     \/ ~Meets(Cardinality(Observed), Cardinality(Instrumented))
     \/ ~Meets(AllTracked, Eligible)
  THEN "collecting"
  ELSE IF /\ Meets(AllFresh, AllTracked)
          /\ Meets(Cardinality(Meeting), Cardinality(Instrumented)) /\ MacroMet
       THEN "met" ELSE "miss"

\* _query_parsesunix_rollout: a total is told only if every part of it is known.
Rollout == {a \in Logical : a.usage.mode # "none"}
Requests == MapThenSumSet(LAMBDA a : a.usage.requests, {a \in Rollout : a.usage.requests # Unknown})
Cost == MapThenSumSet(LAMBDA a : a.usage.cost, {a \in Rollout : a.usage.cost # Unknown})
PaidRequests == IF \A a \in Rollout : a.usage.requests # Unknown THEN Requests ELSE Unknown
PaidCost == IF \A a \in Rollout : a.usage.cost # Unknown THEN Cost ELSE Unknown

\* _query_outcome_recovery
Bad == {a \in Logical : a.outcome \in {"provisional", "lkg_served"}}
Recovered(a) ==
  \E b \in attempts : /\ b.source = a.source /\ b.outcome = "fresh_published"
                      /\ a.finished < b.finished /\ b.finished <= now
Reclassified(a) ==
  \E b \in attempts : /\ b.source = a.source /\ b.outcome = "skipped" /\ b.ineligible
                      /\ a.finished < b.finished /\ b.finished <= now
Resolution(a) ==
  IF Recovered(a) THEN "recovered" ELSE IF Reclassified(a) THEN "pending" ELSE "unresolved"

\* _query_ai_quality: every attempt that was not skipped.
Parsed == {a \in Seen : a.outcome # "skipped"}
Reviews(states) == Cardinality({a \in Parsed : a.ai.review \in states})
Reviewed == Cardinality({a \in Parsed : a.ai.review = "ok" /\ a.ai.verdict # "not_run"})
Diagnosed ==
  Cardinality({a \in Parsed : /\ a.outcome \in Problems /\ a.ai.diagnosis = "ok"
                              /\ a.ai.class # "not_run"})

-----------------------------------------------------------------------------
\* Each source of a run has one row, and what the row says would be accepted from a
\* caller that had classified it.
AttemptsAreSound ==
  /\ \A a, b \in attempts : a.run = b.run /\ a.source = b.source => a = b
  /\ \A a \in attempts : Acceptable(a.outcome, a.reason, a.ineligible)

\* The numbers of the report add up: each logical attempt has one outcome, each failed
\* one a reason; no rate can exceed one.
ReportAddsUp ==
  /\ Cardinality({Key(a) : a \in Seen}) = Number(Outcomes)
  /\ Number(Problems) = MapThenSumSet(ReasonCount, FailureReasons)
  /\ Fresh <= Available /\ Available <= Eligible /\ EndToEnd <= Number(Outcomes) + Missing
  /\ AllFresh <= AllTracked /\ AllTracked <= Eligible
  /\ Reviewed <= Reviews({"ok", "error"}) /\ Reviews({"ok", "error"}) <= Cardinality(Parsed)
  /\ Diagnosed <= Cardinality(Parsed)

\* Every source that a refresh in the period was to answer for is in the denominator
\* or among the skipped: rows that were never written count as missing.
NothingIsMissed == SumOver(Expected) <= Number(Outcomes) + Missing

\* A full coverage means a complete refresh in every bucket and, within the period, one
\* after the other in no more than the tolerated time.
CoverageIsCadence ==
  Coverage >= Buckets =>
    /\ \A b \in 0 .. Buckets - 1 :
         \E t \in Times : From + b * Bucket <= t /\ (t < From + (b + 1) * Bucket \/ t = now)
    /\ \A u \in From .. now - MaxGap :
         \E t \in Times \union {From, now} : u < t /\ t <= u + MaxGap

\* The objective is met exactly when the error budget is not exceeded; a verified
\* completeness that is "met" leaves no instrumented source unobserved or below the
\* target (there are fewer than a hundred).  Until the code declares itself ready the
\* objectives say "collecting"; what they will say then is checked too.
MetIsWhole ==
  \A complete \in {MeasurementComplete, TRUE} :
    /\ Eligible > 0 /\ complete =>
         (Objective(Fresh, Eligible, complete) = "meeting" <=> OverBudget(Fresh, Eligible) = 0)
    /\ CompletenessObjective(complete) = "met" => Meeting = Instrumented

\* A cost is told only when every transport of the period told its own.
CostIsKnown ==
  PaidCost # Unknown => \A a \in Logical : a.usage.mode # "none" => a.usage.cost # Unknown

\* What holds of the telemetry and its report.
ReportIsTrue ==
  /\ AttemptsAreSound /\ ReportAddsUp /\ NothingIsMissed
  /\ CoverageIsCadence /\ MetIsWhole /\ CostIsKnown

\* What a row says is never changed by a second record or an update but for its AI
\* fields; a run's expectation and end stay, and what it observed never shrinks; no
\* attempt that is skipped takes the place of a result of its window; and a stale
\* result that was resolved is not told as unresolved later, one that recovered not
\* as anything else.
RowsStayStep ==
  /\ \A a \in attempts : \E b \in attempts' : [b EXCEPT !.ai = a.ai] = a
  /\ \A r \in refreshes : \E q \in refreshes' :
       [q EXCEPT !.observed = r.observed] = r /\ q.observed >= r.observed
  /\ now' = now => \A a \in Logical : \A b \in Logical' :
       Key(b) = Key(a) /\ a.outcome # "skipped" => b.outcome # "skipped"
  /\ \A a \in Bad : /\ Recovered(a) => Resolution(a)' = "recovered"
                    /\ Resolution(a) # "unresolved" => Resolution(a)' # "unresolved"
=============================================================================
