---------------------------- MODULE ScheduleLedger ----------------------------
(***************************************************************************)
(* The ledger of scheduled work (app/schedule_ledger.py), the timers that  *)
(* claim an occurrence of it (app/cli.py), the results of their runs, and  *)
(* the report that counts them (_scheduled_reliability of                  *)
(* app/reliability_telemetry.py).  A timer reconciles the ledger: it       *)
(* writes, for the hours ahead, which source is due when and whether it    *)
(* counts.  The section switches, the publication mode and the deployed    *)
(* schedules change at any time.                                           *)
(*                                                                         *)
(* Each transaction of the database is one step.  Times are hours.         *)
(***************************************************************************)
EXTENDS Integers, Sequences, FiniteSets, FiniteSetsExt

CONSTANTS
  Schedules,
  Sources,
  Deployments,     \* the inventories that may be deployed: Schedules -> SUBSET Sources
  FirstDeployment,
  Nominal,         \* Nominal[sch] : the times of a schedule
  Refreshes,       \* Refreshes[sch] : the sources of the refreshes its timer makes in order
  EarlyOnly,       \* schedules that need the publication mode "early"
  Horizons,        \* how far ahead a reconciliation may look
  Life,            \* deadline of an occurrence after its time
  Untils,          \* ends of the early mode an operator may set; 0 is "stable"
  MaxTime,         \* bound: the clock
  MaxRuns,         \* bound: the runs
  MaxChanges       \* bound: switches, policies and deployments

VARIABLES
  now,
  tracked,         \* the deployed inventory; no source: not tracked
  enabled,         \* sources whose sections are switched on
  earlyUntil,      \* the publication policy
  rows,            \* schedule_source_windows
  ledger,          \* schedule_ledger_state; a set with at most one record
  run,             \* the timers' runs: the time of their occurrence, or 0
  part,            \* how many of its refreshes the timer's run has made
  attempts,        \* source_attempts of scheduled runs
  runs,
  changes

vars == <<now, tracked, enabled, earlyUntil, rows, ledger, run, part,
          attempts, runs, changes>>

Outcomes == {"fresh", "upstream", "nonfresh", "skipped"}

\* Times count from 1: 0 is no occurrence.
LedgerAssumption ==
  /\ IsFiniteSet(Schedules) /\ IsFiniteSet(Sources)
  /\ Deployments \subseteq [Schedules -> SUBSET Sources] /\ FirstDeployment \in Deployments
  /\ Nominal \in [Schedules -> SUBSET (Nat \ {0})]
  /\ Refreshes \in [Schedules -> Seq(SUBSET Sources) \ {<<>>}]
  /\ Horizons \union Untils \union {Life, MaxTime, MaxRuns, MaxChanges} \subseteq Nat

\* What the cohort's hash covers: the inventory, the decisions, the start.
Config == [tracked |-> tracked, on |-> enabled]
Cohorts == [config : [tracked : [Schedules -> SUBSET Sources], on : SUBSET Sources], start : Nat]

TypeOK ==
  /\ now \in 0 .. MaxTime
  /\ tracked \in Deployments /\ enabled \subseteq Sources /\ earlyUntil \in Untils
  /\ rows \subseteq [sch : Schedules, at : Nat, src : Sources, eligible : BOOLEAN,
                     cohort : Cohorts, recorded : Nat]
  /\ ledger \subseteq [cohort : Cohorts, through : Nat] /\ Cardinality(ledger) <= 1
  /\ \A r, q \in rows : r.sch = q.sch /\ r.at = q.at /\ r.src = q.src => r = q
  /\ run \in [Schedules -> Nat] /\ part \in [Schedules -> Nat]
  /\ attempts \subseteq [sch : Schedules, at : Nat, src : Sources, outcome : Outcomes,
                         finished : Nat]
  /\ runs \in 0 .. MaxRuns /\ changes \in 0 .. MaxChanges

Init ==
  /\ now = 0
  /\ tracked = FirstDeployment
  /\ enabled = Sources
  /\ earlyUntil \in Untils
  /\ rows = {}
  /\ ledger = {}
  /\ run = [s \in Schedules |-> 0] /\ part = [s \in Schedules |-> 0]
  /\ attempts = {}
  /\ runs = 0 /\ changes = 0

-----------------------------------------------------------------------------
\* effective_publication_mode at a time, by the policy of today
Early(t) == t < earlyUntil

\* _source_decisions and _occurrence_eligibility
Eligible(sch, src, t) == src \in enabled /\ (sch \in EarlyOnly => Early(t))

\* The rows of the tracked schedules between two times, as of now.
Windows(from, to, cohort) ==
  UNION {{[sch |-> sch, at |-> t, src |-> src, eligible |-> Eligible(sch, src, t),
           cohort |-> cohort, recorded |-> now]
          : t \in {n \in Nominal[sch] : from <= n /\ n < to}, src \in tracked[sch]}
         : sch \in Schedules}

\* ON CONFLICT(occurrence_id, source_id) DO NOTHING
SameSlot(r, q) == r.sch = q.sch /\ r.at = q.at /\ r.src = q.src

\* The rows of the tracked schedules that a new cohort replaces.
Outdated == {r \in rows : tracked[r.sch] # {} /\ r.at > now}

\* Mutant: a gap in the coverage goes unnoticed.
CohortStartIgnoringGap(l) ==
  IF l.cohort = [config |-> Config, start |-> l.cohort.start] THEN l.cohort.start ELSE now

\* The coverage starts anew after a changed configuration and after a gap.
CohortStart(l) ==
  IF l.cohort = [config |-> Config, start |-> l.cohort.start] /\ l.through >= now
  THEN l.cohort.start ELSE now

\* No obligation is invented for the past.
FirstWindow(start) == now

\* materialize_schedule_windows, in reconcile's transaction
Reconcile(h) ==
  LET start == IF ledger = {} THEN now ELSE Min({CohortStart(l) : l \in ledger})
      cohort == [config |-> Config, start |-> start]
      changed == \E l \in ledger : l.cohort # cohort
      kept == IF changed THEN rows \ Outdated ELSE rows
      new == {r \in Windows(FirstWindow(start), now + h, cohort) :
                \A q \in kept : ~SameSlot(r, q)}
      before == {l.through : l \in {k \in ledger : ~changed}}
  IN /\ rows' = kept \union new
     /\ ledger' = {[cohort |-> cohort, through |-> Max({now + h} \union before)]}
     /\ UNCHANGED <<now, tracked, enabled, earlyUntil, run, part, attempts, runs, changes>>

SwitchSection(src) ==
  /\ changes < MaxChanges /\ changes' = changes + 1
  /\ enabled' = IF src \in enabled THEN enabled \ {src} ELSE enabled \union {src}
  /\ UNCHANGED <<now, tracked, earlyUntil, rows, ledger, run, part, attempts, runs>>

SetPolicy(until) ==
  /\ changes < MaxChanges /\ changes' = changes + 1
  /\ until # earlyUntil
  /\ earlyUntil' = until
  /\ UNCHANGED <<now, tracked, enabled, rows, ledger, run, part, attempts, runs>>

Deploy(d) ==
  /\ changes < MaxChanges /\ changes' = changes + 1
  /\ d # tracked
  /\ \A s \in Schedules : run[s] = 0
  /\ tracked' = d
  /\ UNCHANGED <<now, enabled, earlyUntil, rows, ledger, run, part, attempts, runs>>

-----------------------------------------------------------------------------
\* The rows of occurrences that are due and not past their deadline.
Claimable(sch) == {r \in rows : r.sch = sch /\ r.at <= now /\ now <= r.at + Life}

\* The requested scope is exactly the persisted one.
ScopeMatches(sch, t) == tracked[sch] = {r.src : r \in {q \in rows : q.sch = sch /\ q.at = t}}

\* claim_occurrence by a timer's process: the latest claimable occurrence.
\* Without one, or with another scope, the process ends with an error.
Claim(sch) ==
  /\ runs < MaxRuns
  /\ tracked[sch] # {} /\ run[sch] = 0
  /\ Claimable(sch) # {}
  /\ LET t == Max({r.at : r \in Claimable(sch)}) IN
       /\ ScopeMatches(sch, t)
       /\ run' = [run EXCEPT ![sch] = t]
       /\ part' = [part EXCEPT ![sch] = 0]
  /\ runs' = runs + 1
  /\ UNCHANGED <<now, tracked, enabled, earlyUntil, rows, ledger, attempts, changes>>

\* A refresh of the run records one result for each of its sources, in one transaction.
\* _refresh_scheduled_api_tiers claims once for two of them, one for each tier.
Record(sch) ==
  /\ run[sch] # 0
  /\ sch \in EarlyOnly => Early(now)
  /\ LET scope == tracked[sch] \cap Refreshes[sch][part[sch] + 1] IN
       \E outcome \in [scope -> Outcomes] :
         /\ \A src \in scope : outcome[src] = "skipped" <=> src \notin enabled
         /\ attempts' = attempts \union
              {[sch |-> sch, at |-> run[sch], src |-> src, outcome |-> outcome[src],
                finished |-> now] : src \in scope}
  /\ part' = [part EXCEPT ![sch] = @ + 1]
  /\ run' = [run EXCEPT ![sch] = IF part[sch] + 1 < Len(Refreshes[sch]) THEN @ ELSE 0]
  /\ UNCHANGED <<now, tracked, enabled, earlyUntil, rows, ledger, runs, changes>>

\* The process dies, between two refreshes too, or finds the post-patch policy inactive
\* and records nothing.
EndUnrecorded(sch) ==
  /\ run[sch] # 0
  /\ run' = [run EXCEPT ![sch] = 0]
  /\ UNCHANGED <<now, tracked, enabled, earlyUntil, rows, ledger, part, attempts, runs, changes>>

Tick ==
  /\ now < MaxTime
  /\ now' = now + 1
  /\ UNCHANGED <<tracked, enabled, earlyUntil, rows, ledger, run, part, attempts, runs, changes>>

Next ==
  \/ \E h \in Horizons : Reconcile(h)
  \/ \E src \in Sources : SwitchSection(src)
  \/ \E until \in Untils : SetPolicy(until)
  \/ \E d \in Deployments : Deploy(d)
  \/ \E sch \in Schedules : Claim(sch) \/ Record(sch) \/ EndUnrecorded(sch)
  \/ Tick

Spec == Init /\ [][Next]_vars

-----------------------------------------------------------------------------
\* The report: the slots of the cohort, and the attempts that count for one.
Slots == {r \in rows : \E l \in ledger : r.cohort = l.cohort}
Due == {r \in Slots : r.eligible /\ r.at + Life <= now}

Of(r) == {a \in attempts : a.sch = r.sch /\ a.at = r.at /\ a.src = r.src}
InTime(r) == {a \in Of(r) : a.finished <= r.at + Life}

OnTimeFresh(r) == \E a \in InTime(r) : a.outcome = "fresh"
OnTimeUpstream(r) == \E a \in InTime(r) : a.outcome = "upstream"
OnTimeTerminal(r) == \E a \in InTime(r) : a.outcome \in {"fresh", "nonfresh"}
LateTerminal(r) == \E a \in Of(r) \ InTime(r) : a.outcome # "skipped"

\* The counters' conditions.
UpstreamPending(r) == ~OnTimeFresh(r) /\ OnTimeUpstream(r)
Nonfresh(r) == ~OnTimeFresh(r) /\ ~OnTimeUpstream(r) /\ OnTimeTerminal(r)
LateOnly(r) == ~OnTimeFresh(r) /\ ~OnTimeTerminal(r) /\ ~OnTimeUpstream(r) /\ LateTerminal(r)
Missing(r) == ~OnTimeFresh(r) /\ ~OnTimeTerminal(r) /\ ~OnTimeUpstream(r) /\ ~LateTerminal(r)

Count(P(_)) == Cardinality({r \in Due : P(r)})

\* The slots a parser could have met: what upstream had not published is not
\* its fault.
ParserEligible == Cardinality({r \in Due : ~UpstreamPending(r)})

\* A report of the time since the coverage began: the coverage lasts until
\* now, and every schedule is tracked ("observed").
Observed ==
  \E l \in ledger : /\ l.cohort.start < now /\ now <= l.through
                    /\ \A sch \in Schedules : l.cohort.config.tracked[sch] # {}

\* _ratio_meets_target, with the target of 99 per cent, for a number of slots
Objective(slots) ==
  IF ~Observed \/ slots = 0 THEN "collecting"
  ELSE IF 100 * Count(OnTimeFresh) >= 99 * slots THEN "meeting" ELSE "breached"

-----------------------------------------------------------------------------
\* The counters of the report add up to the slots that are due: none is
\* counted twice or not at all, whatever attempts a slot has had; and the
\* verdict on the parsers is at least as good as the one on all slots.
ReportAddsUp ==
  /\ Cardinality(Due) = Count(OnTimeFresh) + Count(UpstreamPending) + Count(Nonfresh)
                         + Count(LateOnly) + Count(Missing)
  /\ Objective(Cardinality(Due)) = "meeting" => Objective(ParserEligible) = "meeting"

\* An observed report, the only kind with a verdict, has a slot for every
\* occurrence since the coverage began: a change of the configuration or a gap
\* in the coverage is not passed over in silence.
VerdictsAreFounded ==
  Observed =>
    \A l \in ledger : \A sch \in Schedules : \A t \in Nominal[sch] :
      l.cohort.start < t /\ t < now => \E r \in Slots : r.sch = sch /\ r.at = t

\* Between the start of the coverage and its end the ledger has a row of the
\* cohort for every occurrence of every source, decided as the cohort says: the
\* report's "continuous" coverage, through changes, gaps and short horizons.
CoverageIsComplete ==
  \A l \in ledger : \A sch \in Schedules : \A src \in l.cohort.config.tracked[sch] :
    \A t \in Nominal[sch] :
      l.cohort.start < t /\ t < l.through =>
        \E r \in rows : /\ r.sch = sch /\ r.src = src /\ r.at = t /\ r.cohort = l.cohort
                        /\ r.eligible => src \in l.cohort.config.on
                        /\ sch \notin EarlyOnly /\ src \in l.cohort.config.on => r.eligible

\* No obligation is recorded after its time, and none of a cohort before the
\* cohort's start ("without inventing obligations before activation").
NoInventedObligation ==
  \A r \in rows : r.recorded <= r.at /\ r.cohort.start <= r.at

\* What was due stays as it was decided: its row neither changes nor goes
\* (test_changed_eligibility_updates_future_rows_but_keeps_due_decision).
DueDecisionsStayStep ==
  \A r \in rows : r.at <= now => r \in rows'

\* Every recorded result belongs to a row, of a time that had come: a run's
\* occurrence is not taken away or cut down under it by a reconciliation.
ResultsHaveSlots ==
  \A a \in attempts : /\ a.at <= a.finished
                      /\ \E r \in rows : r.sch = a.sch /\ r.at = a.at /\ r.src = a.src

\* Once its deadline has passed, a slot's place in the report changes only
\* from missing to late, or with the cohort.
VerdictsAreFinalStep ==
  \A r \in Due : r.at + Life < now /\ ledger' = ledger =>
    /\ OnTimeFresh(r)' = OnTimeFresh(r)
    /\ Nonfresh(r)' = Nonfresh(r)
    /\ UpstreamPending(r)' = UpstreamPending(r)
    /\ LateOnly(r) => LateOnly(r)'
=============================================================================
