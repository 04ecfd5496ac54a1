-------------------------- MODULE ConvergenceChain --------------------------
(***************************************************************************)
(* One recovery chain of the freshness convergence ledger                  *)
(* (app/convergence_store.py): the failures of the sources of one cohort   *)
(* in one scheduled window.  A planner (app/convergence_planner.py) reads  *)
(* terminal results after its cursor and adds them to the chain; workers   *)
(* (app/convergence_worker.py) claim a due chain with a lease, repeat the  *)
(* fetch and finish the attempt.  Each operation of the store is one       *)
(* SQLite transaction (BEGIN IMMEDIATE), hence one step; the planner's run *)
(* is several.                                                             *)
(*                                                                         *)
(* Abstracted: costs of an attempt, other chains (they only compete for    *)
(* the worker), the outcome of a fetch (a free choice of the decision of   *)
(* app/convergence_policy.py that follows from it).  "recovered" is not    *)
(* stored by the program: it says what recovery achieved.                  *)
(***************************************************************************)
EXTENDS Integers, Sequences, FiniteSets

CONSTANTS
  Sources,         \* the sources of the cohort
  Retries,         \* decisions that repeat something, with delays
  Stops,           \* decisions that wait for a person
  Delays,          \* the delays of each retry
  Horizon,         \* how long after the failure a chain may be worked on
  Eligible,        \* sources a worker may retry, for each retry it executes
  Lease,           \* duration of the lease, likewise
  Workers,         \* worker processes
  Owner,           \* lease owner of each (the pid: containers may share it)
  NoOwner,         \* no lease
  MaxTime,         \* bound: the last moment
  MaxReports,      \* bound: failures of the window
  MaxCrashes       \* bound: processes that die

ASSUME DecisionAssumption ==
  /\ Retries \subseteq {"retry_transport", "retry_candidate", "retry_local",
                        "retry_publication", "retry_scheduler",
                        "probe_upstream"}
  /\ Stops \subseteq {"pause_provider", "quarantine", "diagnose"}
  /\ Delays \in [Retries -> Seq(Nat \ {0})]
  /\ \A a \in Retries : Delays[a] # <<>>
  /\ Horizon \in [Retries \union Stops -> Nat \ {0}]

ASSUME WorkerAssumption ==
  /\ DOMAIN Eligible \subseteq Retries
  /\ \A a \in DOMAIN Eligible : Eligible[a] \subseteq Sources
  /\ Lease \in [DOMAIN Eligible -> Nat \ {0}]
  /\ DOMAIN Owner = Workers
  /\ \A w \in Workers : Owner[w] # NoOwner

ASSUME BoundAssumption ==
  MaxTime \in Nat /\ MaxReports \in Nat /\ MaxCrashes \in Nat

VARIABLES
  now,             \* the time; moments are positive, 0 stands for NULL
  reports,         \* failures of primary attempts, by finished_at
  freshAt,         \* last fresh primary publication of each source
  cursor,          \* the planner's cursor: reports dealt with
  planner,         \* the planner's run
  chain,           \* row of convergence_chains with its sources
  attempts,        \* rows of convergence_attempts, by attempt_number
  pc, claim,       \* each worker and the claim it works on
  recovered,       \* sources a completed attempt has made fresh
  crashes

feedVars == <<reports, freshAt>>
plannerVars == <<cursor, planner>>
storeVars == <<chain, attempts>>
workerVars == <<pc, claim, recovered>>
vars == <<now, feedVars, plannerVars, storeVars, workerVars, crashes>>

-----------------------------------------------------------------------------
Due == {"waiting", "upstream_pending"}

\* Mutant: a chain that waits for upstream is never given up.
UnresolvedWithoutUpstream == {"waiting", "running"}

Unresolved == Due \union {"running"}

Stopped == {"paused", "quarantined", "diagnosis_required"}

ChainStates == {"none", "fresh", "exhausted"} \union Unresolved \union Stopped

\* _initial_state
InitialState(action) ==
  CASE action = "probe_upstream" -> "upstream_pending"
    [] action = "pause_provider" -> "paused"
    [] action = "quarantine"     -> "quarantined"
    [] action = "diagnose"       -> "diagnosis_required"
    [] OTHER                     -> "waiting"

Decisions == {"complete"} \union Retries \union Stops

Owners == {Owner[w] : w \in Workers}

Reports == [source : Sources, action : Retries \union Stops, at : Nat]

\* An attempt that ended is finished by its worker or expired with its lease.
Attempts ==
  [action : Retries, owner : Owners, state : {"running", "finished", "expired"}]

Chains ==
  [state : ChainStates, action : Decisions \union {"none"}, index : Nat,
   nextAt : Nat, owner : Owners \union {NoOwner}, until : Nat,
   sources : SUBSET Sources, created : Nat, deadline : Nat]

TypeOK ==
  /\ now \in Nat \ {0}
  /\ reports \in Seq(Reports)
  /\ freshAt \in [Sources -> Nat]
  /\ cursor \in Nat
  /\ planner \in [step : {"idle", "planning", "reconciled"},
                  next : Nat \ {0}, last : 0 .. Len(reports)]
  /\ chain \in Chains
  /\ attempts \in Seq(Attempts)
  /\ pc \in [Workers -> {"idle", "running"}]
  /\ claim \in [Workers -> [number : Nat, at : Nat, sources : SUBSET Sources]]
  /\ recovered \in SUBSET Sources
  /\ crashes \in 0 .. MaxCrashes

NoChain ==
  [state |-> "none", action |-> "none", index |-> 0, nextAt |-> 0,
   owner |-> NoOwner, until |-> 0, sources |-> {}, created |-> 0,
   deadline |-> 0]

Init ==
  /\ now = 1
  /\ reports = <<>>
  /\ freshAt = [s \in Sources |-> 0]
  /\ cursor = 0
  /\ planner = [step |-> "idle", next |-> 1, last |-> 0]
  /\ chain = NoChain
  /\ attempts = <<>>
  /\ pc = [w \in Workers |-> "idle"]
  /\ claim = [w \in Workers |-> [number |-> 0, at |-> 0, sources |-> {}]]
  /\ recovered = {}
  /\ crashes = 0

-----------------------------------------------------------------------------
\* The refresh records a primary failure of the window, or publishes.
Report(s, action) ==
  /\ Len(reports) < MaxReports
  /\ now + Horizon[action] <= MaxTime
  /\ reports' = Append(reports, [source |-> s, action |-> action, at |-> now])
  /\ UNCHANGED <<now, freshAt, plannerVars, storeVars, workerVars, crashes>>

PublishPrimary(s) ==
  /\ freshAt' = [freshAt EXCEPT ![s] = now]
  /\ UNCHANGED <<now, reports, plannerVars, storeVars, workerVars, crashes>>

\* create_or_get_chain: the first failure makes the chain, a later one only
\* adds its source, whatever the chain is doing.
Created(report) ==
  [NoChain EXCEPT
     !.state = InitialState(report.action),
     !.action = report.action,
     !.nextAt = IF report.action \in Retries
                THEN report.at + Delays[report.action][1] ELSE 0,
     !.sources = {report.source},
     !.created = report.at,
     !.deadline = report.at + Horizon[report.action]]

WithReport(report) ==
  IF chain.state = "none" THEN Created(report)
  ELSE [chain EXCEPT !.sources = @ \union {report.source}]

\* reconcile_fresh_primary_outcomes
Closable == Due \union Stopped \union {"exhausted"}

Superseded ==
  /\ chain.state \in Closable
  /\ \A s \in chain.sources : freshAt[s] > chain.created

Reconciled ==
  IF Superseded
  THEN [chain EXCEPT !.state = "fresh", !.action = "complete", !.nextAt = 0,
                     !.owner = NoOwner, !.until = 0]
  ELSE chain

-----------------------------------------------------------------------------
\* plan_once: read the results after the cursor, add each, reconcile, and
\* only then move the cursor.
PlannerReads ==
  /\ planner.step = "idle"
  /\ planner' = [step |-> "planning", next |-> cursor + 1,
                 last |-> Len(reports)]
  /\ UNCHANGED <<now, feedVars, cursor, storeVars, workerVars, crashes>>

PlannerAdds ==
  /\ planner.step = "planning"
  /\ planner.next <= planner.last
  /\ chain' = WithReport(reports[planner.next])
  /\ planner' = [planner EXCEPT !.next = @ + 1]
  /\ UNCHANGED <<now, feedVars, cursor, attempts, workerVars, crashes>>

PlannerReconciles ==
  /\ planner.step = "planning"
  /\ planner.next > planner.last
  /\ chain' = Reconciled
  /\ planner' = [planner EXCEPT !.step = "reconciled"]
  /\ UNCHANGED <<now, feedVars, cursor, attempts, workerVars, crashes>>

\* Mutant: the cursor moves to the newest result instead of the last one read.
NewestResult == Len(reports)

LastResult == planner.last

PlannerAdvances ==
  /\ planner.step = "reconciled"
  /\ cursor' = IF LastResult > cursor THEN LastResult ELSE cursor
  /\ planner' = [planner EXCEPT !.step = "idle"]
  /\ UNCHANGED <<now, feedVars, storeVars, workerVars, crashes>>

PlannerCrashes ==
  /\ planner.step # "idle"
  /\ crashes < MaxCrashes
  /\ planner' = [planner EXCEPT !.step = "idle"]
  /\ crashes' = crashes + 1
  /\ UNCHANGED <<now, feedVars, cursor, storeVars, workerVars>>

-----------------------------------------------------------------------------
\* claim_due, first part: an expired lease frees the chain, then a chain
\* past its deadline is given up, running or not.
LeaseOver == chain.state = "running" /\ chain.until <= now

Freed ==
  IF LeaseOver
  THEN [chain EXCEPT !.state = "waiting", !.nextAt = now, !.owner = NoOwner,
                     !.until = 0]
  ELSE chain

\* Mutant: the attempt whose lease expired stays a running one.
FreedAttemptsUnmarked == attempts

FreedAttempts ==
  IF LeaseOver
  THEN [i \in DOMAIN attempts |->
          IF attempts[i].state = "running"
          THEN [attempts[i] EXCEPT !.state = "expired"] ELSE attempts[i]]
  ELSE attempts

Swept ==
  IF Freed.state \in Unresolved /\ Freed.deadline <= now
  THEN [Freed EXCEPT !.state = "exhausted", !.nextAt = 0, !.owner = NoOwner,
                     !.until = 0]
  ELSE Freed

\* Mutant: one source of the chain is enough to retry it.
MatchesAnySource(action) ==
  /\ chain.action = action
  /\ chain.sources \intersect Eligible[action] # {}

\* The filters of a pass: its action, and sources that are all eligible.
Matches(action) ==
  /\ chain.action = action
  /\ chain.sources \subseteq Eligible[action]

CanClaim(action) ==
  /\ Matches(action)
  /\ Swept.state \in Due
  /\ Swept.nextAt # 0
  /\ Swept.nextAt <= now
  /\ Swept.deadline > now

\* Mutant: a chain whose worker died is not due.
HasDueUnlessRunning(action) ==
  /\ Matches(action)
  /\ chain.deadline > now
  /\ chain.state \in Due
  /\ chain.nextAt # 0
  /\ chain.nextAt <= now

\* has_due: the same question without claiming.
HasDue(action) ==
  /\ Matches(action)
  /\ chain.deadline > now
  /\ \/ chain.state \in Due /\ chain.nextAt # 0 /\ chain.nextAt <= now
     \/ LeaseOver

\* A pass of a worker: claim the chain, or leave it swept.
Claim(w, action) ==
  /\ pc[w] = "idle"
  /\ CanClaim(action)
  /\ chain' = [Swept EXCEPT !.state = "running", !.index = @ + 1,
                            !.nextAt = 0, !.owner = Owner[w],
                            !.until = now + Lease[action]]
  /\ attempts' = Append(FreedAttempts, [action |-> action, owner |-> Owner[w],
                                        state |-> "running"])
  /\ pc' = [pc EXCEPT ![w] = "running"]
  /\ claim' = [claim EXCEPT ![w] = [number |-> chain.index + 1, at |-> now,
                                    sources |-> chain.sources]]
  /\ UNCHANGED <<now, feedVars, plannerVars, recovered, crashes>>

Sweep(w, action) ==
  /\ pc[w] = "idle"
  /\ ~CanClaim(action)
  /\ chain' = Swept
  /\ attempts' = FreedAttempts
  /\ UNCHANGED <<now, feedVars, plannerVars, workerVars, crashes>>

-----------------------------------------------------------------------------
\* Mutant: an attempt that was already given up is accepted.
StillRunningUnchecked(w) == TRUE

StillRunning(w) == attempts[claim[w].number].state = "running"

\* Mutant: a chain without a lease is accepted.
HoldsLeaseIfAny(w) ==
  \/ chain.owner = NoOwner
  \/ chain.owner = Owner[w] /\ chain.until > claim[w].at

\* The worker reports with the time of its claim, so it finds its lease
\* unexpired however long the fetch took.
HoldsLease(w) == chain.owner = Owner[w] /\ chain.until > claim[w].at

\* Mutant: only attempts since the last change of action count.
TriedSinceSwitch(action) ==
  Cardinality({i \in DOMAIN attempts :
                 \A j \in i .. Len(attempts) : attempts[j].action = action})

\* Attempts of the chain with this action, expired ones included.
Tried(action) ==
  Cardinality({i \in DOMAIN attempts : attempts[i].action = action})

NextAt(w, d) == claim[w].at + Delays[d][Tried(d) + 1]

Reschedules(w, d) ==
  /\ d \in Retries
  /\ Tried(d) < Len(Delays[d])
  /\ NextAt(w, d) < chain.deadline

Decided(w, d) ==
  [chain EXCEPT
     !.action = d,
     !.state = IF d = "complete" THEN "fresh"
               ELSE IF d \in Stops \/ Reschedules(w, d) THEN InitialState(d)
               ELSE "exhausted",
     !.nextAt = IF Reschedules(w, d) THEN NextAt(w, d) ELSE 0,
     !.owner = NoOwner,
     !.until = 0]

\* finish_attempt with the decision that follows from the results: complete
\* when every source of the claim came out fresh.
Finish(w, d) ==
  /\ pc[w] = "running"
  /\ StillRunning(w)
  /\ HoldsLease(w)
  /\ attempts' = [attempts EXCEPT ![claim[w].number].state = "finished"]
  /\ chain' = Decided(w, d)
  /\ recovered' = IF d = "complete" THEN recovered \union claim[w].sources
                  ELSE recovered
  /\ pc' = [pc EXCEPT ![w] = "idle"]
  /\ UNCHANGED <<now, feedVars, plannerVars, claim, crashes>>

\* The attempt expired meanwhile (the chain is returned as it is), or the
\* chain was given up under the worker (PermissionError).
FinishTooLate(w) ==
  /\ pc[w] = "running"
  /\ ~StillRunning(w) \/ ~HoldsLease(w)
  /\ pc' = [pc EXCEPT ![w] = "idle"]
  /\ UNCHANGED <<now, feedVars, plannerVars, storeVars, claim, recovered,
                 crashes>>

Crash(w) ==
  /\ pc[w] = "running"
  /\ crashes < MaxCrashes
  /\ pc' = [pc EXCEPT ![w] = "idle"]
  /\ crashes' = crashes + 1
  /\ UNCHANGED <<now, feedVars, plannerVars, storeVars, claim, recovered>>

Tick ==
  /\ now < MaxTime
  /\ now' = now + 1
  /\ UNCHANGED <<feedVars, plannerVars, storeVars, workerVars, crashes>>

-----------------------------------------------------------------------------
Planner == PlannerReads \/ PlannerAdds \/ PlannerReconciles \/ PlannerAdvances

Works(w) == FinishTooLate(w) \/ \E d \in Decisions : Finish(w, d)

Polls(w) == \E a \in DOMAIN Eligible : Claim(w, a) \/ Sweep(w, a)

Next ==
  \/ \E s \in Sources :
       \/ \E a \in Retries \union Stops : Report(s, a)
       \/ PublishPrimary(s)
  \/ Planner
  \/ PlannerCrashes
  \/ \E w \in Workers : Polls(w) \/ Works(w) \/ Crash(w)
  \/ Tick

Spec == Init /\ [][Next]_vars

\* Timers start the planner and a worker again and again (systemd/*.timer);
\* a fetch ends or is ended by its timeout.
Fairness ==
  /\ WF_vars(Tick)
  /\ WF_vars(Planner)
  /\ \A w \in Workers : WF_vars(Polls(w)) /\ WF_vars(Works(w))

FairSpec == Spec /\ Fairness

-----------------------------------------------------------------------------
\* A chain has at most one attempt that may still decide it, the newest, and
\* it is running exactly as long as that attempt holds its lease.  Only a
\* chain that is closed leaves an attempt running for ever.
OneRunningAttempt ==
  /\ Len(attempts) = chain.index
  /\ \A i \in DOMAIN attempts :
       attempts[i].state = "running" =>
         i = chain.index /\ chain.state \in {"running", "exhausted", "fresh"}
  /\ chain.state = "running" =>
       /\ chain.index # 0
       /\ attempts[chain.index].state = "running"
       /\ attempts[chain.index].owner = chain.owner
       /\ chain.until # 0
  /\ chain.state # "running" => chain.owner = NoOwner /\ chain.until = 0

\* Answers that come late change nothing: a worker that ends its work writes
\* the chain only for the newest attempt of a running chain, even when the
\* owner names of two workers are the same.
OnlyNewestAttemptDecides ==
  [][\A w \in Workers :
       pc[w] = "running" /\ pc'[w] = "idle" /\ storeVars' # storeVars
         => chain.state = "running" /\ claim[w].number = chain.index]_vars

\* A chain that is closed or waits for a person is not worked on again: it
\* can only turn fresh, and a fresh one stays so.
ClosedStaysClosed ==
  [][/\ chain.state = "fresh" => chain'.state = "fresh"
     /\ chain.state \in Stopped \union {"exhausted"}
          => chain'.state \in {chain.state, "fresh"}]_vars

\* A policy's delays bound the attempts that ran to their end, however often
\* workers died or the decision changed in between.
FinishedWith(a) ==
  {i \in DOMAIN attempts :
     attempts[i].action = a /\ attempts[i].state = "finished"}

BoundedAttempts ==
  \A a \in Retries : Cardinality(FinishedWith(a)) <= Len(Delays[a])

\* has_due says yes exactly when a claim at that moment would succeed.
HasDueAgrees == \A a \in DOMAIN Eligible : HasDue(a) <=> CanClaim(a)

\* A worker only ever repeats fetches of sources it may retry, also when
\* sources are added to the chain.
OnlyEligibleClaimed ==
  \A w \in Workers :
    pc[w] = "running" => claim[w].sources \subseteq
                           Eligible[attempts[claim[w].number].action]

\* The planner's cursor never passes a failure that is not in the chain, also
\* when a run of the planner dies half-way.
NoFailureSkipped ==
  \A i \in 1 .. cursor :
    i \in DOMAIN reports /\ reports[i].source \in chain.sources

\* Every chain is settled: recovered, given up, or handed to a person.
ChainSettles ==
  chain.state \in Due \union {"running"} ~>
    chain.state \in {"fresh", "exhausted"} \union Stopped

\* Every failure that was reported reaches the chain.
FailureReachesChain ==
  \A n \in 1 .. MaxReports :
    Len(reports) >= n ~> n \in DOMAIN reports
                         /\ reports[n].source \in chain.sources

\* What tests/test_convergence_worker.py says of a completed chain: fresh
\* only after all its sources are.
FreshMeansEverySource ==
  chain.state = "fresh" =>
    \A s \in chain.sources : freshAt[s] > chain.created \/ s \in recovered

-----------------------------------------------------------------------------
\* The inductive invariant: besides the properties above, what a worker holds
\* is an attempt of the chain, a chain that was never made is empty, and the
\* planner has added what it has passed.
ClaimsKnown ==
  \A w \in Workers : pc[w] = "running" => claim[w].number \in DOMAIN attempts

UnmadeIsEmpty ==
  chain.state = "none" => chain.index = 0 /\ chain.sources = {}

PlannerCovers ==
  /\ cursor <= Len(reports)
  /\ planner.step # "idle" =>
       /\ planner.next <= planner.last + 1
       /\ \A i \in 1 .. planner.next - 1 : reports[i].source \in chain.sources
  /\ planner.step = "reconciled" => planner.next > planner.last

\* Why the attempts are bounded: a chain that is due or running still has a
\* delay left for its action, and a running one works on that action.
BudgetLeft ==
  chain.state \in Unresolved =>
    /\ chain.action \in Retries
    /\ Cardinality(FinishedWith(chain.action)) < Len(Delays[chain.action])
    /\ chain.state = "running" => attempts[chain.index].action = chain.action

Inv ==
  /\ OneRunningAttempt
  /\ ClaimsKnown
  /\ OnlyEligibleClaimed
  /\ UnmadeIsEmpty
  /\ PlannerCovers
  /\ NoFailureSkipped
=============================================================================
