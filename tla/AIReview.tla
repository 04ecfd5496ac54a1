-------------------------------- MODULE AIReview --------------------------------
(***************************************************************************)
(* The model that looks at what a refresh has made                         *)
(* (src/app/ai_review.py, and its callers in src/app/fetcher.py).  In mode *)
(* "quarantine" a candidate that passes the gates is shown to it before it *)
(* is saved, and can be rejected; in mode "observe" candidates that were   *)
(* served, and in both modes sources that failed, are queued and reviewed  *)
(* when the refresh is over.  Reviews go in two lanes, each with places, a *)
(* budget of requests and a circuit of its own.                            *)
(*                                                                         *)
(* A verdict says which checks of the page passed and names reasons; the   *)
(* evidence it is made from is not modelled.                               *)
(***************************************************************************)
EXTENDS Integers, FiniteSets

CONSTANTS
  Sources,         \* numbers, in the order of the refresh
  Mode,
  Paid,            \* the sources with a paid fallback, whose candidate is reviewed too
  Verdicts,        \* answers of the model, as it words them
  Places,          \* requests a lane may have in flight
  MaxReviews,      \* requests of a lane in a refresh, retries included
  Threshold,       \* failures in a row that open the circuit of a lane
  Attempts

VARIABLES
  phase,           \* "refresh", then "flush" of the queued reviews, then "done"
  outcome,         \* what became of a source
  first,           \* why its own candidate was given up, while the fallback is asked
  job,             \* its review
  used, streak, open,
  attached,        \* the telemetry in its status
  wide             \* the refresh failed as a whole

vars == <<phase, outcome, first, job, used, streak, open, attached, wide>>

Lanes == {"candidate", "diagnosis"}

Checks == {"target", "unchallenged", "complete", "compatible"}
CheckOf ==
  [identity_mismatch |-> "target", login_wall |-> "target", challenge_page |-> "unchallenged",
   unexpected_empty |-> "complete", suspicious_truncation |-> "complete",
   schema_mismatch |-> "compatible", implausible_values |-> "compatible"]
Actionable == DOMAIN CheckOf
Reasons == Actionable \union {"none", "low_sample_expected", "deterministic_conflict"}

\* The settings as config.py clips them, and the answers the schema of a verdict admits.
ReviewAssumption ==
  /\ IsFiniteSet(Sources) /\ Sources \in SUBSET Nat
  /\ Places \in [Lanes -> Nat \ {0}] /\ MaxReviews \in [Lanes -> Nat \ {0}]
  /\ Threshold \in Nat \ {0} /\ Attempts \in Nat \ {0}
  /\ Mode \in {"observe", "quarantine"}
  /\ Verdicts \subseteq [verdict : {"pass", "fail", "uncertain"}, confident : BOOLEAN,
                         passed : SUBSET Checks, reasons : SUBSET Reasons]

NoAnswer == [state |-> "none"]
Telling(state) == [state |-> state]
NoJob == [lane |-> "none", st |-> "none", attempt |-> 0, late |-> FALSE, answer |-> NoAnswer]
QueuedJob(lane) == [NoJob EXCEPT !.lane = lane, !.st = "queued", !.attempt = 1]

Ended == {"served", "rejected", "quarantined", "failed"}
Jobs(lane) == {s \in Sources : job[s].lane = lane}

TypeOK ==
  /\ phase \in {"refresh", "flush", "done"}
  /\ outcome \in [Sources -> Ended \union {"fetching", "reviewing"}]
  /\ first \in [Sources -> {"none", "rejected", "quarantined"}]
  /\ \A s \in Sources :
       /\ job[s].lane \in Lanes \union {"none"}
       /\ job[s].st \in {"none", "queued", "ready", "waiting", "asking", "pausing", "over"}
       /\ job[s].attempt \in 0 .. Attempts /\ job[s].late \in BOOLEAN
  /\ used \in [Lanes -> Nat] /\ streak \in [Lanes -> Nat] /\ open \subseteq Lanes
  /\ wide \in BOOLEAN

Init ==
  /\ phase = "refresh" /\ outcome = [s \in Sources |-> "fetching"]
  /\ first = [s \in Sources |-> "none"] /\ job = [s \in Sources |-> NoJob]
  /\ used = [l \in Lanes |-> 0] /\ streak = [l \in Lanes |-> 0] /\ open = {}
  /\ attached = [s \in Sources |-> [l \in Lanes |-> NoAnswer]]
  /\ wide = FALSE

-----------------------------------------------------------------------------
(* A verdict.                                                              *)

Contradicts(reasons) ==
  \/ "none" \in reasons /\ Cardinality(reasons) > 1
  \/ reasons \intersect {"deterministic_conflict", "low_sample_expected"} # {}

\* What the checks and the reasons say together.
Signal(v) ==
  LET named == v.reasons \intersect Actionable IN
  CASE v.passed = Checks /\ v.reasons = {"none"} -> "pass"
    [] /\ v.passed # Checks /\ named # {} /\ ~Contradicts(v.reasons)
       /\ \A r \in named : CheckOf[r] \notin v.passed -> "fail"
    [] OTHER -> "uncertain"

\* Only a verdict that agrees with them stands.
Normalized(v) ==
  LET effective == IF v.verdict = Signal(v) THEN v.verdict ELSE "uncertain"
      concrete == v.reasons \ {"none"} IN
  [v EXCEPT
     !.verdict = effective,
     !.reasons = CASE effective = "pass" -> {"none"}
                   [] effective = "fail" -> concrete
                   [] effective = "uncertain" ->
                        IF Contradicts(v.reasons) \/ v.verdict # "uncertain" \/ concrete = {}
                        THEN concrete \union {"deterministic_conflict"} ELSE concrete]

ShouldQuarantine(answer) ==
  /\ answer.state = "ok" /\ Mode = "quarantine"
  /\ answer.verdict.verdict = "fail" /\ answer.verdict.confident

-----------------------------------------------------------------------------
(* The sources of the refresh.                                             *)

Unreviewed == <<used, streak, open, wide>>

\* The queue takes as many reviews of a lane as the lane has requests.
Enqueued(lane, s) ==
  IF Cardinality(Jobs(lane)) < MaxReviews[lane]
  THEN [job EXCEPT ![s] = QueuedJob(lane)] ELSE [job EXCEPT ![s] = NoJob]

End(s, how) == outcome' = [outcome EXCEPT ![s] = how]

Reject(s) ==
  /\ End(s, "rejected")
  /\ job' = Enqueued("diagnosis", s)

CandidateRejected(s) ==
  /\ phase = "refresh" /\ outcome[s] = "fetching"
  /\ IF s \in Paid /\ first[s] = "none"
     THEN first' = [first EXCEPT ![s] = "rejected"] /\ UNCHANGED <<outcome, job>>
     ELSE Reject(s) /\ UNCHANGED first
  /\ attached' = [attached EXCEPT ![s]["candidate"] = NoAnswer]
  /\ UNCHANGED <<phase, Unreviewed>>

CandidatePasses(s) ==
  /\ phase = "refresh" /\ outcome[s] = "fetching"
  /\ IF Mode = "quarantine"
     THEN End(s, "reviewing") /\ job' = [job EXCEPT ![s] = [QueuedJob("candidate") EXCEPT !.st = "ready"]]
     ELSE \/ End(s, "served") /\ job' = Enqueued("candidate", s)
          \/ Reject(s)
  /\ UNCHANGED <<phase, first, attached, Unreviewed>>

\* The fallback has nothing to show: the source ends as its own candidate did.
FallbackFails(s) ==
  /\ phase = "refresh" /\ outcome[s] = "fetching" /\ first[s] # "none"
  /\ IF first[s] = "rejected" THEN Reject(s) ELSE End(s, "quarantined") /\ UNCHANGED job
  /\ UNCHANGED <<phase, first, attached, Unreviewed>>

FetchFails(s) ==
  /\ phase = "refresh" /\ outcome[s] = "fetching" /\ first[s] = "none"
  /\ End(s, "failed")
  /\ UNCHANGED <<phase, first, job, attached, Unreviewed>>

\* The review of a candidate that waits to be saved is over.
Decide(s) ==
  /\ outcome[s] = "reviewing" /\ job[s].st = "over"
  /\ attached' = [attached EXCEPT ![s]["candidate"] = job[s].answer]
  /\ IF ShouldQuarantine(job[s].answer)
     THEN IF s \in Paid /\ first[s] = "none"
          THEN /\ first' = [first EXCEPT ![s] = "quarantined"]
               /\ End(s, "fetching") /\ job' = [job EXCEPT ![s] = NoJob]
          ELSE End(s, "quarantined") /\ UNCHANGED <<first, job>>
     ELSE /\ \/ End(s, "served") /\ UNCHANGED job
             \/ Reject(s)
          /\ UNCHANGED first
  /\ UNCHANGED <<phase, Unreviewed>>

\* A failure before the first source: one diagnosis speaks for all.
RefreshFails ==
  /\ phase = "refresh" /\ \A s \in Sources : outcome[s] = "fetching" /\ first[s] = "none"
  /\ outcome' = [s \in Sources |-> "failed"]
  /\ LET speaker == CHOOSE s \in Sources : \A t \in Sources : s <= t IN
     job' = [job EXCEPT ![speaker] = [QueuedJob("diagnosis") EXCEPT !.st = "ready"]]
  /\ phase' = "flush" /\ wide' = TRUE
  /\ UNCHANGED <<first, used, streak, open, attached>>

Diagnosable(s) ==
  /\ outcome[s] \in {"failed", "rejected"} /\ job[s].lane # "diagnosis"

\* Sources that failed without a diagnosis get one, first come, first served.
Flush ==
  /\ phase = "refresh" /\ \A s \in Sources : outcome[s] \in Ended
  /\ LET room == MaxReviews["diagnosis"] - Cardinality(Jobs("diagnosis"))
         earlier(s) == {t \in Sources : t < s /\ Diagnosable(t)}
         chosen == {s \in Sources : Diagnosable(s) /\ Cardinality(earlier(s)) < room} IN
     job' = [s \in Sources |->
               IF s \in chosen THEN [QueuedJob("diagnosis") EXCEPT !.st = "ready"]
               ELSE IF job[s].st = "queued" THEN [job[s] EXCEPT !.st = "ready"] ELSE job[s]]
  /\ phase' = "flush"
  /\ UNCHANGED <<outcome, first, attached, Unreviewed>>

-----------------------------------------------------------------------------
(* A review.                                                               *)

ReviewVars == <<phase, outcome, first, attached, wide>>

Set(s, fields) == job' = [job EXCEPT ![s] = fields]
Over(s, answer) == Set(s, [job[s] EXCEPT !.st = "over", !.answer = answer])
Full(l) == used[l] >= MaxReviews[l]

Failure(l) ==
  /\ streak' = [streak EXCEPT ![l] = @ + 1]
  /\ open' = IF streak[l] + 1 >= Threshold THEN open \union {l} ELSE open
  /\ UNCHANGED used

NoFailure == UNCHANGED <<used, streak, open>>

Begun(l) ==
  {s \in Jobs(l) : \/ job[s].st \in {"waiting", "asking", "pausing"}
                   \/ job[s].st = "ready" /\ job[s].attempt > 1}

\* The queue of the flush lets as many reviews of a lane begin as the lane has
\* places.
MayBegin(s) ==
  /\ job[s].st = "ready"
  /\ phase = "flush" /\ job[s].attempt = 1 =>
       Cardinality(Begun(job[s].lane)) < Places[job[s].lane]

\* There is no key, or the evidence is not what was prepared, or too large: an
\* error before any request, for which the service is not to blame.
NotSent(s) ==
  /\ MayBegin(s) /\ job[s].attempt = 1
  /\ Over(s, Telling("error")) /\ NoFailure
  /\ UNCHANGED ReviewVars

\* An attempt begins: the time may be up after a pause.
Attempt(s) ==
  /\ MayBegin(s)
  /\ LET l == job[s].lane IN
     CASE job[s].late -> Over(s, Telling("error")) /\ Failure(l)
       [] ~job[s].late /\ (l \in open \/ Full(l)) -> Over(s, Telling("skipped")) /\ NoFailure
       [] OTHER -> Set(s, [job[s] EXCEPT !.st = "waiting"]) /\ NoFailure
  /\ UNCHANGED ReviewVars

InFlight(l) == {s \in Jobs(l) : job[s].st = "asking"}

\* With a place, the circuit, the time and the budget are looked at again.
Ask(s) ==
  /\ job[s].st = "waiting"
  /\ LET l == job[s].lane IN
     /\ Cardinality(InFlight(l)) < Places[l]
     /\ IF l \in open \/ job[s].late \/ Full(l)
        THEN Over(s, Telling("skipped")) /\ NoFailure
        ELSE /\ Set(s, [job[s] EXCEPT !.st = "asking"])
             /\ used' = [used EXCEPT ![l] = @ + 1]
             /\ UNCHANGED <<streak, open>>
  /\ UNCHANGED ReviewVars

\* The time of a review is up.  Waiting for a place is no failure of the service.
Expire(s) ==
  /\ job[s].st \in {"waiting", "asking", "pausing"} /\ ~job[s].late
  /\ CASE job[s].st = "waiting" -> Over(s, Telling("skipped")) /\ NoFailure
       [] job[s].st = "asking" -> Over(s, Telling("error")) /\ Failure(job[s].lane)
       [] job[s].st = "pausing" -> Set(s, [job[s] EXCEPT !.late = TRUE]) /\ NoFailure
  /\ UNCHANGED ReviewVars

Answered(s, answer) ==
  /\ job[s].st = "asking"
  /\ Over(s, answer)
  /\ streak' = [streak EXCEPT ![job[s].lane] = 0]
  /\ UNCHANGED <<used, open>>
  /\ UNCHANGED ReviewVars

Answer(s, verdict) ==
  /\ job[s].lane = "candidate"
  /\ Answered(s, [state |-> "ok", verdict |-> Normalized(verdict), raw |-> verdict])

\* A diagnosis decides nothing.
Diagnose(s) == job[s].lane = "diagnosis" /\ Answered(s, Telling("ok"))

\* A transport error, an overloaded provider, an answer that is none.
AnswerFails(s, transient) ==
  /\ job[s].st = "asking"
  /\ IF transient /\ job[s].attempt < Attempts
     THEN /\ Set(s, [job[s] EXCEPT !.st = "pausing", !.attempt = @ + 1])
          /\ NoFailure
     ELSE Over(s, Telling("error")) /\ Failure(job[s].lane)
  /\ UNCHANGED ReviewVars

Resume(s) ==
  /\ job[s].st = "pausing"
  /\ Set(s, [job[s] EXCEPT !.st = "ready"]) /\ NoFailure
  /\ UNCHANGED ReviewVars

\* All reviews of the queue are over, or their common time is up: those under way
\* are cancelled.
Attach ==
  /\ phase = "flush"
  /\ attached' =
       [s \in Sources |->
          LET owner == IF wide THEN CHOOSE t \in Sources : job[t].lane # "none" ELSE s
              j == job[owner] IN
          IF j.st = "over" THEN [attached[s] EXCEPT ![j.lane] = j.answer] ELSE attached[s]]
  /\ phase' = "done"
  /\ job' = [s \in Sources |-> IF job[s].st = "over" THEN job[s] ELSE NoJob]
  /\ UNCHANGED <<outcome, first, Unreviewed>>

Next ==
  \/ RefreshFails \/ Flush \/ Attach
  \/ \E s \in Sources :
       \/ CandidateRejected(s) \/ CandidatePasses(s) \/ FallbackFails(s) \/ FetchFails(s)
       \/ Decide(s)
       \/ NotSent(s) \/ Attempt(s) \/ Ask(s) \/ Expire(s) \/ Resume(s) \/ Diagnose(s)
       \/ \E v \in Verdicts : Answer(s, v)
       \/ \E transient \in BOOLEAN : AnswerFails(s, transient)

Spec == Init /\ [][Next]_vars

-----------------------------------------------------------------------------
\* Nothing is rejected on a verdict that does not hold together
\* (normalize_semantic_consistency, should_quarantine): in quarantine mode only,
\* on a confident fail whose every reason is a check that failed.  Errors, skipped
\* reviews and verdicts at odds with themselves reject nothing, also when a
\* fallback is asked in between.
RejectionIsBacked ==
  \A s \in Sources :
    outcome[s] = "quarantined" =>
      LET a == attached[s]["candidate"] IN
      /\ Mode = "quarantine" /\ a.state = "ok"
      /\ a.raw.verdict = "fail" /\ a.raw.confident
      /\ a.raw.reasons # {} /\ a.raw.reasons \subseteq Actionable
      /\ \A r \in a.raw.reasons : CheckOf[r] \notin a.raw.passed

\* A status carries the review of its own outcome (_flush_deferred_ai_jobs,
\* _attach_ai_review_status): a diagnosis belongs to a source that failed, a pass
\* to a page all of whose checks passed, a quarantine to a quarantined source.
ReviewsBelong ==
  \A s \in Sources :
    /\ attached[s]["diagnosis"] # NoAnswer => outcome[s] \in {"failed", "rejected"}
    /\ LET a == attached[s]["candidate"] IN
       /\ a.state = "ok" /\ a.verdict.verdict = "pass" =>
            a.raw.passed = Checks /\ a.raw.reasons = {"none"}
       /\ outcome[s] \in Ended /\ ShouldQuarantine(a) => outcome[s] = "quarantined"
       /\ Mode = "observe" /\ a # NoAnswer => outcome[s] = "served"

\* A failure goes without a diagnosis only if the lane has no requests left for it
\* (_enqueue_terminal_failure_ai_jobs).
FailuresAreDiagnosed ==
  phase = "flush" /\ ~wide =>
    \A s \in Sources : Diagnosable(s) => Cardinality(Jobs("diagnosis")) >= MaxReviews["diagnosis"]

\* Requests of a lane stay within its budget and its places, and the circuit of a
\* lane opens on requests of that lane: neither what fails in the other lane nor a
\* review that only waited for a place counts (_reserve_review_slot,
\* _record_review_failure).
LanesAreBounded ==
  \A l \in Lanes :
    /\ used[l] <= MaxReviews[l]
    /\ Cardinality(InFlight(l)) <= Places[l]
    /\ l \in open => used[l] >= Threshold

\* No request starts in a lane whose circuit is open, whoever waited for a place
\* when it opened, and an open circuit stays open (review_candidate).
CircuitHoldsStep ==
  \A l \in open : l \in open' /\ used'[l] = used[l]
=============================================================================
