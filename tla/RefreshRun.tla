----------------------------- MODULE RefreshRun -----------------------------
(***************************************************************************)
(* refresh_sources (app/fetcher.py) under the locks of its sources          *)
(* (app/resource_locks.py): several calls, some in one process, lock what   *)
(* they can, check the environment, fetch tier after tier behind a circuit  *)
(* for the paid proxy, account every source, attach the late reviews, and   *)
(* release.  The uploads of an administrator take no lock.                  *)
(*                                                                         *)
(* A fetch is two steps here, its start and its end; what happens in        *)
(* between is the subject of FetchRoute and EarlyPublication.               *)
(***************************************************************************)
EXTENDS Integers, FiniteSets, FiniteSetsExt

CONSTANTS
  Runs,            \* calls of refresh_sources
  Sources,         \* scrape sources, numbered in the order of their names
  Process,         \* the process of each call: it holds the fallback counters
  PhaseOf,         \* the tier of a source, as the number of its phase
  Parallel,        \* the phases of the API tiers
  Phases,          \* the number of phases
  Concurrency,     \* fetches of a parallel phase at one time
  Proxyless,       \* source_can_run_without_residential_proxy
  Billed,          \* sources with the Firecrawl fallback
  Enabled,         \* sources of the sections that are switched on
  Authorized,      \* source_operationally_enabled
  MaxPerRefresh, MaxPerSource,   \* caps of the Firecrawl fallback
  Requests,        \* sets of named sources; {} asks for all
  NoRun, Admin,
  MaxUploads       \* bound

ASSUME RefreshAssumption ==
  /\ IsFiniteSet(Runs) /\ IsFiniteSet(Sources) /\ Sources \subseteq Nat
  /\ NoRun \notin Runs /\ Admin \notin Runs
  /\ Enabled \subseteq Sources /\ Authorized \subseteq Sources
  /\ Phases \in Nat \ {0} /\ Parallel \subseteq 1 .. Phases
  /\ PhaseOf \in [Sources -> 1 .. Phases]
  /\ Requests \subseteq SUBSET Sources
  /\ {Concurrency, MaxPerRefresh, MaxPerSource, MaxUploads} \subseteq Nat

VARIABLES
  run,             \* the calls
  lock,            \* the holder of each source's flock
  dataset,         \* who saved the dataset file last
  status,          \* who saved the status file last, and what it says
  telemetry,       \* the outcome each call recorded for each source
  attempts, tried, \* fallbacks of a process since the last begin, in all and by source
  spent,           \* history: the fallbacks of each call
  uploads

vars == <<run, lock, dataset, status, telemetry, attempts, tried, spent, uploads>>

Outcomes == {"none", "fresh", "failed", "proxy"}
Steps == {"new", "locking", "preflight", "fetching", "review", "done"}

NewRun == [pc |-> "new", named |-> {}, scheduled |-> FALSE, todo |-> {}, held |-> {},
           locked |-> {}, selected |-> {}, phase |-> 1, active |-> {},
           tries |-> [s \in Sources |-> 0], out |-> [s \in Sources |-> "none"],
           results |-> [s \in Sources |-> "none"], circuit |-> FALSE, reviewed |-> {}]

RunStates ==
  [pc : Steps, named : SUBSET Sources, scheduled : BOOLEAN,
   todo : SUBSET Sources, held : SUBSET Sources, locked : SUBSET Sources,
   selected : SUBSET Sources, phase : 1 .. Phases, active : SUBSET Sources,
   tries : [Sources -> 0 .. 2], out : [Sources -> Outcomes],
   results : [Sources -> Outcomes], circuit : BOOLEAN, reviewed : SUBSET Sources]

TypeOK ==
  /\ run \in [Runs -> RunStates]
  /\ lock \in [Sources -> Runs \union {NoRun}]
  /\ dataset \in [Sources -> Runs \union {NoRun, Admin}]
  /\ status \in [Sources -> [by : Runs \union {NoRun, Admin}, kind : Outcomes]]
  /\ telemetry \in [Runs -> [Sources -> Outcomes \union {"locked"}]]
  /\ attempts \in [{Process[r] : r \in Runs} -> 0 .. MaxPerRefresh]
  /\ tried \in [{Process[r] : r \in Runs} -> [Sources -> 0 .. MaxPerSource]]
  /\ spent \in [Runs -> Nat]
  /\ uploads \in 0 .. MaxUploads

Init ==
  /\ run = [r \in Runs |-> NewRun]
  /\ lock = [s \in Sources |-> NoRun]
  /\ dataset = [s \in Sources |-> NoRun]
  /\ status = [s \in Sources |-> [by |-> NoRun, kind |-> "none"]]
  /\ telemetry = [r \in Runs |-> [s \in Sources |-> "none"]]
  /\ attempts = [p \in {Process[r] : r \in Runs} |-> 0]
  /\ tried = [p \in {Process[r] : r \in Runs} |-> [s \in Sources |-> 0]]
  /\ spent = [r \in Runs |-> 0]
  /\ uploads = 0

\* One call changes.
Becomes(r, row) == run' = [run EXCEPT ![r] = row]

-----------------------------------------------------------------------------
(* The locks and the selection.                                            *)

\* refresh_sources, _refresh_lock_source_ids
Call(r, named, scheduled) ==
  /\ run[r].pc = "new"
  /\ Becomes(r, [run[r] EXCEPT !.pc = "locking", !.named = named, !.scheduled = scheduled,
                   !.todo = IF named = {} THEN Sources ELSE named])
  /\ UNCHANGED <<lock, dataset, status, telemetry, attempts, tried, spent, uploads>>

\* Mutant: a lock is taken whoever holds it.
TakenAnyway(s) == TRUE

Free(s) == lock[s] = NoRun

\* One ResourceLockSet for each source; a held one is passed over.
TryLock(r) ==
  LET s == Min(run[r].todo) IN
  /\ run[r].pc = "locking" /\ run[r].todo # {}
  /\ IF Free(s)
       THEN /\ lock' = [lock EXCEPT ![s] = r]
            /\ Becomes(r, [run[r] EXCEPT !.todo = @ \ {s}, !.held = @ \union {s}])
       ELSE /\ Becomes(r, [run[r] EXCEPT !.todo = @ \ {s}, !.locked = @ \union {s}])
            /\ UNCHANGED lock
  /\ UNCHANGED <<dataset, status, telemetry, attempts, tried, spent, uploads>>

\* The sources of a call: section controls count for a scheduled one only, and
\* an unscheduled one that names its sources is not checked against Authorized.
Selected(names, scheduled) ==
  {s \in IF names = {} THEN Authorized ELSE names :
     scheduled => s \in Enabled /\ s \in Authorized}

\* ResourceLockSet.release
Released(r) == [s \in Sources |-> IF lock[s] = r THEN NoRun ELSE lock[s]]

\* The locked sources are recorded; with any of them the call becomes one that
\* names its sources.  _refresh_sources_unlocked resets the counters of the
\* process first.
Enter(r) ==
  /\ run[r].pc = "locking" /\ run[r].todo = {}
  /\ telemetry' = [telemetry EXCEPT ![r] =
       [s \in Sources |-> IF s \in run[r].locked THEN "locked" ELSE "none"]]
  /\ IF run[r].held = {}
       THEN /\ Becomes(r, [run[r] EXCEPT !.pc = "done"])
            /\ UNCHANGED <<attempts, tried>>
       ELSE LET names == IF run[r].locked = {} THEN run[r].named ELSE run[r].held IN
            /\ Becomes(r, [run[r] EXCEPT !.pc = "preflight",
                             !.selected = Selected(names, run[r].scheduled)])
            /\ attempts' = [attempts EXCEPT ![Process[r]] = 0]
            /\ tried' = [tried EXCEPT ![Process[r]] = [s \in Sources |-> 0]]
  /\ UNCHANGED <<lock, dataset, status, spent, uploads>>

\* ensure_refresh_preflight
PreflightPasses(r) ==
  /\ run[r].pc = "preflight"
  /\ Becomes(r, [run[r] EXCEPT !.pc = "fetching"])
  /\ UNCHANGED <<lock, dataset, status, telemetry, attempts, tried, spent, uploads>>

\* The preflight or the prefetch of the card index fails: every source is
\* accounted and no status file is written.
PreflightFails(r) ==
  /\ run[r].pc = "preflight"
  /\ telemetry' = [telemetry EXCEPT ![r] =
       [s \in Sources |-> IF s \in run[r].selected THEN "failed" ELSE @[s]]]
  /\ Becomes(r, [run[r] EXCEPT !.pc = "done"])
  /\ lock' = Released(r)
  /\ UNCHANGED <<dataset, status, attempts, tried, spent, uploads>>

-----------------------------------------------------------------------------
(* The phases.                                                             *)

Due(r) == {s \in run[r].selected \ run[r].active :
             PhaseOf[s] = run[r].phase /\ run[r].out[s] = "none"}

Width(r) == IF run[r].phase \in Parallel THEN Concurrency ELSE 1

FailedBy(r, s) == [status EXCEPT ![s] = [by |-> r, kind |-> "failed"]]

\* fetch_one, _run_tier_serial_browser: behind an open circuit a source that
\* needs the proxy fails at once.
Start(r, s) ==
  /\ run[r].pc = "fetching"
  /\ s \in Due(r) /\ Cardinality(run[r].active) < Width(r)
  /\ IF run[r].circuit /\ s \notin Proxyless
       THEN /\ Becomes(r, [run[r] EXCEPT !.out[s] = "failed"])
            /\ status' = FailedBy(r, s)
       ELSE /\ Becomes(r, [run[r] EXCEPT !.active = @ \union {s}])
            /\ UNCHANGED status
  /\ UNCHANGED <<lock, dataset, telemetry, attempts, tried, spent, uploads>>

MayFallBack(r, s) ==
  attempts[Process[r]] < MaxPerRefresh /\ tried[Process[r]][s] < MaxPerSource

\* _try_firecrawl_html: a fetch falls back once, and once more after a new login.
Fallback(r, s) ==
  LET p == Process[r] IN
  /\ run[r].pc = "fetching"
  /\ s \in run[r].active \intersect Billed /\ run[r].tries[s] < 2
  /\ MayFallBack(r, s)
  /\ attempts' = [attempts EXCEPT ![p] = @ + 1]
  /\ tried' = [tried EXCEPT ![p][s] = @ + 1]
  /\ spent' = [spent EXCEPT ![r] = @ + 1]
  /\ Becomes(r, [run[r] EXCEPT !.tries[s] = @ + 1])
  /\ UNCHANGED <<lock, dataset, status, telemetry, uploads>>

\* fetch_source publishes, or saves a failure; a refused proxy tunnel opens the
\* circuit, also when another backend has then served the source.
End(r, s, kind, refused) ==
  /\ run[r].pc = "fetching" /\ s \in run[r].active
  /\ refused => s \notin Proxyless
  /\ kind = "proxy" => refused
  /\ Becomes(r, [run[r] EXCEPT !.active = run[r].active \ {s},
                   !.out = [run[r].out EXCEPT ![s] = kind],
                   !.circuit = run[r].circuit \/ refused])
  /\ status' = [status EXCEPT ![s] =
       [by |-> r, kind |-> IF kind = "proxy" THEN "failed" ELSE kind]]
  /\ dataset' = IF kind = "fresh" THEN [dataset EXCEPT ![s] = r] ELSE dataset
  /\ UNCHANGED <<lock, telemetry, attempts, tried, spent, uploads>>

\* fetch_source raises something else: the serial tiers save the failure, the
\* parallel ones only return it.
Raise(r, s) ==
  /\ run[r].pc = "fetching" /\ s \in run[r].active
  /\ Becomes(r, [run[r] EXCEPT !.active = @ \ {s}, !.out[s] = "failed"])
  /\ status' = IF run[r].phase \in Parallel THEN status ELSE FailedBy(r, s)
  /\ UNCHANGED <<lock, dataset, telemetry, attempts, tried, spent, uploads>>

Merged(r) == [s \in Sources |-> IF run[r].out[s] # "none" THEN run[r].out[s] ELSE run[r].results[s]]

PhaseOver(r) == run[r].pc = "fetching" /\ run[r].active = {} /\ Due(r) = {}

\* Mutant: every phase has a circuit of its own.
NextPhaseClosing(r) ==
  /\ PhaseOver(r) /\ run[r].phase < Phases
  /\ Becomes(r, [run[r] EXCEPT !.phase = @ + 1, !.results = Merged(r), !.circuit = FALSE,
                   !.out = [s \in Sources |-> "none"]])
  /\ UNCHANGED <<lock, dataset, status, telemetry, attempts, tried, spent, uploads>>

NextPhase(r) ==
  /\ PhaseOver(r) /\ run[r].phase < Phases
  /\ Becomes(r, [run[r] EXCEPT !.phase = @ + 1, !.results = Merged(r),
                   !.out = [s \in Sources |-> "none"]])
  /\ UNCHANGED <<lock, dataset, status, telemetry, attempts, tried, spent, uploads>>

-----------------------------------------------------------------------------
(* The end of a run.                                                       *)

\* Mutant: only the sources with a result are recorded.
TerminalResults(r, results) ==
  [s \in Sources |-> IF s \in run[r].selected THEN results[s] ELSE telemetry[r][s]]

\* A selected source without a result is recorded as failed.
Terminal(r, results) ==
  [s \in Sources |-> IF s \notin run[r].selected THEN telemetry[r][s]
                     ELSE IF results[s] = "none" THEN "failed" ELSE results[s]]

Record(r, results) ==
  /\ telemetry' = [telemetry EXCEPT ![r] = Terminal(r, results)]
  /\ Becomes(r, [run[r] EXCEPT !.pc = "review", !.results = results])
  /\ UNCHANGED <<lock, dataset, status, attempts, tried, spent, uploads>>

LastPhaseEnds(r) ==
  /\ PhaseOver(r) /\ run[r].phase = Phases
  /\ Record(r, Merged(r))

\* A serial phase raises (its pool does not start, a status is not written): the
\* outcomes of the phase are lost.
PhaseFails(r) ==
  /\ run[r].pc = "fetching" /\ run[r].phase \notin Parallel /\ run[r].active = {}
  /\ Record(r, run[r].results)

\* _flush_deferred_ai_jobs: a late review saves the terminal status again.
Review(r, s) ==
  /\ run[r].pc = "review" /\ s \in run[r].selected \ run[r].reviewed
  /\ Becomes(r, [run[r] EXCEPT !.reviewed = @ \union {s}])
  /\ status' = [status EXCEPT ![s] =
       [by |-> r, kind |-> IF telemetry[r][s] = "fresh" THEN "fresh" ELSE "failed"]]
  /\ UNCHANGED <<lock, dataset, telemetry, attempts, tried, spent, uploads>>

Return(r) ==
  /\ run[r].pc = "review"
  /\ Becomes(r, [run[r] EXCEPT !.pc = "done"])
  /\ lock' = Released(r)
  /\ UNCHANGED <<dataset, status, telemetry, attempts, tried, spent, uploads>>

\* upload_dataset
Upload(s) ==
  /\ uploads < MaxUploads
  /\ uploads' = uploads + 1
  /\ dataset' = [dataset EXCEPT ![s] = Admin]
  /\ status' = [status EXCEPT ![s] = [by |-> Admin, kind |-> "fresh"]]
  /\ UNCHANGED <<run, lock, telemetry, attempts, tried, spent>>

Work(r) ==
  \/ TryLock(r) \/ Enter(r) \/ PreflightPasses(r) \/ PreflightFails(r)
  \/ \E s \in Sources :
       \/ Start(r, s) \/ Raise(r, s)
       \/ \E kind \in {"fresh", "failed", "proxy"}, refused \in BOOLEAN :
            End(r, s, kind, refused)
  \/ NextPhase(r) \/ LastPhaseEnds(r) \/ PhaseFails(r) \/ Return(r)

Next ==
  \/ \E r \in Runs :
       \/ \E named \in Requests, scheduled \in BOOLEAN : Call(r, named, scheduled)
       \/ Work(r)
       \/ \E s \in Sources : Fallback(r, s) \/ Review(r, s)
  \/ \E s \in Sources : Upload(s)

Spec == Init /\ [][Next]_vars

-----------------------------------------------------------------------------
(* Properties.                                                             *)

\* Two calls never fetch one source at a time, and what a call fetches it holds.
OneFetchPerSource ==
  \A r \in Runs : \A s \in run[r].active :
    lock[s] = r /\ \A q \in Runs \ {r} : s \notin run[q].active

Wanted(r) == {s \in IF run[r].named = {} THEN Authorized ELSE run[r].named :
                run[r].scheduled => s \in Enabled \intersect Authorized}

\* A call accounts everything it was asked for, whichever locks were held, a
\* preflight failed or a phase broke off.
EverySourceAccounted ==
  \A r \in Runs : run[r].pc \in {"review", "done"} =>
    \A s \in Wanted(r) : telemetry[r][s] # "none"

\* A scheduled call fetches no source that is switched off or not authorized,
\* also when a held lock has turned it into a call with names.
SchedulesRespectSections ==
  \A r \in Runs : run[r].scheduled => run[r].active \subseteq Enabled \intersect Authorized

\* Once a source has found the paid proxy refused, its call starts no other
\* source that needs the proxy, in this phase or a later one.
CircuitOutlivesPhaseStep ==
  \A r \in Runs :
    (\E s \in Sources : run[r].out[s] = "proxy" \/ run[r].results[s] = "proxy")
      => run'[r].active \ run[r].active \subseteq Proxyless
CircuitOutlivesPhase == [][CircuitOutlivesPhaseStep]_vars

\* What a call has recorded as fresh is on disk, by this call or by an upload,
\* until it releases its locks.
FreshIsPublished ==
  \A r \in Runs : \A s \in Sources :
    run[r].pc = "review" /\ telemetry[r][s] = "fresh" => dataset[s] \in {r, Admin}

\* The calls of a process that have begun, and every fallback its calls have paid.
Begun(p) == {r \in Runs : Process[r] = p /\ run[r].pc \notin {"new", "locking"}}
Payments(p) == UNION {{r} \X (1 .. spent[r]) : r \in {q \in Runs : Process[q] = p}}

\* The fallbacks of a process are bounded by the cap for every call that began.
SpendBounded ==
  \A p \in {Process[r] : r \in Runs} :
    Cardinality(Payments(p)) <= MaxPerRefresh * Cardinality(Begun(p))

-----------------------------------------------------------------------------
(* The strengthening that makes the safety properties inductive.           *)

\* What a call locks: the sources it names, or all.
Asked(r) == IF run[r].named = {} THEN Sources ELSE run[r].named

\* A call has its sources locked, passed over or still to try, and it selects
\* what it wants of the ones it holds.
LocksFit(r) ==
  /\ run[r].pc = "new" => run[r].held = {} /\ run[r].locked = {}
  /\ run[r].pc \in {"new", "locking"} => run[r].selected = {}
  /\ run[r].pc \in {"locking", "preflight", "fetching", "review"} =>
       /\ run[r].todo \union run[r].held \union run[r].locked = Asked(r)
       /\ \A s \in run[r].held : lock[s] = r
  /\ run[r].pc \in {"preflight", "fetching", "review"} =>
       /\ run[r].selected \subseteq run[r].held
       /\ run[r].scheduled => run[r].selected \subseteq Enabled \intersect Authorized
  /\ run[r].pc \in {"preflight", "fetching", "review", "done"} =>
       Wanted(r) \subseteq run[r].selected \union run[r].locked

\* Only selected sources are fetched and have results; a fresh one is on disk.
ResultsFit(r) ==
  /\ run[r].pc # "fetching" => run[r].active = {}
  /\ run[r].active \subseteq run[r].selected
  /\ run[r].pc \in {"new", "locking", "preflight"} =>
       \A s \in Sources : run[r].out[s] = "none" /\ run[r].results[s] = "none"
  /\ run[r].pc = "fetching" =>
       \A s \in Sources :
         /\ run[r].out[s] # "none" \/ run[r].results[s] # "none" => s \in run[r].selected
         /\ "fresh" \in {run[r].out[s], run[r].results[s]} => dataset[s] \in {r, Admin}
  /\ \A s \in Sources : "proxy" \in {run[r].out[s], run[r].results[s]} => run[r].circuit

\* What has been recorded: the sources passed over from the start, the selected
\* ones at the end.
RecordFits(r) ==
  /\ run[r].pc \in {"preflight", "fetching"} =>
       \A s \in Sources :
         telemetry[r][s] = IF s \in run[r].locked THEN "locked" ELSE "none"
  /\ run[r].pc \in {"review", "done"} =>
       \A s \in run[r].selected \union run[r].locked : telemetry[r][s] # "none"
  /\ run[r].pc = "review" =>
       \A s \in Sources : telemetry[r][s] = "fresh" =>
         s \in run[r].selected /\ dataset[s] \in {r, Admin}

Inv == \A r \in Runs : LocksFit(r) /\ ResultsFit(r) /\ RecordFits(r)
=============================================================================
