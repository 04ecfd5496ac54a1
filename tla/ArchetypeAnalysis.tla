-------------------------- MODULE ArchetypeAnalysis --------------------------
(***************************************************************************)
(* The refresh of the HSGuru archetype analysis                            *)
(* (app/hsguru_archetype_analysis.py).  A run takes its targets from the   *)
(* published matrix, fetches two pages per target (matchups and card       *)
(* statistics) concurrently, saves a checkpoint every few targets, and     *)
(* publishes when every target has been completed in its refresh window.   *)
(* A window outlives its run: a later full run, or the hourly recovery,    *)
(* resumes the checkpoint.  Recovery moves a checkpoint to the targets of  *)
(* a changed matrix, works on a few targets and has a budget of failures.  *)
(* A run with a limit neither reads nor writes the checkpoint.             *)
(*                                                                         *)
(* The clock counts ticks; a new window starts with a tick of its own, so  *)
(* that what was fetched before it is older.  Targets are numbered in the  *)
(* order of their names.                                                   *)
(***************************************************************************)
EXTENDS Integers, FiniteSets

CONSTANTS
  Targets,
  Workers,         \* concurrent targets of a run
  Batch,           \* targets of a recovery run
  Budget,          \* provider failures of a recovery run
  Threshold,       \* failures in a row that open the circuit
  SaveEvery,       \* targets between two checkpoints
  Retry,           \* ticks for which a known gap is not asked again
  TTL,             \* age up to which a full run resumes a checkpoint
  RecoveryTTL,     \* age up to which the recovery does
  Answers,         \* bound: what upstream pages have: "rows", "sparse", "no_data", "no_tallies"
  MaxClock, MaxChanges, MaxFaults    \* bounds

VARIABLES
  clock,
  matrix,          \* the archetypes of the published matrix
  run,
  entry,           \* the rows a run works on: cached, resumed or fetched
  gaps,            \* its negative cache
  work,            \* the two requests of a target
  streak,          \* failures in a row of each page kind
  checkpoint,
  dataset,         \* what is published
  changes, faults

vars == <<clock, matrix, run, entry, gaps, work, streak, checkpoint, dataset, changes, faults>>

Kinds == {"matchups", "cards"}
Never == -1
Ticks == 0 .. MaxClock

Gaps == {"source_no_data", "upstream_card_tallies_missing"}
States == Gaps \union {"cached", "complete", "sparse_valid", "transport_error",
                       "provider_circuit_open"}

\* A page of a row: its state, whether it has rows, when these were fetched
\* and when the page was last checked.
Blank == [state |-> "cached", rows |-> FALSE, updated |-> Never, checked |-> Never]
BlankRow == [k \in Kinds |-> Blank]
NoGap == [state |-> "none", checked |-> Never]
NoGaps == [t \in Targets |-> NoGap]

NoRun == [pc |-> "idle", mode |-> "full", started |-> 0, window |-> 0, targets |-> {},
          queue |-> {}, fetched |-> {}, completed |-> {}, since |-> 0,
          errors |-> FALSE, open |-> FALSE, failures |-> 0]
NoWork == [k \in Kinds |-> "none"]
NoCheckpoint == [state |-> "none", window |-> 0, saved |-> 0, targets |-> {},
                 completed |-> {}, rows |-> <<>>, gaps |-> NoGaps]
NoDataset == [mode |-> "part", window |-> Never, targets |-> {}, rows |-> <<>>,
              gaps |-> NoGaps]

Pages == [state : States, rows : BOOLEAN, updated : Ticks \union {Never},
          checked : Ticks \union {Never}]
IsRows(f) == DOMAIN f \subseteq Targets /\ \A t \in DOMAIN f : f[t] \in [Kinds -> Pages]
GapRecords == [state : Gaps \union {"none"}, checked : Ticks \union {Never}]

TypeOK ==
  /\ clock \in Ticks
  /\ matrix \subseteq Targets
  /\ run \in [pc : {"idle", "working", "publishing", "closing"},
              mode : {"full", "recover", "part"}, started : Ticks, window : Ticks,
              targets : SUBSET Targets, queue : SUBSET Targets,
              fetched : SUBSET Targets, completed : SUBSET Targets,
              since : 0 .. SaveEvery - 1, errors : BOOLEAN, open : BOOLEAN,
              failures : 0 .. 2 * Cardinality(Targets)]
  /\ entry \in [Targets -> [Kinds -> Pages]]
  /\ gaps \in [Targets -> GapRecords]
  /\ work \in [Targets -> [Kinds -> {"none", "asked", "flight", "skipped", "rows", "sparse",
                                     "no_data", "no_tallies", "failed", "closed"}]]
  /\ streak \in [Kinds -> 0 .. 2 * Cardinality(Targets)]
  /\ checkpoint.state \in {"none", "in_progress", "complete"}
  /\ IsRows(checkpoint.rows) /\ IsRows(dataset.rows)
  /\ changes \in 0 .. MaxChanges
  /\ faults \in 0 .. MaxFaults

Init ==
  /\ clock = 0
  /\ matrix = Targets
  /\ run = NoRun
  /\ entry = [t \in Targets |-> BlankRow]
  /\ gaps = NoGaps
  /\ work = [t \in Targets |-> NoWork]
  /\ streak = [k \in Kinds |-> 0]
  /\ checkpoint = NoCheckpoint
  /\ dataset = NoDataset
  /\ changes = 0
  /\ faults = 0

-----------------------------------------------------------------------------
\* Which rows a window may keep

Within(f, S) == [t \in DOMAIN f \intersect S |-> f[t]]
Over(f, g) == [t \in DOMAIN f \union DOMAIN g |-> IF t \in DOMAIN f THEN f[t] ELSE g[t]]

\* The gap has not to be asked again at that time.
Pending(gap, time) == gap.state \in Gaps /\ gap.checked + Retry > time

MatchupsReusable(page, window) ==
  /\ page.state = "complete" /\ page.rows
  /\ page.checked >= window /\ page.updated >= window

CardsReusable(page, gap, window, time) ==
  /\ page.checked >= window
  /\ \/ page.state = "complete" /\ gap.state = "none" /\ page.rows /\ page.updated >= window
     \/ page.state = "sparse_valid" /\ gap.state = "none" /\ ~page.rows
        /\ page.updated >= window
     \/ /\ page.state \in Gaps /\ ~page.rows
        /\ page.state = "source_no_data" => page.updated >= window
        /\ page.updated # Never => page.updated >= window
        /\ Pending(gap, time)
        /\ gap.state = page.state /\ gap.checked = page.checked

Reusable(row, gap, window, time) ==
  /\ MatchupsReusable(row["matchups"], window)
  /\ CardsReusable(row["cards"], gap, window, time)

\* The page was fetched earlier in the window and may stand in for a failure.
Refreshed(page, kind, window) ==
  /\ page.updated >= window
  /\ \/ page.rows
     \/ page.state = "source_no_data"
     \/ kind = "cards" /\ page.state = "upstream_card_tallies_missing"

-----------------------------------------------------------------------------
\* The checkpoint

Saved(r, rows, known) ==
  [state |-> "in_progress", window |-> r.window, saved |-> clock, targets |-> r.targets,
   completed |-> r.completed, rows |-> Within(rows, r.fetched), gaps |-> known]

\* A run with a limit has no checkpoint (checkpoint_enabled).
Save(r, rows, known) ==
  checkpoint' = IF r.mode = "part" THEN checkpoint ELSE Saved(r, rows, known)

Resumable(maxAge) ==
  checkpoint.state = "in_progress" /\ clock - checkpoint.saved <= maxAge

\* The checkpoint with the targets of another matrix.
Rebased(cp, targets) ==
  [cp EXCEPT !.targets = targets, !.completed = @ \intersect targets,
             !.rows = Within(@, targets),
             !.gaps = [t \in Targets |-> IF t \in targets THEN @[t] ELSE NoGap]]

\* The run takes over what the checkpoint cp has completed and can be reused;
\* without one, cp is NoCheckpoint in a new window.
Begin(mode, targets, cp, window, started, known) ==
  LET rows == Over(cp.rows, dataset.rows)
      base == [t \in Targets |-> IF t \in DOMAIN rows THEN rows[t] ELSE BlankRow]
      resumed == {t \in cp.completed \intersect targets \intersect DOMAIN cp.rows :
                    Reusable(cp.rows[t], known[t], window, started)}
      pending == targets \ resumed
      first == {t \in pending : Cardinality({u \in pending : u < t}) < Batch}
      r == [NoRun EXCEPT !.pc = "working", !.mode = mode, !.started = started,
                         !.window = window, !.targets = targets, !.fetched = resumed,
                         !.completed = resumed,
                         !.queue = IF mode = "recover" THEN first ELSE pending]
  IN /\ run' = r
     /\ entry' = base
     /\ gaps' = known
     /\ work' = [t \in Targets |-> NoWork]
     /\ streak' = [k \in Kinds |-> 0]
     /\ Save(r, base, known)

\* A window starts with a tick of its own.
NewWindow(mode, targets) ==
  /\ clock < MaxClock
  /\ clock' = clock + 1
  /\ Begin(mode, targets, NoCheckpoint, clock + 1, clock + 1, dataset.gaps)

StartFull ==
  /\ run.pc = "idle" /\ matrix # {}
  /\ IF Resumable(TTL) /\ checkpoint.targets = matrix
     THEN /\ UNCHANGED clock
          /\ Begin("full", matrix, checkpoint, checkpoint.window, clock, checkpoint.gaps)
     ELSE NewWindow("full", matrix)
  /\ UNCHANGED <<matrix, dataset, changes, faults>>

\* The first targets only (limit).
StartPart ==
  /\ run.pc = "idle" /\ matrix # {}
  /\ \E n \in 1 .. Cardinality(matrix) :
       NewWindow("part", {t \in matrix : Cardinality({u \in matrix : u < t}) < n})
  /\ UNCHANGED <<matrix, dataset, changes, faults>>

\* The recovery waits after a save, unless the matrix has changed since.
StartRecovery ==
  /\ run.pc = "idle" /\ Resumable(RecoveryTTL)
  /\ LET moved == matrix # {} /\ matrix # checkpoint.targets
         cp == IF moved THEN Rebased(checkpoint, matrix) ELSE checkpoint
     IN /\ moved \/ checkpoint.saved < clock
        /\ Begin("recover", cp.targets, cp, cp.window, clock, cp.gaps)
  /\ UNCHANGED <<clock, matrix, dataset, changes, faults>>

\* The run and its memory are gone.
RunEnds ==
  /\ run' = NoRun
  /\ entry' = [t \in Targets |-> BlankRow]
  /\ gaps' = NoGaps
  /\ work' = [t \in Targets |-> NoWork]
  /\ streak' = [k \in Kinds |-> 0]

-----------------------------------------------------------------------------
\* A worker

Busy == {t \in Targets : work[t] # NoWork}

\* The worker asks for both pages, but for the cards when their gap is known.
TakeTarget(t) ==
  /\ run.pc = "working" /\ ~run.open
  /\ t \in run.queue /\ \A u \in run.queue : t <= u
  /\ Cardinality(Busy) < Workers
  /\ run' = [run EXCEPT !.queue = @ \ {t}]
  /\ work' = [work EXCEPT ![t] =
       [k \in Kinds |-> IF k = "cards" /\ Pending(gaps[t], clock) THEN "skipped" ELSE "asked"]]
  /\ UNCHANGED <<clock, matrix, entry, gaps, streak, checkpoint, dataset, changes, faults>>

InFlight == {<<t, k>> \in Targets \X Kinds : work[t][k] = "flight"}

\* The request gets a place and looks at the circuit; the recovery sends one
\* request at a time.
Send(t, k) ==
  /\ run.pc = "working" /\ work[t][k] = "asked"
  /\ Cardinality(InFlight) < (IF run.mode = "recover" THEN 1 ELSE Workers)
  /\ work' = [work EXCEPT ![t][k] = IF run.open THEN "closed" ELSE "flight"]
  /\ UNCHANGED <<clock, matrix, run, entry, gaps, streak, checkpoint, dataset, changes, faults>>

Answer(t, k) ==
  /\ run.pc = "working" /\ work[t][k] = "flight"
  /\ \E page \in Answers :
       /\ k = "matchups" => page \in {"rows", "no_data"}
       /\ work' = [work EXCEPT ![t][k] = page]
  /\ streak' = [streak EXCEPT ![k] = 0]
  /\ UNCHANGED <<clock, matrix, run, entry, gaps, checkpoint, dataset, changes, faults>>

\* The chain of providers failed for the page: the budget of a recovery or
\* failures in a row open the circuit.
Fail(t, k) ==
  /\ run.pc = "working" /\ work[t][k] = "flight"
  /\ work' = [work EXCEPT ![t][k] = "failed"]
  /\ streak' = [streak EXCEPT ![k] = @ + 1]
  /\ run' = [run EXCEPT !.failures = @ + 1,
                        !.open = \/ @
                                 \/ run.mode = "recover" /\ run.failures + 1 >= Budget
                                 \/ streak[k] + 1 >= Threshold]
  /\ UNCHANGED <<clock, matrix, entry, gaps, checkpoint, dataset, changes, faults>>

\* What the answer makes of the page (enrich).
NewPage(t, k) ==
  LET page == entry[t][k]
      answer == work[t][k]
      at(state, rows) == [state |-> state, rows |-> rows, updated |-> clock, checked |-> clock]
  IN CASE answer = "rows"       -> at("complete", TRUE)
       [] answer = "sparse"     -> at("sparse_valid", FALSE)
       [] answer = "no_data"    -> at("source_no_data", FALSE)
       [] answer = "no_tallies" -> [page EXCEPT !.state = "upstream_card_tallies_missing",
                                                !.checked = clock]
       [] answer = "skipped"    -> [page EXCEPT !.state = gaps[t].state,
                                                !.checked = gaps[t].checked]
       [] answer = "closed"     -> [page EXCEPT !.state = "provider_circuit_open"]
       [] OTHER -> IF Refreshed(page, k, run.window) THEN page
                   ELSE [page EXCEPT !.state = "transport_error"]

NewGap(t) ==
  LET answer == work[t]["cards"]
  IN CASE answer \in {"rows", "sparse"} -> NoGap
       [] answer = "no_data"    -> [state |-> "source_no_data", checked |-> clock]
       [] answer = "no_tallies" -> [state |-> "upstream_card_tallies_missing", checked |-> clock]
       [] OTHER -> gaps[t]

\* Both pages are there: the row is kept, and completed when a later run could
\* reuse it; after every SaveEvery targets the checkpoint is saved.
FinishTarget(t) ==
  /\ run.pc = "working" /\ t \in Busy
  /\ \A k \in Kinds : work[t][k] \notin {"asked", "flight"}
  /\ LET row == [k \in Kinds |-> NewPage(t, k)]
         gap == NewGap(t)
         lost == \E k \in Kinds : row[k].state = "transport_error" /\ work[t][k] = "failed"
         done == /\ \A k \in Kinds : work[t][k] # "closed"
                 /\ ~lost
                 /\ Reusable(row, gap, run.window, run.started)
         r == [run EXCEPT !.fetched = @ \union {t},
                          !.completed = IF done THEN @ \union {t} ELSE @,
                          !.errors = @ \/ lost,
                          !.since = (@ + 1) % SaveEvery]
     IN /\ run' = r
        /\ entry' = [entry EXCEPT ![t] = row]
        /\ gaps' = [gaps EXCEPT ![t] = gap]
        /\ IF r.since = 0 THEN Save(r, entry', gaps') ELSE UNCHANGED checkpoint
  /\ work' = [work EXCEPT ![t] = NoWork]
  /\ UNCHANGED <<clock, matrix, streak, dataset, changes, faults>>

\* The workers are through, or stopped at the open circuit: a run that is not
\* complete saves and reports; a complete one goes on to publish.
Conclude ==
  /\ run.pc = "working" /\ Busy = {} /\ (run.queue = {} \/ run.open)
  /\ IF ~run.errors /\ ~run.open /\ run.completed = run.targets
     THEN /\ run' = [run EXCEPT !.pc = "publishing"]
          /\ UNCHANGED <<entry, gaps, work, streak, checkpoint>>
     ELSE RunEnds /\ Save(run, entry, gaps)
  /\ UNCHANGED <<clock, matrix, dataset, changes, faults>>

-----------------------------------------------------------------------------
\* The publication

\* The rows to publish: those of the run, and with a limit the published rest.
Candidate ==
  IF run.mode = "part" THEN Over(Within(entry, run.fetched), dataset.rows)
  ELSE Within(entry, run.fetched)

\* The part of the gate that is about this dataset's own contract.
ContractHolds(rows) ==
  /\ DOMAIN rows = run.targets
  /\ \A t \in DOMAIN rows :
       LET cards == rows[t]["cards"] IN
       /\ rows[t]["matchups"].state = "complete" /\ rows[t]["matchups"].rows
       /\ \/ cards.state = "complete" /\ cards.rows
          \/ cards.state = "sparse_valid" /\ ~cards.rows
          \/ cards.state \in Gaps /\ ~cards.rows /\ gaps[t].state \in Gaps

\* Under the lock of the matrix, whose targets must be those of the run.
Publish ==
  /\ run.pc = "publishing"
  /\ run.mode # "part" => matrix = run.targets
  /\ ContractHolds(Candidate)
  /\ dataset' = [mode |-> run.mode, window |-> run.window, targets |-> run.targets,
                 rows |-> Candidate, gaps |-> gaps]
  /\ run' = [run EXCEPT !.pc = "closing"]
  /\ UNCHANGED <<clock, matrix, entry, gaps, work, streak, checkpoint, changes, faults>>

\* The matrix has changed, its lock is taken, or a gate refuses; the last
\* saved checkpoint remains.
Reject ==
  /\ run.pc = "publishing"
  /\ RunEnds
  /\ UNCHANGED <<clock, matrix, checkpoint, dataset, changes, faults>>

\* The checkpoint is closed.
Close ==
  /\ run.pc = "closing"
  /\ checkpoint' = IF run.mode = "part" THEN checkpoint
                   ELSE [NoCheckpoint EXCEPT !.state = "complete", !.window = run.window,
                                             !.saved = clock, !.targets = run.targets]
  /\ RunEnds
  /\ UNCHANGED <<clock, matrix, dataset, changes, faults>>

-----------------------------------------------------------------------------
Tick ==
  /\ clock < MaxClock
  /\ clock' = clock + 1
  /\ UNCHANGED <<matrix, run, entry, gaps, work, streak, checkpoint, dataset, changes, faults>>

\* The matrix is published again.
MatrixChanges ==
  /\ changes < MaxChanges
  /\ matrix' \in SUBSET Targets \ {matrix}
  /\ changes' = changes + 1
  /\ UNCHANGED <<clock, run, entry, gaps, work, streak, checkpoint, dataset, faults>>

\* The run is cancelled: it saves what its workers have finished.
Cancel ==
  /\ faults < MaxFaults
  /\ run.pc = "working"
  /\ faults' = faults + 1
  /\ RunEnds
  /\ Save(run, entry, gaps)
  /\ UNCHANGED <<clock, matrix, dataset, changes>>

Crash ==
  /\ faults < MaxFaults
  /\ run.pc # "idle"
  /\ faults' = faults + 1
  /\ RunEnds
  /\ UNCHANGED <<clock, matrix, checkpoint, dataset, changes>>

Next ==
  \/ StartFull \/ StartPart \/ StartRecovery
  \/ \E t \in Targets : TakeTarget(t) \/ FinishTarget(t)
  \/ \E t \in Targets, k \in Kinds : Send(t, k) \/ Answer(t, k) \/ Fail(t, k)
  \/ Conclude \/ Publish \/ Reject \/ Close
  \/ Tick \/ MatrixChanges \/ Cancel \/ Crash

Spec == Init /\ [][Next]_vars

-----------------------------------------------------------------------------
\* What is published is one window's: every target has its matchups and its
\* card statistics, or the checked reason for their absence, from that window
\* or later, however many runs, recoveries and matrices it took
\* (_checkpoint_row_is_reusable, the resume and the rebase).
PublishedIsOfOneWindow ==
  \A t \in dataset.targets :
    /\ t \in DOMAIN dataset.rows
    /\ \A k \in Kinds : dataset.rows[t][k].checked >= dataset.window
    /\ dataset.rows[t]["matchups"].updated >= dataset.window
    /\ dataset.rows[t]["cards"].rows => dataset.rows[t]["cards"].updated >= dataset.window

\* A recovery never costs more provider failures than its budget, though its
\* workers run concurrently (recovery_provider_request_lock).
FailuresWithinBudget ==
  run.mode = "recover" => run.failures <= Budget

\* The archetypes of a publication are those of the matrix at that moment (the
\* target check under the lock of the matrix).
PublishesTheMatrixStep ==
  dataset' # dataset /\ run.mode # "part" => dataset'.targets = matrix

\* A complete publication is not replaced by one of an earlier window, whatever
\* was resumed, moved or crashed between.
NoEarlierWindowStep ==
  dataset'.window < dataset.window => dataset.mode = "part"

\* While its window lasts, a completed target stays in the checkpoint, unless the
\* matrix dropped it or its known gap has to be asked again.
CompletedStayStep ==
  checkpoint'.state = "in_progress" /\ checkpoint.state = "in_progress"
  /\ checkpoint'.window = checkpoint.window =>
    \A t \in checkpoint.completed :
      \/ t \in checkpoint'.completed
      \/ t \notin checkpoint'.targets
      \/ checkpoint.rows[t]["cards"].state \in Gaps
=============================================================================
